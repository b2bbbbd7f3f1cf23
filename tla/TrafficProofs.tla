----------------------------- MODULE TrafficProofs -----------------------------
(***************************************************************************)
(* For every parameter file, with any number of connections, frames and    *)
(* chunks: the turns of the interleaving, the rules that the streams keep, *)
(* that they are delivered whole and in order, and that check.py accepts   *)
(* them.                                                                   *)
(***************************************************************************)
EXTENDS TrafficProperties, SequenceTheorems, FiniteSetTheorems, NaturalsInduction,
        WellFoundedInduction, TLAPS

--------------------------------------------------------------------------------
(* Taking the first element out of a queue. *)
LEMMA RemoveAtHead ==
  ASSUME NEW S, NEW s \in Seq(S), s # <<>>
  PROVE  RemoveAt(s, 1) = Tail(s)
<1>1. SubSeq(s, 1, 1 - 1) = <<>>
  BY SubSeqEmpty
<1>2. Tail(s) = SubSeq(s, 1 + 1, Len(s)) /\ Tail(s) \in Seq(S)
  BY TailIsSubSeq, HeadTailProperties
<1>3. QED BY <1>1, <1>2, ConcatEmptySeq DEF RemoveAt

LEMMA FirstPlace ==
  ASSUME NEW S, NEW s \in Seq(S), NEW k \in 1 .. Len(s),
         \A i \in 1 .. Len(s) : s[i] = s[k] => k <= i
  PROVE  RemoveFirst(s, s[k]) = RemoveAt(s, k)
<1> DEFINE I == {i \in 1 .. Len(s) : s[i] = s[k]}
<1>1. k \in I /\ \A i \in I : k <= i /\ i \in Int
  OBVIOUS
<1>2. Min(I) = k
  BY <1>1 DEF Min
<1>3. SelectInSeq(s, LAMBDA v : v = s[k]) = k
  BY <1>1, <1>2 DEF SelectInSeq
<1>4. QED BY <1>1, <1>3 DEF RemoveFirst

(* The last element, if it is nowhere before, comes out of its place. *)
LEMMA RemoveLast ==
  ASSUME NEW S, NEW s \in Seq(S), NEW e \in S, \A i \in 1 .. Len(s) : s[i] # e
  PROVE  RemoveFirst(Append(s, e), e) = s
<1> DEFINE t == Append(s, e)
<1>1. /\ t \in Seq(S) /\ Len(t) = Len(s) + 1 /\ t[Len(s) + 1] = e
      /\ \A i \in 1 .. Len(s) : t[i] = s[i]
  BY AppendProperties
<1>2. Len(s) \in Nat
  BY LenProperties
<1>3. RemoveFirst(t, t[Len(s) + 1]) = RemoveAt(t, Len(s) + 1)
  <2>1. \A i \in 1 .. Len(t) : t[i] = t[Len(s) + 1] => Len(s) + 1 <= i
    BY <1>1, <1>2
  <2> HIDE DEF t
  <2>2. QED BY <1>1, <1>2, <2>1, FirstPlace
<1>4. SubSeq(t, 1, Len(s) + 1 - 1) = s
  BY <1>1, <1>2, SubSeqProperties
<1>5. SubSeq(t, Len(s) + 1 + 1, Len(t)) = <<>>
  BY <1>1, <1>2, SubSeqEmpty
<1>6. RemoveAt(t, Len(s) + 1) = s
  BY <1>4, <1>5, ConcatEmptySeq DEF RemoveAt
<1>7. QED BY <1>1, <1>3, <1>6

--------------------------------------------------------------------------------
(* The inductive invariant. While the streams are cut, each connection has *)
(* a sequence of chunks, whatever its elements are.                        *)
Lists == \A c \in Conns : \E S : per_conn[c] \in Seq(S)

(* The queue holds each connection with chunks left, once.                 *)
Queue ==
  /\ active \in Seq(Conns)
  /\ pos \in [Conns -> Nat]
  /\ \A c \in Conns : Len(per_conn[c]) \in Nat /\ pos[c] <= Len(per_conn[c])
  /\ \A i, j \in 1 .. Len(active) : active[i] = active[j] => i = j
  /\ \A c \in Conns : pos[c] < Len(per_conn[c]) <=> \E i \in 1 .. Len(active) : active[i] = c

(* round_robin: those further back have had no fewer turns, and nobody has *)
(* had more than one turn more than anyone in the queue.                   *)
RoundRobin ==
  /\ \A i, j \in 1 .. Len(active) : i < j => pos[active[i]] <= pos[active[j]]
  /\ \A i \in 1 .. Len(active) : \A d \in Conns : pos[d] <= pos[active[i]] + 1

(* sequential: the queue ascends, and none behind its head has started.    *)
Sequential ==
  /\ \A i, j \in 1 .. Len(active) : i < j => active[i] < active[j]
  /\ \A i \in 1 .. Len(active) : \A d \in Conns : pos[d] > 0 => d <= active[i]

IInv ==
  /\ p \in Params
  /\ stage = "cut" => Lists
  /\ stage \in {"interleave", "written"} => Queue
  /\ stage = "interleave" /\ p.interleave = "round_robin" => RoundRobin
  /\ stage = "interleave" /\ p.interleave = "sequential" => Sequential

LEMMA ConnsType == IInv => p.connections \in Nat /\ Conns \subseteq Nat /\ IsFiniteSet(Conns)
<1>1. IInv => p.connections \in Nat
  BY ParamsAssumption DEF IInv
<1>2. QED BY <1>1, FS_Interval DEF Conns

(* The queue as the loop starts. *)
LEMMA StartsInOrder ==
  ASSUME IInv, CutAll
  PROVE  IInv'
<1>1. /\ stage = "cut" /\ stage' = "interleave" /\ Lists
      /\ UNCHANGED <<p, per_conn>> /\ pos' = [c \in Conns |-> 0]
  BY DEF CutAll, IInv
<1> DEFINE S == {c \in Conns : per_conn[c] # <<>>}
<1>2. Conns' = Conns
  BY <1>1 DEF Conns
<1>3. Cardinality(S) \in Nat
  <2>1. IsFiniteSet(S)
    BY ConnsType, FS_Subset
  <2>2. QED BY <2>1, FS_CardinalityType
<1>4. /\ active' \in [1 .. Cardinality(S) -> S]
      /\ \A i, j \in DOMAIN active' : i < j => active'[i] < active'[j]
      /\ \A c \in S : \E i \in DOMAIN active' : active'[i] = c
  BY DEF CutAll, Ascending
<1>5. active' \in Seq(S) /\ Len(active') = Cardinality(S) /\ DOMAIN active' = 1 .. Len(active')
  <2> HIDE DEF S
  <2>1. QED BY <1>3, <1>4
<1>6. active' \in Seq(Conns)
  BY <1>3, <1>4, <1>5
<1>7. \A c \in Conns : Len(per_conn[c]) \in Nat /\ (Len(per_conn[c]) > 0 <=> per_conn[c] # <<>>)
  <2>1. TAKE c \in Conns
  <2>2. PICK T : per_conn[c] \in Seq(T)
    BY <1>1, <2>1 DEF Lists
  <2>3. QED BY <2>2, LenProperties, EmptySeq
<1>8. Queue'
  <2>1. \A c \in Conns : Len(per_conn'[c]) \in Nat /\ pos'[c] <= Len(per_conn'[c])
    BY <1>1, <1>7
  <2>2. \A i, j \in 1 .. Len(active') : active'[i] = active'[j] => i = j
    <3>1. \A i \in 1 .. Len(active') : active'[i] \in Nat
      BY <1>4, <1>5, ConnsType
    <3>2. Len(active') \in Nat
      BY <1>3, <1>5
    <3>3. \A i, j \in 1 .. Len(active') : i < j => active'[i] < active'[j]
      BY <1>4, <1>5
    <3>4. QED BY <3>1, <3>2, <3>3
  <2>3. \A c \in Conns : pos'[c] < Len(per_conn'[c])
                           <=> \E i \in 1 .. Len(active') : active'[i] = c
    <3>1. \A c \in Conns : pos'[c] < Len(per_conn'[c]) <=> c \in S
      BY <1>1, <1>7
    <3>2. \A c \in Conns : c \in S <=> \E i \in 1 .. Len(active') : active'[i] = c
      BY <1>4, <1>5
    <3>3. QED BY <3>1, <3>2
  <2>4. pos' \in [Conns -> Nat]
    BY <1>1
  <2>5. QED BY <1>2, <1>6, <2>1, <2>2, <2>3, <2>4 DEF Queue
<1>9. RoundRobin' /\ Sequential'
  <2>1. \A i \in 1 .. Len(active') : active'[i] \in Conns /\ pos'[active'[i]] = 0
    BY <1>1, <1>4, <1>5
  <2>2. \A d \in Conns : pos'[d] = 0
    BY <1>1
  <2>3. QED BY <1>2, <1>4, <1>5, <2>1, <2>2 DEF RoundRobin, Sequential
<1>10. QED BY <1>1, <1>8, <1>9 DEF IInv

--------------------------------------------------------------------------------
(* One chunk served from the head of the queue, under round_robin or       *)
(* sequential: what is left of the queue.                                  *)
LEMMA HeadServed ==
  ASSUME IInv, stage = "interleave", p.interleave # "uniform", TakeTurn
  PROVE  LET c == active[1] IN
         /\ active # <<>> /\ c \in Conns /\ pos[c] < Len(per_conn[c])
         /\ pos' = [pos EXCEPT ![c] = @ + 1]
         /\ UNCHANGED <<p, stage, per_conn>>
         /\ pos[c] + 1 = Len(per_conn[c]) => active' = Tail(active)
         /\ pos[c] + 1 # Len(per_conn[c]) =>
              active' = IF p.interleave = "round_robin" THEN Append(Tail(active), c) ELSE active
<1> DEFINE c == active[1]
<1>1. Queue /\ active # <<>> /\ active \in Seq(Conns)
  BY DEF IInv, Queue, TakeTurn
<1>2. Len(active) \in Nat /\ 1 <= Len(active) /\ c \in Conns
  BY <1>1, EmptySeq, LenProperties
<1>3. pos[c] < Len(per_conn[c])
  <2>1. \E i \in 1 .. Len(active) : active[i] = c
    BY <1>2
  <2>2. QED BY <1>1, <1>2, <2>1 DEF Queue
<1>4. /\ pos' = [pos EXCEPT ![c] = @ + 1]
      /\ UNCHANGED <<p, stage, per_conn>>
      /\ active' = Left(1, Served(1))
  BY DEF TakeTurn, Turn
<1>5. /\ Tail(active) \in Seq(Conns) /\ Len(Tail(active)) = Len(active) - 1
      /\ \A i \in 1 .. Len(Tail(active)) : Tail(active)[i] = active[i + 1]
  BY <1>1, HeadTailProperties
<1>6. \A i \in 1 .. Len(Tail(active)) : Tail(active)[i] # c
  <2>1. TAKE i \in 1 .. Len(Tail(active))
  <2>2. i + 1 \in 1 .. Len(active) /\ i + 1 # 1 /\ 1 \in 1 .. Len(active)
    BY <1>2, <1>5
  <2>3. active[i + 1] # active[1]
    BY <1>1, <2>2 DEF Queue
  <2>4. QED BY <1>5, <2>3
<1>7. RemoveAt(active, 1) = Tail(active)
  BY <1>1, RemoveAtHead
<1>8. RemoveFirst(active, c) = Tail(active)
  <2>1. 1 \in 1 .. Len(active)
    BY <1>2
  <2>2. RemoveFirst(active, active[1]) = RemoveAt(active, 1)
    BY <1>1, <2>1, FirstPlace
  <2>3. QED BY <1>7, <2>2
<1>9. RemoveFirst(Append(Tail(active), c), c) = Tail(active)
  BY <1>2, <1>5, <1>6, RemoveLast
<1>10. /\ pos[c] + 1 = Len(per_conn[c]) => active' = Tail(active)
       /\ pos[c] + 1 # Len(per_conn[c]) =>
            active' = IF p.interleave = "round_robin" THEN Append(Tail(active), c) ELSE active
  BY <1>4, <1>7, <1>8, <1>9 DEF Left, Served
<1>11. QED BY <1>1, <1>2, <1>3, <1>4, <1>10

(* What that does to the places of the queue: those behind the head move   *)
(* up by one, and the head leaves, goes to the back or stays.              *)
LEMMA Places ==
  ASSUME IInv, stage = "interleave", p.interleave # "uniform", TakeTurn
  PROVE  LET c == active[1]
             n == Len(active)
         IN
         /\ n \in Nat /\ 1 <= n
         /\ active' \in Seq(Conns)
         /\ \/ /\ pos[c] + 1 = Len(per_conn[c])
               /\ Len(active') = n - 1
               /\ \A i \in 1 .. n - 1 : active'[i] = active[i + 1]
            \/ /\ pos[c] + 1 # Len(per_conn[c]) /\ p.interleave = "round_robin"
               /\ Len(active') = n
               /\ \A i \in 1 .. n - 1 : active'[i] = active[i + 1]
               /\ active'[n] = c
            \/ /\ pos[c] + 1 # Len(per_conn[c]) /\ p.interleave # "round_robin"
               /\ active' = active
<1> DEFINE c == active[1]
<1>1. /\ active # <<>> /\ c \in Conns
      /\ pos[c] + 1 = Len(per_conn[c]) => active' = Tail(active)
      /\ pos[c] + 1 # Len(per_conn[c]) =>
           active' = IF p.interleave = "round_robin" THEN Append(Tail(active), c) ELSE active
  BY HeadServed
<1>2. active \in Seq(Conns)
  BY DEF IInv, Queue
<1>3. Len(active) \in Nat /\ 1 <= Len(active)
  BY <1>1, <1>2, EmptySeq
<1>4. /\ Tail(active) \in Seq(Conns) /\ Len(Tail(active)) = Len(active) - 1
      /\ \A i \in 1 .. Len(active) - 1 : Tail(active)[i] = active[i + 1]
  BY <1>1, <1>2, HeadTailProperties
<1>5. LET t == Append(Tail(active), c) IN
      /\ t \in Seq(Conns) /\ Len(t) = Len(active)
      /\ \A i \in 1 .. Len(active) - 1 : t[i] = active[i + 1]
      /\ t[Len(active)] = c
  <2>1. LET t == Append(Tail(active), c) IN
        /\ t \in Seq(Conns) /\ Len(t) = Len(Tail(active)) + 1
        /\ \A i \in 1 .. Len(Tail(active)) : t[i] = Tail(active)[i]
        /\ t[Len(Tail(active)) + 1] = c
    BY <1>1, <1>4, AppendProperties
  <2>2. Len(Tail(active)) + 1 = Len(active)
    BY <1>3, <1>4
  <2>3. QED BY <1>4, <2>1, <2>2
<1>6. CASE pos[c] + 1 = Len(per_conn[c])
  BY <1>1, <1>3, <1>4, <1>6
<1>7. CASE pos[c] + 1 # Len(per_conn[c]) /\ p.interleave = "round_robin"
  BY <1>1, <1>3, <1>5, <1>7
<1>8. CASE pos[c] + 1 # Len(per_conn[c]) /\ p.interleave # "round_robin"
  BY <1>1, <1>2, <1>3, <1>8
<1>9. QED BY <1>6, <1>7, <1>8

LEMMA QueueKept ==
  ASSUME IInv, stage = "interleave", p.interleave # "uniform", TakeTurn
  PROVE  Queue'
<1> DEFINE c == active[1]
           n == Len(active)
           L(d) == Len(per_conn[d])
<1>1. /\ c \in Conns /\ pos[c] < L(c) /\ pos' = [pos EXCEPT ![c] = @ + 1]
      /\ UNCHANGED <<p, per_conn>>
  BY HeadServed
<1>2. /\ pos \in [Conns -> Nat]
      /\ \A d \in Conns : L(d) \in Nat /\ pos[d] <= L(d)
      /\ \A i, j \in 1 .. n : active[i] = active[j] => i = j
      /\ \A d \in Conns : pos[d] < L(d) <=> \E i \in 1 .. n : active[i] = d
  BY DEF IInv, Queue
<1>3. Conns' = Conns
  BY <1>1 DEF Conns
<1>4. n \in Nat /\ 1 <= n /\ active' \in Seq(Conns)
  BY Places
<1>5. /\ pos' \in [Conns -> Nat] /\ pos'[c] = pos[c] + 1
      /\ \A d \in Conns \ {c} : pos'[d] = pos[d]
      /\ \A d \in Conns : pos'[d] <= L(d)
  BY <1>1, <1>2
<1>6. \A d \in Conns \ {c} : pos'[d] < L(d) <=> \E i \in 1 .. n - 1 : active[i + 1] = d
  <2>1. TAKE d \in Conns \ {c}
  <2>2. pos'[d] < L(d) <=> \E i \in 1 .. n : active[i] = d
    BY <1>2, <1>5
  <2>3. ASSUME NEW i \in 1 .. n, active[i] = d PROVE i - 1 \in 1 .. n - 1 /\ active[(i - 1) + 1] = d
    <3>1. i # 1
      BY <2>3
    <3>2. QED BY <1>4, <2>3, <3>1
  <2>4. ASSUME NEW i \in 1 .. n - 1, active[i + 1] = d PROVE i + 1 \in 1 .. n
    BY <1>4
  <2>5. QED BY <2>2, <2>3, <2>4
<1>7. \A i, j \in 1 .. n - 1 : active[i + 1] = active[j + 1] => i = j
  <2>1. \A i \in 1 .. n - 1 : i + 1 \in 1 .. n /\ i \in Int
    BY <1>4
  <2>2. QED BY <1>2, <2>1
<1>8. \A i \in 1 .. n - 1 : active[i + 1] # c
  <2>1. \A i \in 1 .. n - 1 : i + 1 \in 1 .. n /\ i + 1 # 1 /\ 1 \in 1 .. n
    BY <1>4
  <2>2. QED BY <1>2, <2>1
<1> DEFINE Once(q) == \A i, j \in 1 .. Len(q) : q[i] = q[j] => i = j
           Holds(q) == \A d \in Conns : pos'[d] < L(d) <=> \E i \in 1 .. Len(q) : q[i] = d
<1>9. Once(active') /\ Holds(active')
  <2>1. CASE /\ pos[c] + 1 = L(c) /\ Len(active') = n - 1
             /\ \A i \in 1 .. n - 1 : active'[i] = active[i + 1]
    <3>1. Once(active')
      BY <1>7, <2>1
    <3>2. ~(pos'[c] < L(c))
      BY <1>2, <1>5, <2>1
    <3>3. \A d \in Conns : (\E i \in 1 .. n - 1 : active[i + 1] = d)
                             <=> \E i \in 1 .. Len(active') : active'[i] = d
      BY <2>1
    <3>4. Holds(active')
      <4>1. TAKE d \in Conns
      <4>2. CASE d = c
        BY <1>8, <3>2, <3>3, <4>2
      <4>3. CASE d # c
        BY <1>6, <3>3, <4>3
      <4>4. QED BY <4>2, <4>3
    <3>5. QED BY <3>1, <3>4
  <2>2. CASE /\ pos[c] + 1 # L(c) /\ Len(active') = n /\ active'[n] = c
             /\ \A i \in 1 .. n - 1 : active'[i] = active[i + 1]
    <3>1. \A i \in 1 .. n : i \in 1 .. n - 1 \/ i = n
      BY <1>4
    <3>2. Once(active')
      BY <1>7, <1>8, <2>2, <3>1
    <3>3. pos'[c] < L(c)
      BY <1>1, <1>2, <1>5, <2>2
    <3>4. \A i \in 1 .. n - 1 : i \in 1 .. n
      BY <1>4
    <3>5. n \in 1 .. n
      BY <1>4
    <3>6. \A d \in Conns \ {c} : (\E i \in 1 .. n - 1 : active[i + 1] = d)
                                   <=> \E i \in 1 .. n : active'[i] = d
      BY <2>2, <3>1, <3>4
    <3>7. Holds(active')
      BY <1>6, <2>2, <3>3, <3>5, <3>6
    <3>8. QED BY <3>2, <3>7
  <2>3. CASE pos[c] + 1 # L(c) /\ active' = active
    <3>1. pos'[c] < L(c) /\ 1 \in 1 .. n
      BY <1>1, <1>2, <1>4, <1>5, <2>3
    <3>2. \A d \in Conns : pos'[d] < L(d) <=> pos[d] < L(d)
      BY <1>1, <1>5, <3>1
    <3>3. QED BY <1>2, <2>3, <3>2
  <2>4. QED BY <2>1, <2>2, <2>3, Places
<1>10. /\ \A d \in Conns : Len(per_conn'[d]) = L(d)
  BY <1>1
<1>11. QED BY <1>2, <1>3, <1>4, <1>5, <1>9, <1>10 DEF Queue

(* Under uniform any connection of the queue is served, and leaves it once *)
(* it has no chunk left.                                                   *)
LEMMA UniformQueueKept ==
  ASSUME IInv, stage = "interleave", p.interleave = "uniform", TakeTurn
  PROVE  Queue'
<1> DEFINE n == Len(active)
           L(d) == Len(per_conn[d])
<1>1. PICK k \in 1 .. n :
        /\ pos' = [pos EXCEPT ![active[k]] = @ + 1]
        /\ active' = Left(k, Served(k))
  BY DEF TakeTurn, Turn
<1>2. UNCHANGED <<p, per_conn>> /\ Conns' = Conns /\ p.interleave # "round_robin"
  BY DEF TakeTurn, Conns
<1> DEFINE c == active[k]
<1>3. /\ active \in Seq(Conns) /\ pos \in [Conns -> Nat]
      /\ \A d \in Conns : L(d) \in Nat /\ pos[d] <= L(d)
      /\ \A i, j \in 1 .. n : active[i] = active[j] => i = j
      /\ \A d \in Conns : pos[d] < L(d) <=> \E i \in 1 .. n : active[i] = d
  BY DEF IInv, Queue
<1>4. n \in Nat /\ c \in Conns /\ k \in Nat
  BY <1>3
<1>5. pos[c] < L(c)
  BY <1>3, <1>4
<1>6. /\ pos' \in [Conns -> Nat] /\ pos'[c] = pos[c] + 1
      /\ \A d \in Conns \ {c} : pos'[d] = pos[d]
      /\ \A d \in Conns : pos'[d] <= L(d)
  BY <1>1, <1>3, <1>4, <1>5
<1>7. active' = IF pos[c] + 1 = L(c) THEN RemoveFirst(active, c) ELSE active
  BY <1>1, <1>2 DEF Left, Served
<1>8. CASE pos[c] + 1 # L(c)
  <2>1. active' = active /\ pos'[c] < L(c)
    BY <1>3, <1>4, <1>5, <1>6, <1>7, <1>8
  <2>2. \A d \in Conns : pos'[d] < L(d) <=> pos[d] < L(d)
    BY <1>5, <1>6, <2>1
  <2>3. \A d \in Conns : pos'[d] < L(d) <=> \E i \in 1 .. Len(active') : active'[i] = d
    BY <1>3, <2>1, <2>2
  <2> QED BY <1>2, <1>3, <1>6, <2>1, <2>3 DEF Queue
<1>9. CASE pos[c] + 1 = L(c)
  <2>1. RemoveFirst(active, active[k]) = RemoveAt(active, k)
    <3>1. \A i \in 1 .. Len(active) : active[i] = active[k] => k <= i
      BY <1>3, <1>4
    <3>2. k \in 1 .. Len(active)
      OBVIOUS
    <3> QED BY <1>3, <3>1, <3>2, FirstPlace
  <2>2. /\ active' \in Seq(Conns) /\ Len(active') = n - 1
        /\ \A i \in 1 .. n - 1 : active'[i] = active[IF i < k THEN i ELSE i + 1]
    <3>1. active' = SubSeq(active, 1, k - 1) \o SubSeq(active, k + 1, n)
      BY <1>7, <1>9, <2>1 DEF RemoveAt
    <3> DEFINE a == SubSeq(active, 1, k - 1)
               b == SubSeq(active, k + 1, n)
    <3>2. a \in Seq(Conns) /\ Len(a) = k - 1 /\ \A i \in 1 .. k - 1 : a[i] = active[i]
      BY <1>3, <1>4
    <3>3. b \in Seq(Conns) /\ Len(b) = n - k /\ \A i \in 1 .. n - k : b[i] = active[k + i]
      BY <1>3, <1>4
    <3> HIDE DEF a, b
    <3>4. /\ a \o b \in Seq(Conns) /\ Len(a \o b) = n - 1
      <4>1. a \o b \in Seq(Conns)
        BY <3>2, <3>3, ConcatProperties
      <4>2. Len(a \o b) = Len(a) + Len(b)
        BY <3>2, <3>3, ConcatProperties
      <4> QED BY <1>4, <3>2, <3>3, <4>1, <4>2
    <3>5. \A i \in 1 .. n - 1 : (a \o b)[i] = active[IF i < k THEN i ELSE i + 1]
      <4> SUFFICES ASSUME NEW i \in 1 .. n - 1
                   PROVE  (a \o b)[i] = active[IF i < k THEN i ELSE i + 1]
        OBVIOUS
      <4>1. CASE i < k
        <5>1. i \in 1 .. k - 1 /\ i \in 1 .. Len(a)
          BY <1>4, <3>2, <4>1
        <5>2. (a \o b)[i] = a[i]
          BY <3>2, <3>3, <5>1
        <5> QED BY <3>2, <4>1, <5>1, <5>2
      <4>2. CASE ~(i < k)
        <5>1. i - (k - 1) \in 1 .. n - k /\ k + (i - (k - 1)) = i + 1
          BY <1>4, <4>2
        <5>2. (a \o b)[i] = b[i - (k - 1)]
          BY <1>4, <3>2, <3>3, <4>2
        <5> QED BY <3>3, <4>2, <5>1, <5>2
      <4> QED BY <4>1, <4>2
    <3> QED BY <3>1, <3>4, <3>5 DEF a, b
  <2> DEFINE at(i) == IF i < k THEN i ELSE i + 1
  <2>3. \A i \in 1 .. n - 1 : at(i) \in 1 .. n /\ at(i) # k /\ i \in Nat
    BY <1>4
  <2>4. \A i \in 1 .. n : i # k => \E j \in 1 .. n - 1 : at(j) = i
    <3> SUFFICES ASSUME NEW i \in 1 .. n, i # k PROVE \E j \in 1 .. n - 1 : at(j) = i
      OBVIOUS
    <3>1. CASE i < k
      <4>1. i \in 1 .. n - 1 /\ at(i) = i
        BY <1>4, <3>1
      <4> QED BY <4>1
    <3>2. CASE ~(i < k)
      <4>1. i - 1 \in 1 .. n - 1 /\ at(i - 1) = i
        BY <1>4, <3>2
      <4> QED BY <4>1
    <3> QED BY <3>1, <3>2
  <2>5. \A i \in 1 .. n - 1 : active'[i] = active[at(i)]
    BY <2>2
  <2>6. \A i, j \in 1 .. n - 1 : active'[i] = active'[j] => i = j
    <3> SUFFICES ASSUME NEW i \in 1 .. n - 1, NEW j \in 1 .. n - 1, active'[i] = active'[j] PROVE i = j
      OBVIOUS
    <3>1. at(i) = at(j) => i = j
      BY <1>4
    <3>2. at(i) \in 1 .. n /\ at(j) \in 1 .. n /\ active[at(i)] = active[at(j)]
      BY <2>3, <2>5
    <3> HIDE DEF at
    <3> QED BY <1>3, <3>1, <3>2
  <2>7. ~(pos'[c] < L(c)) /\ \A i \in 1 .. n - 1 : active'[i] # c
    <3>1. ~(pos'[c] < L(c))
      BY <1>3, <1>4, <1>6, <1>9
    <3>2. ASSUME NEW i \in 1 .. n - 1, active'[i] = c PROVE FALSE
      <4>1. at(i) \in 1 .. n /\ at(i) # k /\ active[at(i)] = active[k]
        BY <2>3, <2>5, <3>2
      <4> HIDE DEF at
      <4> QED BY <1>3, <4>1
    <3> QED BY <3>1, <3>2
  <2>8. ASSUME NEW d \in Conns
        PROVE  pos'[d] < L(d) <=> \E i \in 1 .. n - 1 : active'[i] = d
    <3>1. CASE d = c
      BY <2>7, <3>1
    <3>2. CASE d # c
      <4>1. pos'[d] < L(d) <=> \E i \in 1 .. n : active[i] = d
        BY <1>3, <1>6, <3>2
      <4> HIDE DEF at
      <4> QED BY <2>3, <2>4, <2>5, <3>2, <4>1
    <3> QED BY <3>1, <3>2
  <2>9. \A d \in Conns : pos'[d] < L(d) <=> \E i \in 1 .. Len(active') : active'[i] = d
    BY <2>2, <2>8
  <2> QED BY <1>2, <1>3, <1>6, <2>2, <2>6, <2>9 DEF Queue
<1> QED BY <1>8, <1>9

LEMMA RoundRobinKept ==
  ASSUME IInv, stage = "interleave", p.interleave = "round_robin", TakeTurn
  PROVE  RoundRobin'
<1> DEFINE c == active[1]
           n == Len(active)
<1>1. /\ c \in Conns /\ pos' = [pos EXCEPT ![c] = @ + 1] /\ UNCHANGED p
  BY HeadServed
<1>2. /\ pos \in [Conns -> Nat] /\ active \in Seq(Conns)
      /\ \A i, j \in 1 .. n : active[i] = active[j] => i = j
      /\ \A i, j \in 1 .. n : i < j => pos[active[i]] <= pos[active[j]]
      /\ \A i \in 1 .. n : \A d \in Conns : pos[d] <= pos[active[i]] + 1
  BY DEF IInv, Queue, RoundRobin
<1>3. /\ n \in Nat /\ 1 <= n
      /\ \/ /\ Len(active') = n - 1
            /\ \A i \in 1 .. n - 1 : active'[i] = active[i + 1]
         \/ /\ Len(active') = n
            /\ \A i \in 1 .. n - 1 : active'[i] = active[i + 1]
            /\ active'[n] = c
  BY Places
<1>4. /\ pos' \in [Conns -> Nat] /\ pos'[c] = pos[c] + 1
      /\ \A d \in Conns \ {c} : pos'[d] = pos[d]
  BY <1>1, <1>2
<1>5. \A i \in 1 .. n - 1 :
        /\ i \in Nat /\ i + 1 \in 1 .. n /\ active'[i] \in Conns /\ active'[i] # c
        /\ pos'[active'[i]] = pos[active[i + 1]] /\ pos[c] <= pos[active[i + 1]]
  <2>1. TAKE i \in 1 .. n - 1
  <2>2. i \in Nat /\ i + 1 \in 1 .. n /\ 1 \in 1 .. n /\ i + 1 # 1 /\ 1 < i + 1
    BY <1>3
  <2>3. active[i + 1] \in Conns /\ active[i + 1] # c /\ pos[c] <= pos[active[i + 1]]
    BY <1>2, <2>2
  <2>4. QED BY <1>3, <1>4, <2>2, <2>3
<1>6. /\ \A i, j \in 1 .. n - 1 : i < j => pos'[active'[i]] <= pos'[active'[j]]
      /\ \A i \in 1 .. n - 1 : \A d \in Conns : pos'[d] <= pos'[active'[i]] + 1
  <2>1. ASSUME NEW i \in 1 .. n - 1, NEW j \in 1 .. n - 1, i < j
        PROVE  pos'[active'[i]] <= pos'[active'[j]]
    <3>1. i + 1 < j + 1
      BY <1>5, <2>1
    <3>2. pos[active[i + 1]] <= pos[active[j + 1]]
      BY <1>2, <1>5, <3>1
    <3>3. QED BY <1>5, <3>2
  <2>2. ASSUME NEW i \in 1 .. n - 1, NEW d \in Conns
        PROVE  pos'[d] <= pos'[active'[i]] + 1
    <3>1. pos[d] <= pos[active[i + 1]] + 1 /\ pos[active[i + 1]] \in Nat
      BY <1>2, <1>4, <1>5
    <3>2. CASE d = c
      BY <1>2, <1>4, <1>5, <3>1, <3>2
    <3>3. CASE d # c
      BY <1>4, <1>5, <3>1, <3>3
    <3>4. QED BY <3>2, <3>3
  <2>3. QED BY <2>1, <2>2
<1>7. /\ \A i \in 1 .. n - 1 : pos'[active'[i]] <= pos'[c]
      /\ \A d \in Conns : pos'[d] <= pos'[c] + 1
  <2>1. \A d \in Conns : pos[d] \in Nat /\ pos[d] <= pos[c] + 1
    <3>1. 1 \in 1 .. n
      BY <1>3
    <3>2. QED BY <1>2, <3>1
  <2>2. \A i \in 1 .. n - 1 : pos'[active'[i]] <= pos[c] + 1
    <3>1. TAKE i \in 1 .. n - 1
    <3>2. active'[i] \in Conns \ {c}
      BY <1>5
    <3>3. QED BY <1>4, <2>1, <3>2
  <2>3. \A d \in Conns : pos'[d] <= pos[c] + 1 + 1
    BY <1>1, <1>4, <2>1
  <2>4. QED BY <1>4, <2>2, <2>3
<1>8. Conns' = Conns
  BY <1>1 DEF Conns
<1>9. CASE Len(active') = n - 1
  BY <1>6, <1>8, <1>9 DEF RoundRobin
<1>10. CASE Len(active') = n /\ active'[n] = c
  <2>1. \A i \in 1 .. n : i \in Nat /\ (i \in 1 .. n - 1 \/ i = n)
    BY <1>3
  <2>2. \A i, j \in 1 .. n : i < j => i \in 1 .. n - 1
    BY <1>3
  <2>3. \A i, j \in 1 .. Len(active') : i < j => pos'[active'[i]] <= pos'[active'[j]]
    BY <1>6, <1>7, <1>10, <2>1, <2>2
  <2>4. \A i \in 1 .. Len(active') : \A d \in Conns : pos'[d] <= pos'[active'[i]] + 1
    BY <1>6, <1>7, <1>10, <2>1
  <2>5. QED BY <1>8, <2>3, <2>4 DEF RoundRobin
<1>11. QED BY <1>3, <1>9, <1>10

LEMMA SequentialKept ==
  ASSUME IInv, stage = "interleave", p.interleave = "sequential", TakeTurn
  PROVE  Sequential'
<1> DEFINE c == active[1]
           n == Len(active)
<1>1. /\ c \in Conns /\ pos' = [pos EXCEPT ![c] = @ + 1] /\ UNCHANGED p
  BY HeadServed
<1>2. /\ pos \in [Conns -> Nat] /\ active \in Seq(Conns)
      /\ \A i, j \in 1 .. n : i < j => active[i] < active[j]
      /\ \A i \in 1 .. n : \A d \in Conns : pos[d] > 0 => d <= active[i]
  BY DEF IInv, Queue, Sequential
<1>3. /\ n \in Nat /\ 1 <= n
      /\ \/ /\ Len(active') = n - 1
            /\ \A i \in 1 .. n - 1 : active'[i] = active[i + 1]
         \/ active' = active
  BY Places
<1>4. /\ pos' \in [Conns -> Nat]
      /\ \A d \in Conns \ {c} : pos'[d] = pos[d]
  BY <1>1, <1>2
<1>5. \A i \in 1 .. n : active[i] \in Conns /\ active[i] \in Nat /\ c <= active[i]
  <2>1. TAKE i \in 1 .. n
  <2>2. active[i] \in Conns /\ active[i] \in Nat /\ c \in Nat /\ 1 \in 1 .. n
    BY <1>1, <1>2, <1>3, ConnsType
  <2>3. CASE i = 1
    BY <2>2, <2>3
  <2>4. CASE i # 1
    <3>1. 1 < i
      BY <1>3, <2>4
    <3>2. QED BY <1>2, <2>2, <3>1
  <2>5. QED BY <2>2, <2>3, <2>4
<1>6. \A i \in 1 .. n : \A d \in Conns : pos'[d] > 0 => d <= active[i]
  <2>1. TAKE i \in 1 .. n
  <2>2. TAKE d \in Conns
  <2>3. CASE d = c
    BY <1>5, <2>3
  <2>4. CASE d # c
    BY <1>2, <1>4, <2>4
  <2>5. QED BY <2>3, <2>4
<1>7. Conns' = Conns
  BY <1>1 DEF Conns
<1>8. CASE active' = active
  BY <1>2, <1>6, <1>7, <1>8 DEF Sequential
<1>9. CASE /\ Len(active') = n - 1
           /\ \A i \in 1 .. n - 1 : active'[i] = active[i + 1]
  <2>1. \A i \in 1 .. n - 1 : i \in Nat /\ i + 1 \in 1 .. n
    BY <1>3
  <2>2. \A i, j \in 1 .. n - 1 : i < j => i + 1 < j + 1
    BY <2>1
  <2>3. \A i, j \in 1 .. Len(active') : i < j => active'[i] < active'[j]
    BY <1>2, <1>9, <2>1, <2>2
  <2>4. \A i \in 1 .. Len(active') : \A d \in Conns : pos'[d] > 0 => d <= active'[i]
    BY <1>6, <1>9, <2>1
  <2>5. QED BY <1>7, <2>3, <2>4 DEF Sequential
<1>10. QED BY <1>3, <1>8, <1>9

--------------------------------------------------------------------------------
LEMMA InitIInv == Init => IInv
BY DEF Init, IInv

(* One more chunk leaves every list a list. *)
LEMMA CutKept ==
  ASSUME IInv, Cut
  PROVE  IInv'
<1>1. stage = "cut" /\ stage' = "cut" /\ UNCHANGED p /\ Lists
  BY DEF Cut, IInv
<1>2. PICK n \in p.chunk_size[1] .. p.chunk_size[2] :
        per_conn' = [per_conn EXCEPT ![Cutting] =
                       Append(@, [from |-> CutTo(Cutting), to |-> ChunkEnd(Cutting, n)])]
  BY DEF Cut
<1> DEFINE e == [from |-> CutTo(Cutting), to |-> ChunkEnd(Cutting, n)]
<1>3. ASSUME NEW c \in Conns PROVE \E S : per_conn'[c] \in Seq(S)
  <2>1. PICK S : per_conn[c] \in Seq(S)
    BY <1>1, <1>3 DEF Lists
  <2>2. per_conn'[c] = per_conn[c] \/ per_conn'[c] = Append(per_conn[c], e)
    <3> HIDE DEF e
    <3>1. per_conn' = [per_conn EXCEPT ![Cutting] = Append(@, e)]
      BY <1>2 DEF e
    <3>2. QED BY <3>1
  <2>3. Append(per_conn[c], e) \in Seq(S \cup {e})
    <3> HIDE DEF e
    <3>1. per_conn[c] \in Seq(S \cup {e})
      BY <2>1
    <3>2. QED BY <3>1, AppendProperties
  <2>4. QED BY <2>1, <2>2, <2>3
<1>4. Lists'
  BY <1>1, <1>3 DEF Lists, Conns
<1>5. QED BY <1>1, <1>4 DEF IInv

LEMMA FilledKept ==
  ASSUME IInv, Filled
  PROVE  IInv'
<1>1. stage' = "cut" /\ UNCHANGED p /\ per_conn' = [c \in Conns |-> <<>>]
  BY DEF Filled
<1>2. Conns' = Conns
  BY <1>1 DEF Conns
<1>3. \A c \in Conns' : per_conn'[c] \in Seq({})
  BY <1>1, <1>2
<1>4. Lists'
  BY <1>3 DEF Lists
<1>5. QED BY <1>1, <1>4 DEF IInv

LEMMA TakeTurnKept ==
  ASSUME IInv, TakeTurn
  PROVE  IInv'
<1>1. stage = "interleave" /\ stage' = "interleave" /\ UNCHANGED p
  BY DEF TakeTurn
<1>2. Queue'
  BY <1>1, QueueKept, UniformQueueKept
<1>3. QED BY <1>1, <1>2, RoundRobinKept, SequentialKept DEF IInv

LEMMA StepKeeps == IInv /\ [Next]_vars => IInv'
<1> SUFFICES ASSUME IInv, [Next]_vars PROVE IInv'
  OBVIOUS
<1>1. CASE Cut
  BY <1>1, CutKept
<1>2. CASE Filled
  BY <1>2, FilledKept
<1>3. CASE CutAll
  BY <1>3, StartsInOrder
<1>4. CASE TakeTurn
  BY <1>4, TakeTurnKept
<1>5. CASE \/ Validate \/ Connect \/ DealEqually \/ DealUniformly \/ FillSession \/ FillFrame
            \/ Spin
  <2>1. stage' \in {"connect", "refused", "deal", "fill", "spins"} /\ UNCHANGED p
    BY <1>5 DEF Validate, Connect, DealEqually, DealUniformly, FillSession, FillFrame, Spin
  <2>2. QED BY <2>1 DEF IInv
<1>6. CASE Write \/ Ended \/ UNCHANGED vars
  BY <1>6 DEF Write, Ended, vars, IInv, Lists, Queue, RoundRobin, Sequential, Conns
<1>7. QED BY <1>1, <1>2, <1>3, <1>4, <1>5, <1>6 DEF Next

(* Under round_robin a connection with chunks left is at most one turn     *)
(* behind any other; under sequential a connection is finished before a    *)
(* later one starts: for any number of connections and chunks.             *)
LEMMA QueueKeepsTurns == IInv => TurnsKept
<1> SUFFICES ASSUME IInv, stage = "interleave" PROVE TurnsKept
  BY DEF TurnsKept
<1>1. ASSUME p.interleave = "round_robin", NEW c \in Conns, NEW d \in Conns,
             pos[c] < Len(per_conn[c])
      PROVE  pos[d] <= pos[c] + 1
  BY <1>1 DEF IInv, Queue, RoundRobin
<1>2. ASSUME p.interleave = "sequential", NEW c \in Conns, NEW d \in Conns, c < d, pos[d] > 0
      PROVE  pos[c] = Len(per_conn[c])
  <2>1. ~ \E i \in 1 .. Len(active) : active[i] = c
    <3>1. c \in Nat /\ d \in Nat /\ ~ (d <= c)
      BY <1>2, ConnsType
    <3>2. QED BY <1>2, <3>1 DEF IInv, Sequential
  <2>2. pos[c] <= Len(per_conn[c]) /\ ~ (pos[c] < Len(per_conn[c]))
        /\ pos[c] \in Nat /\ Len(per_conn[c]) \in Nat
    BY <1>2, <2>1 DEF IInv, Queue
  <2>3. QED BY <2>2
<1>3. QED BY <1>1, <1>2 DEF TurnsKept

THEOREM TurnsAlwaysKept == Spec => []TurnsKept
<1>1. Spec => []IInv
  BY InitIInv, StepKeeps, PTL DEF Spec
<1>2. QED BY <1>1, QueueKeepsTurns, PTL

--------------------------------------------------------------------------------
(* Folds. *)

(* Every set of naturals that is not empty has a least element.            *)
LEMMA NatMin ==
  ASSUME NEW T \in SUBSET Nat, T # {}
  PROVE  \E x \in T : \A y \in T : x <= y
<1> DEFINE R == {ss \in Nat \X Nat : ss[1] < ss[2]}
<1>1. R = OpToRel(<, Nat)
  BY DEF OpToRel
<1>2. IsWellFoundedOn(R, Nat)
  BY <1>1, NatLessThanWellFounded, Zenon
<1>3. PICK x \in T : \A y \in T : <<y, x>> \notin R
  BY <1>2, WFMin
<1>4. \A y \in T : x <= y
  <2> SUFFICES ASSUME NEW y \in T PROVE x <= y
    OBVIOUS
  <2>1. <<y, x>> \notin R
    BY <1>3
  <2> QED BY <2>1
<1> QED BY <1>4

LEMMA Induct ==
  ASSUME NEW T \in SUBSET Nat, 0 \in T, \A i \in T : i + 1 \in T
  PROVE  T = Nat
<1> SUFFICES ASSUME Nat \ T # {} PROVE FALSE
  OBVIOUS
<1>1. PICK x \in Nat \ T : \A y \in Nat \ T : x <= y
  <2>1. Nat \ T \in SUBSET Nat
    OBVIOUS
  <2> QED BY <2>1, NatMin
<1>2. x # 0 /\ x - 1 \in Nat /\ x = (x - 1) + 1
  BY <1>1
<1>3. x - 1 \in T
  BY <1>1, <1>2
<1> QED BY <1>1, <1>2, <1>3

LEMMA MaxIn ==
  ASSUME NEW n \in Nat, NEW t \in SUBSET (1 .. n), t # {}
  PROVE  /\ Max(t) \in t /\ \A y \in t : y <= Max(t)
         /\ Max(t) \in 1 .. n /\ t \ {Max(t)} \in SUBSET (1 .. Max(t) - 1)
<1> DEFINE U == {u \in Nat : \A y \in t : y <= u}
<1>1. n \in U
  OBVIOUS
<1>2. PICK m \in U : \A u \in U : m <= u
  <2>1. U \in SUBSET Nat /\ U # {}
    BY <1>1
  <2> HIDE DEF U
  <2> QED BY <2>1, NatMin
<1>3. m \in t
  <2> SUFFICES ASSUME m \notin t PROVE FALSE
    OBVIOUS
  <2>1. m \in Nat /\ \A y \in t : y \in Nat /\ y <= m /\ y # m /\ 1 <= y
    BY <1>2
  <2>2. PICK y \in t : TRUE
    OBVIOUS
  <2>3. m - 1 \in Nat /\ ~(m <= m - 1)
    BY <2>1, <2>2
  <2>4. \A z \in t : z <= m - 1
    BY <2>1
  <2>5. m - 1 \in U
    BY <2>3, <2>4
  <2> HIDE DEF U
  <2> QED BY <1>2, <2>3, <2>5
<1>4. \A y \in t : m >= y
  BY <1>2
<1>5. Max(t) \in t /\ \A y \in t : Max(t) >= y
  <2>1. \E x \in t : \A y \in t : x >= y
    BY <1>3, <1>4
  <2> QED BY <2>1 DEF Max
<1>6. \A y \in t : y \in Nat /\ 1 <= y /\ y <= n
  OBVIOUS
<1> HIDE DEF U
<1>7. Max(t) \in Nat /\ 1 <= Max(t) /\ Max(t) <= n
  BY <1>5, <1>6
<1>8. \A y \in t \ {Max(t)} : y \in 1 .. Max(t) - 1
  BY <1>5, <1>6, <1>7
<1> QED BY <1>5, <1>6, <1>7, <1>8

LEMMA MaxInterval ==
  ASSUME NEW n \in Nat, NEW i \in 0 .. n - 1
  PROVE  /\ 1 .. i + 1 \in SUBSET (1 .. n) /\ 1 .. i + 1 # {}
         /\ Max(1 .. i + 1) = i + 1 /\ (1 .. i + 1) \ {Max(1 .. i + 1)} = 1 .. i
<1>1. 1 .. i + 1 \in SUBSET (1 .. n) /\ i + 1 \in 1 .. i + 1 /\ \A y \in 1 .. i + 1 : y <= i + 1
  OBVIOUS
<1>2. Max(1 .. i + 1) \in 1 .. i + 1 /\ i + 1 <= Max(1 .. i + 1)
  BY <1>1, MaxIn
<1>3. Max(1 .. i + 1) = i + 1
  BY <1>2
<1> QED BY <1>1, <1>3

(* g combines the elements of every subset of 1 .. k, the greatest last:   *)
(* b for none, and E of what it has for the others and of the greatest.    *)
IsFold(g, k, V, b, E) ==
  /\ g \in [SUBSET (1 .. k) -> V]
  /\ \A t \in SUBSET (1 .. k) : g[t] = IF t = {} THEN b ELSE E[<<g[t \ {Max(t)}], Max(t)>>]

LEMMA FoldExists ==
  ASSUME NEW n \in Nat, NEW V, NEW b \in V, NEW E \in [V \X (1 .. n) -> V]
  PROVE  \E g : IsFold(g, n, V, b, E)
<1> USE DEF IsFold
<1> DEFINE Folds(g, k) == IsFold(g, k, V, b, E)
           T == {k \in Nat : k <= n => \E g : Folds(g, k)}
<1>1. 0 \in T
  <2> DEFINE g == [t \in SUBSET (1 .. 0) |-> b]
  <2>1. \A t \in SUBSET (1 .. 0) : t = {}
    OBVIOUS
  <2>2. g \in [SUBSET (1 .. 0) -> V]
    OBVIOUS
  <2>3. \A t \in SUBSET (1 .. 0) : g[t] = b
    OBVIOUS
  <2> HIDE DEF g
  <2>4. Folds(g, 0)
    BY <2>1, <2>2, <2>3
  <2> HIDE DEF Folds
  <2> QED BY <2>4
<1>2. ASSUME NEW k \in T PROVE k + 1 \in T
  <2>1. k \in Nat /\ k + 1 \in Nat
    OBVIOUS
  <2> SUFFICES ASSUME k + 1 <= n PROVE \E g : Folds(g, k + 1)
    BY <2>1
  <2>2. PICK g : Folds(g, k)
    <3>1. k <= n
      BY <2>1
    <3> HIDE DEF Folds
    <3> QED BY <3>1
  <2> DEFINE f == [t \in SUBSET (1 .. k + 1) |->
                     IF t = {} THEN b ELSE E[<<g[t \ {Max(t)}], Max(t)>>]]
  <2>3. ASSUME NEW t \in SUBSET (1 .. k + 1), t # {}
        PROVE  t \ {Max(t)} \in SUBSET (1 .. k) /\ Max(t) \in 1 .. n
    <3>1. Max(t) \in 1 .. k + 1 /\ t \ {Max(t)} \in SUBSET (1 .. Max(t) - 1)
      BY <2>1, <2>3, MaxIn
    <3>2. 1 .. Max(t) - 1 \subseteq 1 .. k
      BY <2>1, <3>1
    <3>3. Max(t) \in 1 .. n
      BY <2>1, <3>1
    <3> QED BY <3>1, <3>2, <3>3
  <2>4. ASSUME NEW t \in SUBSET (1 .. k + 1) PROVE f[t] \in V
    <3>1. CASE t = {}
      BY <3>1
    <3>2. CASE t # {}
      <4>1. g[t \ {Max(t)}] \in V
        BY <2>2, <2>3, <3>2
      <4> QED BY <2>3, <3>2, <4>1
    <3> QED BY <3>1, <3>2
  <2>5. \A t \in SUBSET (1 .. k) : f[t] = g[t]
    <3>1. \A t \in SUBSET (1 .. k) : t \in SUBSET (1 .. k + 1)
      BY <2>1
    <3> QED BY <2>2, <3>1
  <2>6. ASSUME NEW t \in SUBSET (1 .. k + 1)
        PROVE  f[t] = IF t = {} THEN b ELSE E[<<f[t \ {Max(t)}], Max(t)>>]
    <3>1. CASE t = {}
      BY <3>1
    <3>2. CASE t # {}
      <4>1. f[t \ {Max(t)}] = g[t \ {Max(t)}]
        BY <2>3, <2>5, <3>2
      <4> QED BY <3>2, <4>1
    <3> QED BY <3>1, <3>2
  <2>7. f \in [SUBSET (1 .. k + 1) -> V]
    BY <2>4
  <2> HIDE DEF f
  <2>8. Folds(f, k + 1)
    BY <2>6, <2>7
  <2> HIDE DEF Folds
  <2> QED BY <2>8
<1>3. T = Nat
  <2>1. T \in SUBSET Nat
    OBVIOUS
  <2> HIDE DEF T
  <2> QED BY <1>1, <1>2, <2>1, Induct
<1>4. \E g : Folds(g, n)
  <2> HIDE DEF Folds
  <2>1. \A k \in T : k <= n => \E g : Folds(g, k)
    OBVIOUS
  <2> HIDE DEF T
  <2>2. n \in T /\ n <= n
    BY <1>3
  <2> QED BY <2>1, <2>2
<1> QED BY <1>4

--------------------------------------------------------------------------------
(* Sums of sequences. *)

Sums(g, s) ==
  g = [t \in SUBSET DOMAIN s |-> IF t = {} THEN 0 ELSE g[t \ {Max(t)}] + s[Max(t)]]

LEMMA SumIs == ASSUME NEW s PROVE Sum(s) = (CHOOSE g : Sums(g, s))[DOMAIN s]
BY DEF Sum, FoldLeft, MapThenFoldSet, Sums

(* The sums of the first i numbers of s. *)
PrefixSums(h, s) ==
  /\ h \in [0 .. Len(s) -> Nat] /\ h[0] = 0
  /\ \A i \in 0 .. Len(s) - 1 : h[i + 1] = h[i] + s[i + 1]

LEMMA SumPrefixes ==
  ASSUME NEW s \in Seq(Nat)
  PROVE  \E h : PrefixSums(h, s) /\ Sum(s) = h[Len(s)]
<1> DEFINE n == Len(s)
           E == [x \in Nat \X (1 .. n) |-> x[1] + s[x[2]]]
<1>1. n \in Nat /\ DOMAIN s = 1 .. n /\ \A i \in 1 .. n : s[i] \in Nat
  OBVIOUS
<1>2. E \in [Nat \X (1 .. n) -> Nat] /\ \A v \in Nat, i \in 1 .. n : E[<<v, i>>] = v + s[i]
  BY <1>1
<1> HIDE DEF E, n
<1>3. PICK f : IsFold(f, n, Nat, 0, E)
  <2>1. n \in Nat /\ E \in [Nat \X (1 .. n) -> Nat]
    BY <1>1, <1>2
  <2> QED BY <2>1, FoldExists
<1>4. Sums(f, s)
  <2>1. ASSUME NEW t \in SUBSET (1 .. n)
        PROVE  f[t] = IF t = {} THEN 0 ELSE f[t \ {Max(t)}] + s[Max(t)]
    <3>1. CASE t = {}
      BY <1>3, <3>1 DEF IsFold
    <3>2. CASE t # {}
      <4>1. Max(t) \in 1 .. n /\ t \ {Max(t)} \in SUBSET (1 .. n)
        BY <1>1, <3>2, MaxIn
      <4> QED BY <1>2, <1>3, <3>2, <4>1 DEF IsFold
    <3> QED BY <3>1, <3>2
  <2> QED BY <1>1, <1>3, <2>1 DEF Sums, IsFold
<1>5. PICK g : Sums(g, s) /\ Sum(s) = g[1 .. n]
  BY <1>1, <1>4, SumIs
<1>6. g[{}] = 0 /\ \A i \in 0 .. n - 1 : g[1 .. i + 1] = g[1 .. i] + s[i + 1]
  <2>1. g[{}] = 0
    BY <1>5 DEF Sums
  <2>2. ASSUME NEW i \in 0 .. n - 1 PROVE g[1 .. i + 1] = g[1 .. i] + s[i + 1]
    <3>1. /\ 1 .. i + 1 \in SUBSET (1 .. n) /\ 1 .. i + 1 # {}
          /\ Max(1 .. i + 1) = i + 1 /\ (1 .. i + 1) \ {Max(1 .. i + 1)} = 1 .. i
      BY <1>1, MaxInterval
    <3>2. \A t \in SUBSET (1 .. n) : g[t] = IF t = {} THEN 0 ELSE g[t \ {Max(t)}] + s[Max(t)]
      BY <1>1, <1>5 DEF Sums
    <3>3. g[1 .. i + 1] = g[(1 .. i + 1) \ {Max(1 .. i + 1)}] + s[Max(1 .. i + 1)]
      BY <3>1, <3>2
    <3> QED BY <3>1, <3>3
  <2> QED BY <2>1, <2>2
<1> DEFINE h == [i \in 0 .. n |-> g[1 .. i]]
           T == {i \in Nat : i <= n => h[i] \in Nat}
<1>7. h[0] = 0 /\ \A i \in 0 .. n - 1 : h[i + 1] = h[i] + s[i + 1]
  <2>1. 1 .. 0 = {} /\ 0 \in 0 .. n /\ \A i \in 0 .. n - 1 : i + 1 \in 0 .. n /\ i \in 0 .. n
    BY <1>1
  <2> QED BY <1>6, <2>1
<1>8. h = [i \in 0 .. n |-> h[i]] /\ h[n] = g[1 .. n]
  BY <1>1
<1> HIDE DEF h
<1>9. T = Nat
  <2>1. T \in SUBSET Nat /\ 0 \in T
    BY <1>7
  <2>2. ASSUME NEW i \in T PROVE i + 1 \in T
    <3> SUFFICES ASSUME i + 1 <= n PROVE h[i + 1] \in Nat
      OBVIOUS
    <3>1. i \in 0 .. n - 1 /\ h[i] \in Nat /\ i + 1 \in 1 .. n
      BY <1>1
    <3> QED BY <1>1, <1>7, <3>1
  <2> HIDE DEF T
  <2> QED BY <2>1, <2>2, Induct
<1>10. h \in [0 .. n -> Nat]
  <2>1. \A i \in 0 .. n : h[i] \in Nat
    BY <1>9
  <2> QED BY <1>8, <2>1
<1> QED BY <1>5, <1>7, <1>8, <1>10 DEF n, PrefixSums

LEMMA PrefixesAgree ==
  ASSUME NEW s \in Seq(Nat), NEW t \in Seq(Nat), NEW h, NEW k, PrefixSums(h, s), PrefixSums(k, t),
         NEW m \in Nat, m <= Len(s), m <= Len(t), \A i \in 1 .. m : s[i] = t[i]
  PROVE  h[m] = k[m]
<1> DEFINE T == {i \in Nat : i <= m => h[i] = k[i]}
<1>1. T \in SUBSET Nat /\ 0 \in T
  BY DEF PrefixSums
<1>2. ASSUME NEW i \in T PROVE i + 1 \in T
  <2> SUFFICES ASSUME i + 1 <= m PROVE h[i + 1] = k[i + 1]
    OBVIOUS
  <2>1. /\ h[i] = k[i] /\ i + 1 \in 1 .. m
        /\ i \in 0 .. Len(s) - 1 /\ i \in 0 .. Len(t) - 1
    OBVIOUS
  <2> QED BY <2>1 DEF PrefixSums
<1>3. T = Nat
  <2> HIDE DEF T
  <2> QED BY <1>1, <1>2, Induct
<1> QED BY <1>3

(* The sum of the first i numbers of s. *)
Before(s, i) == Sum(SubSeq(s, 1, i))

LEMMA SumSteps ==
  ASSUME NEW s \in Seq(Nat)
  PROVE  /\ Sum(s) \in Nat /\ Before(s, 0) = 0 /\ Before(s, Len(s)) = Sum(s)
         /\ \A i \in 0 .. Len(s) : Before(s, i) \in Nat
         /\ \A i \in 0 .. Len(s) - 1 : Before(s, i + 1) = Before(s, i) + s[i + 1]
<1>1. PICK h : PrefixSums(h, s) /\ Sum(s) = h[Len(s)]
  BY SumPrefixes
<1>2. Len(s) \in Nat
  OBVIOUS
<1>3. ASSUME NEW i \in 0 .. Len(s) PROVE Before(s, i) = h[i]
  <2>1. /\ SubSeq(s, 1, i) \in Seq(Nat) /\ Len(SubSeq(s, 1, i)) = i
        /\ \A j \in 1 .. i : SubSeq(s, 1, i)[j] = s[j]
    BY <1>2
  <2>2. PICK k : PrefixSums(k, SubSeq(s, 1, i)) /\ Before(s, i) = k[i]
    BY <2>1, SumPrefixes DEF Before
  <2> DEFINE t == SubSeq(s, 1, i)
  <2>3. i \in Nat /\ i <= Len(s) /\ i <= Len(t)
    BY <1>2, <2>1
  <2>4. t \in Seq(Nat) /\ \A j \in 1 .. i : s[j] = t[j]
    BY <2>1
  <2>5. PrefixSums(k, t)
    BY <2>2
  <2> HIDE DEF t
  <2>6. h[i] = k[i]
    BY <1>1, <2>3, <2>4, <2>5, PrefixesAgree
  <2> QED BY <2>2, <2>6
<1>4. /\ \A i \in 0 .. Len(s) : h[i] \in Nat
      /\ h[0] = 0 /\ \A i \in 0 .. Len(s) - 1 : h[i + 1] = h[i] + s[i + 1]
  BY <1>1 DEF PrefixSums
<1>5. /\ 0 \in 0 .. Len(s) /\ Len(s) \in 0 .. Len(s)
      /\ \A i \in 0 .. Len(s) - 1 : i \in 0 .. Len(s) /\ i + 1 \in 0 .. Len(s)
  BY <1>2
<1> QED BY <1>1, <1>3, <1>4, <1>5

(* Longer prefixes have no smaller sums. *)
LEMMA SumGrows ==
  ASSUME NEW s \in Seq(Nat), NEW i \in 0 .. Len(s), NEW j \in i .. Len(s)
  PROVE  Before(s, i) <= Before(s, j) /\ Before(s, i) \in Nat /\ Before(s, j) \in Nat
<1> DEFINE T == {d \in Nat : i + d <= Len(s) => Before(s, i) <= Before(s, i + d)}
<1>1. Len(s) \in Nat /\ i \in Nat /\ j \in Nat /\ j \in 0 .. Len(s) /\ i <= j /\ j <= Len(s)
  OBVIOUS
<1>2. /\ \A k \in 0 .. Len(s) : Before(s, k) \in Nat
      /\ \A k \in 0 .. Len(s) - 1 : Before(s, k + 1) = Before(s, k) + s[k + 1]
  BY SumSteps
<1>3. T \in SUBSET Nat /\ 0 \in T
  BY <1>1, <1>2
<1>4. ASSUME NEW d \in T PROVE d + 1 \in T
  <2> SUFFICES ASSUME i + (d + 1) <= Len(s) PROVE Before(s, i) <= Before(s, i + (d + 1))
    OBVIOUS
  <2> DEFINE k == i + d
  <2>1. k \in 0 .. Len(s) - 1 /\ k + 1 = i + (d + 1) /\ k + 1 \in 1 .. Len(s) /\ k \in 0 .. Len(s)
    BY <1>1
  <2>2. Before(s, i) <= Before(s, k)
    BY <1>1
  <2> HIDE DEF k, T
  <2>3. s[k + 1] \in Nat
    BY <2>1
  <2>4. Before(s, k) \in Nat /\ Before(s, i) \in Nat /\ Before(s, k + 1) = Before(s, k) + s[k + 1]
    BY <1>1, <1>2, <2>1
  <2> DEFINE a == Before(s, k)
             b == Before(s, i)
             x == s[k + 1]
  <2>5. a \in Nat /\ b \in Nat /\ x \in Nat /\ b <= a /\ Before(s, i + (d + 1)) = a + x
    BY <2>1, <2>2, <2>3, <2>4
  <2> HIDE DEF a, x
  <2>6. b <= a + x
    BY <2>5
  <2> QED BY <2>5, <2>6
<1>5. T = Nat
  <2> HIDE DEF T
  <2> QED BY <1>3, <1>4, Induct
<1>6. j - i \in T /\ i + (j - i) = j
  <2>1. j - i \in Nat /\ i + (j - i) = j
    BY <1>1
  <2> HIDE DEF T
  <2> QED BY <1>5, <2>1
<1> QED BY <1>1, <1>2, <1>6

LEMMA SumAppend ==
  ASSUME NEW s \in Seq(Nat), NEW x \in Nat
  PROVE  Sum(Append(s, x)) = Sum(s) + x /\ Sum(s) \in Nat
<1> DEFINE t == Append(s, x)
           n == Len(s)
<1>1. /\ t \in Seq(Nat) /\ Len(t) = n + 1 /\ t[n + 1] = x /\ n \in Nat
      /\ SubSeq(t, 1, n) = s
  OBVIOUS
<1> HIDE DEF t
<1>2. Sum(t) = Before(t, n + 1) /\ Before(t, n + 1) = Before(t, n) + t[n + 1]
  <2>1. n \in 0 .. Len(t) - 1 /\ Len(t) = n + 1
    BY <1>1
  <2> HIDE DEF n
  <2> QED BY <1>1, <2>1, SumSteps
<1>3. Before(t, n) = Sum(s)
  BY <1>1 DEF Before
<1>4. Sum(s) \in Nat
  BY SumSteps
<1> QED BY <1>1, <1>2, <1>3, <1>4 DEF t

(* One more at one place is one more in all. *)
LEMMA SumIncrement ==
  ASSUME NEW s \in Seq(Nat), NEW c \in 1 .. Len(s)
  PROVE  Sum([s EXCEPT ![c] = @ + 1]) = Sum(s) + 1
<1> DEFINE t == [s EXCEPT ![c] = @ + 1]
<1>1. /\ t \in Seq(Nat) /\ Len(t) = Len(s) /\ Len(s) \in Nat /\ c \in Nat
      /\ \A i \in 1 .. Len(s) : t[i] = IF i = c THEN s[i] + 1 ELSE s[i]
  OBVIOUS
<1> HIDE DEF t
<1> DEFINE T == {i \in Nat : i <= Len(s) => Before(t, i) = Before(s, i) + (IF c <= i THEN 1 ELSE 0)}
<1>2. T \in SUBSET Nat /\ 0 \in T
  BY <1>1, SumSteps
<1>3. ASSUME NEW i \in T PROVE i + 1 \in T
  <2> SUFFICES ASSUME i + 1 <= Len(s)
               PROVE  Before(t, i + 1) = Before(s, i + 1) + (IF c <= i + 1 THEN 1 ELSE 0)
    OBVIOUS
  <2>1. /\ i \in 0 .. Len(s) - 1 /\ i \in 0 .. Len(s) /\ i + 1 \in 1 .. Len(s) /\ i \in Nat
        /\ Before(t, i) = Before(s, i) + (IF c <= i THEN 1 ELSE 0)
    BY <1>1
  <2> HIDE DEF T
  <2>2. /\ Before(t, i + 1) = Before(t, i) + t[i + 1]
        /\ Before(s, i + 1) = Before(s, i) + s[i + 1] /\ Before(s, i) \in Nat
    BY <1>1, <2>1, SumSteps
  <2>3. t[i + 1] = (IF i + 1 = c THEN s[i + 1] + 1 ELSE s[i + 1]) /\ s[i + 1] \in Nat
    BY <1>1, <2>1
  <2> DEFINE a == Before(s, i)
             x == s[i + 1]
  <2>4. a \in Nat /\ x \in Nat
    BY <2>2, <2>3
  <2>5. Before(t, i + 1) = (a + (IF c <= i THEN 1 ELSE 0)) + (IF i + 1 = c THEN x + 1 ELSE x)
        /\ Before(s, i + 1) = a + x
    BY <2>1, <2>2, <2>3
  <2> HIDE DEF a, x
  <2>6. (a + (IF c <= i THEN 1 ELSE 0)) + (IF i + 1 = c THEN x + 1 ELSE x)
          = (a + x) + (IF c <= i + 1 THEN 1 ELSE 0)
    BY <1>1, <2>1, <2>4
  <2> QED BY <2>5, <2>6
<1>4. T = Nat
  <2> HIDE DEF T
  <2> QED BY <1>2, <1>3, Induct
<1>5. Before(t, Len(s)) = Before(s, Len(s)) + 1
  <2>1. Len(s) \in T /\ c <= Len(s)
    BY <1>1, <1>4
  <2> QED BY <2>1
<1> QED BY <1>1, <1>5, SumSteps DEF t

--------------------------------------------------------------------------------
(* The one draw that decides a frame's fault: the faults lie end to end on *)
(* it, each as wide as its rate.                                           *)

LEMMA SumBounds ==
  ASSUME NEW s \in Seq(Nat), NEW t \in Seq(Nat), Len(s) = Len(t), \A i \in 1 .. Len(s) : s[i] <= t[i]
  PROVE  Sum(s) <= Sum(t)
<1> DEFINE T == {i \in Nat : i <= Len(s) => Before(s, i) <= Before(t, i)}
<1>1. T \in SUBSET Nat /\ 0 \in T
  BY SumSteps
<1>2. ASSUME NEW i \in T PROVE i + 1 \in T
  <2> SUFFICES ASSUME i + 1 <= Len(s) PROVE Before(s, i + 1) <= Before(t, i + 1)
    OBVIOUS
  <2>1. i \in 0 .. Len(s) - 1 /\ i \in 0 .. Len(s) /\ i + 1 \in 1 .. Len(s)
        /\ Before(s, i) <= Before(t, i)
    OBVIOUS
  <2> HIDE DEF T
  <2> DEFINE a == Before(s, i)
             b == Before(t, i)
             x == s[i + 1]
             y == t[i + 1]
  <2>2. a \in Nat /\ b \in Nat /\ Before(s, i + 1) = a + x /\ Before(t, i + 1) = b + y
    BY <2>1, SumSteps
  <2>3. x \in Nat /\ y \in Nat /\ x <= y /\ a <= b
    BY <2>1
  <2> HIDE DEF a, b, x, y
  <2>4. a + x <= b + y
    BY <2>2, <2>3
  <2> QED BY <2>2, <2>4
<1>3. T = Nat
  <2> HIDE DEF T
  <2> QED BY <1>1, <1>2, Induct
<1>4. Len(s) \in T
  BY <1>3
<1>5. Before(s, Len(s)) <= Before(t, Len(t))
  BY <1>4
<1> QED BY <1>5, SumSteps

--------------------------------------------------------------------------------
(* The faults that one draw selects. *)

(* What each name takes off the draw, and what is left before each.        *)
Taken(eligible) ==
  [i \in 1 .. Len(FAULTS) |-> IF FAULTS[i] \in eligible THEN p.faults_ppm[FAULTS[i]] ELSE 0]
IsLeft(L, u, eligible) ==
  L = [i \in 1 .. Len(FAULTS) |->
         IF i = 1 THEN u
         ELSE L[i - 1] - (IF FAULTS[i - 1] \in eligible THEN p.faults_ppm[FAULTS[i - 1]] ELSE 0)]
Hits(L, eligible) ==
  {i \in DOMAIN FAULTS : FAULTS[i] \in eligible /\ L[i] < p.faults_ppm[FAULTS[i]]}

LEMMA FaultIs ==
  ASSUME NEW u, NEW eligible
  PROVE  \E L : /\ (\E M : IsLeft(M, u, eligible)) => IsLeft(L, u, eligible)
                /\ Fault(u, eligible) =
                     IF Hits(L, eligible) = {} THEN "none"
                     ELSE FAULTS[CHOOSE i \in Hits(L, eligible) :
                                   \A j \in Hits(L, eligible) : i <= j]
<1> DEFINE L == CHOOSE L : IsLeft(L, u, eligible)
<1>1. (\E M : IsLeft(M, u, eligible)) => IsLeft(L, u, eligible)
  OBVIOUS
<1>2. Fault(u, eligible) =
         IF Hits(L, eligible) = {} THEN "none"
         ELSE FAULTS[CHOOSE i \in Hits(L, eligible) : \A j \in Hits(L, eligible) : i <= j]
  BY DEF Fault, IsLeft, Hits
<1> QED BY <1>1, <1>2

LEMMA LeftIs ==
  ASSUME NEW M, NEW u, NEW eligible, M = [i \in 1 .. Len(FAULTS) |-> M[i]],
         \A i \in 1 .. Len(FAULTS) :
           M[i] = IF i = 1 THEN u
                  ELSE M[i - 1] - (IF FAULTS[i - 1] \in eligible THEN p.faults_ppm[FAULTS[i - 1]] ELSE 0)
  PROVE  IsLeft(M, u, eligible)
BY DEF IsLeft

LEMMA LeastChosen ==
  ASSUME NEW S \in SUBSET Nat, NEW k \in S, \A j \in S : k <= j
  PROVE  (CHOOSE i \in S : \A j \in S : i <= j) = k
<1> DEFINE c == CHOOSE i \in S : \A j \in S : i <= j
<1>1. c \in S /\ \A j \in S : c <= j
  OBVIOUS
<1> HIDE DEF c
<1>2. c \in Nat /\ k \in Nat /\ c <= k /\ k <= c
  BY <1>1
<1> QED BY <1>2 DEF c

LEMMA FaultNames ==
  /\ Len(FAULTS) = 5 /\ DOMAIN FAULTS = 1 .. 5
  /\ \A i, j \in 1 .. 5 : FAULTS[i] = FAULTS[j] => i = j
  /\ \A i \in 1 .. 5 : FAULTS[i] # "none" /\ FAULTS[i] \in ToSet(FAULTS)
  /\ \A f \in ToSet(FAULTS) : \E i \in 1 .. 5 : f = FAULTS[i]
<1>1. Len(FAULTS) = 5 /\ DOMAIN FAULTS = 1 .. 5
  BY DEF FAULTS
<1>2. /\ FAULTS[1] = "truncated" /\ FAULTS[2] = "bad_checksum" /\ FAULTS[3] = "length_disagreement"
      /\ FAULTS[4] = "unknown_type" /\ FAULTS[5] = "flag_lying"
  BY DEF FAULTS
<1>3. \A i \in 1 .. 5 : i = 1 \/ i = 2 \/ i = 3 \/ i = 4 \/ i = 5
  OBVIOUS
<1>4. \A i, j \in 1 .. 5 : FAULTS[i] = FAULTS[j] => i = j
  BY <1>2, <1>3
<1>5. \A i \in 1 .. 5 : FAULTS[i] # "none"
  BY <1>2, <1>3
<1>6. ToSet(FAULTS) = {FAULTS[i] : i \in 1 .. 5}
  BY <1>1 DEF ToSet
<1> HIDE DEF FAULTS
<1> QED BY <1>1, <1>4, <1>5, <1>6

LEMMA TakenTypes ==
  ASSUME p \in Params, NEW eligible
  PROVE  /\ Taken(eligible) \in Seq(Nat) /\ Len(Taken(eligible)) = 5
         /\ \A i \in 1 .. 5 :
              /\ p.faults_ppm[FAULTS[i]] \in Nat
              /\ Taken(eligible)[i] = IF FAULTS[i] \in eligible THEN p.faults_ppm[FAULTS[i]] ELSE 0
<1>1. \A i \in 1 .. 5 : p.faults_ppm[FAULTS[i]] \in Nat
  <2>1. \A f \in ToSet(FAULTS) : p.faults_ppm[f] \in Nat
    BY ParamsAssumption
  <2> QED BY <2>1, FaultNames
<1>2. Taken(eligible) = [i \in 1 .. 5 |-> IF FAULTS[i] \in eligible THEN p.faults_ppm[FAULTS[i]] ELSE 0]
  BY FaultNames DEF Taken
<1>3. \A i \in 1 .. 5 : Taken(eligible)[i] \in Nat
  BY <1>1, <1>2
<1>4. Taken(eligible) = [i \in 1 .. 5 |-> Taken(eligible)[i]]
  BY <1>2
<1>5. Taken(eligible) \in Seq(Nat) /\ Len(Taken(eligible)) = 5
  BY <1>3, <1>4
<1> QED BY <1>1, <1>2, <1>5

(* The draws below PPM are laid out end to end: each fault takes those     *)
(* from what was taken before it to what is taken with it.                 *)
LEMMA FaultTakes ==
  ASSUME p \in Params, NEW eligible, NEW u \in Nat, NEW i \in 1 .. 5
  PROVE  Fault(u, eligible) = FAULTS[i] <=>
           Before(Taken(eligible), i - 1) <= u /\ u < Before(Taken(eligible), i)
<1> DEFINE t == Taken(eligible)
           B(k) == Before(t, k)
           r(k) == p.faults_ppm[FAULTS[k]]
<1>1. /\ t \in Seq(Nat) /\ Len(t) = 5
      /\ \A k \in 1 .. 5 : r(k) \in Nat /\ t[k] = IF FAULTS[k] \in eligible THEN r(k) ELSE 0
  BY TakenTypes
<1>2. /\ B(0) = 0
      /\ \A k \in 0 .. 5 : B(k) \in Nat
      /\ \A k \in 1 .. 5 : B(k) = B(k - 1) + t[k]
  <2>1. \A k \in 0 .. 5 - 1 : B(k + 1) = B(k) + t[k + 1]
    BY <1>1, SumSteps
  <2>2. \A k \in 1 .. 5 : k - 1 \in 0 .. 5 - 1 /\ (k - 1) + 1 = k
    OBVIOUS
  <2>3. B(0) = 0 /\ \A k \in 0 .. 5 : B(k) \in Nat
    BY <1>1, SumSteps
  <2> HIDE DEF t
  <2> QED BY <2>1, <2>2, <2>3
<1>3. \A k \in 0 .. 5, m \in 0 .. 5 : k <= m => B(k) <= B(m)
  <2> SUFFICES ASSUME NEW k \in 0 .. 5, NEW m \in 0 .. 5, k <= m PROVE B(k) <= B(m)
    OBVIOUS
  <2>1. k \in 0 .. Len(t) /\ m \in k .. Len(t)
    BY <1>1
  <2> HIDE DEF t
  <2> QED BY <1>1, <2>1, SumGrows
<1>4. PICK L : /\ (\E M : IsLeft(M, u, eligible)) => IsLeft(L, u, eligible)
               /\ Fault(u, eligible) =
                    IF Hits(L, eligible) = {} THEN "none"
                    ELSE FAULTS[CHOOSE k \in Hits(L, eligible) :
                                  \A j \in Hits(L, eligible) : k <= j]
  BY FaultIs
<1>5. ASSUME NEW k \in 2 .. 5
      PROVE  (IF FAULTS[k - 1] \in eligible THEN p.faults_ppm[FAULTS[k - 1]] ELSE 0) = t[k - 1]
             /\ k - 1 \in 1 .. 5
  <2>1. k - 1 \in 1 .. 5
    OBVIOUS
  <2> HIDE DEF t
  <2> QED BY <1>1, <2>1
<1> HIDE DEF t
<1>6. IsLeft([k \in 1 .. 5 |-> u - B(k - 1)], u, eligible)
  <2> DEFINE M == [k \in 1 .. 5 |-> u - B(k - 1)]
  <2>1. ASSUME NEW k \in 1 .. 5
        PROVE  M[k] = IF k = 1 THEN u
                      ELSE M[k - 1] - (IF FAULTS[k - 1] \in eligible THEN p.faults_ppm[FAULTS[k - 1]] ELSE 0)
    <3>1. CASE k = 1
      BY <3>1, <1>2
    <3>2. CASE k # 1
      <4>1. k \in 2 .. 5 /\ k - 1 \in 1 .. 5 /\ k - 1 - 1 \in 0 .. 5
        BY <3>2
      <4>2. B(k - 1) = B(k - 1 - 1) + t[k - 1] /\ B(k - 1) \in Nat /\ B(k - 1 - 1) \in Nat
        BY <1>2, <4>1
      <4>3. M[k] = u - B(k - 1) /\ M[k - 1] = u - B(k - 1 - 1)
        BY <4>1
      <4>4. t[k - 1] \in Nat
        BY <1>1, <4>1
      <4> DEFINE a == B(k - 1)
                 b == B(k - 1 - 1)
                 x == t[k - 1]
      <4>5. a \in Nat /\ b \in Nat /\ x \in Nat /\ a = b + x /\ M[k] = u - a /\ M[k - 1] = u - b
        BY <4>2, <4>3, <4>4
      <4> HIDE DEF a, b, x
      <4>6. u - a = (u - b) - x
        BY <4>5
      <4>7. M[k] = M[k - 1] - x
        BY <4>5, <4>6
      <4> HIDE DEF M, B
      <4> QED BY <1>5, <3>2, <4>1, <4>7 DEF x
    <3> QED BY <3>1, <3>2
  <2>2. M = [k \in 1 .. 5 |-> M[k]] /\ Len(FAULTS) = 5
    BY FaultNames
  <2> HIDE DEF M
  <2>3. 1 .. Len(FAULTS) = 1 .. 5
    BY <2>2
  <2>4. /\ M = [k \in 1 .. Len(FAULTS) |-> M[k]]
        /\ \A k \in 1 .. Len(FAULTS) :
             M[k] = IF k = 1 THEN u
                    ELSE M[k - 1] - (IF FAULTS[k - 1] \in eligible THEN p.faults_ppm[FAULTS[k - 1]] ELSE 0)
    BY <2>1, <2>2, <2>3
  <2>5. IsLeft(M, u, eligible)
    BY <2>4, LeftIs
  <2> QED BY <2>5 DEF M
<1>7. IsLeft(L, u, eligible)
  <2> HIDE DEF B
  <2> QED BY <1>4, <1>6
<1>8. \A k \in 1 .. 5 : L[k] = u - B(k - 1)
  <2>1. \A k \in 1 .. 5 : L[k] = IF k = 1 THEN u
           ELSE L[k - 1] - (IF FAULTS[k - 1] \in eligible THEN p.faults_ppm[FAULTS[k - 1]] ELSE 0)
    BY <1>7, FaultNames DEF IsLeft
  <2>2. L[1] = u /\ \A k \in 2 .. 5 : L[k] = L[k - 1] - t[k - 1]
    <3>1. \A k \in 2 .. 5 : k \in 1 .. 5 /\ k # 1
      OBVIOUS
    <3> QED BY <1>5, <2>1, <3>1
  <2> DEFINE T == {k \in Nat : k + 1 <= 5 => L[k + 1] = u - B(k)}
  <2>3. T \in SUBSET Nat /\ 0 \in T
    BY <1>2, <2>2
  <2>4. ASSUME NEW k \in T PROVE k + 1 \in T
    <3> SUFFICES ASSUME (k + 1) + 1 <= 5 PROVE L[(k + 1) + 1] = u - B(k + 1)
      OBVIOUS
    <3>1. (k + 1) + 1 \in 2 .. 5 /\ ((k + 1) + 1) - 1 = k + 1 /\ k + 1 \in 1 .. 5 /\ (k + 1) - 1 = k
          /\ L[k + 1] = u - B(k) /\ k \in 0 .. 5 /\ k + 1 \in 0 .. 5
      OBVIOUS
    <3>2. L[(k + 1) + 1] = L[k + 1] - t[k + 1]
      BY <2>2, <3>1
    <3>3. B(k + 1) = B(k) + t[k + 1] /\ B(k) \in Nat /\ t[k + 1] \in Nat
      <4>1. \A m \in 1 .. 5 : B(m) = B(m - 1) + t[m] /\ t[m] \in Nat
        <5>1. \A m \in 1 .. 5 : m \in 1 .. Len(t)
          BY <1>1
        <5>2. \A m \in 1 .. 5 : t[m] \in Nat
          <6>1. t \in Seq(Nat)
            BY <1>1
          <6> QED BY <5>1, <6>1, ElementOfSeq
        <5> HIDE DEF B
        <5> QED BY <1>2, <5>2
      <4> HIDE DEF B
      <4>2. B(k + 1) = B((k + 1) - 1) + t[k + 1] /\ t[k + 1] \in Nat
        BY <3>1, <4>1
      <4> QED BY <1>2, <3>1, <4>2
    <3> DEFINE a == B(k)
               x == t[k + 1]
    <3>4. a \in Nat /\ x \in Nat /\ L[(k + 1) + 1] = (u - a) - x /\ B(k + 1) = a + x
      BY <3>1, <3>2, <3>3
    <3> HIDE DEF a, x
    <3>5. (u - a) - x = u - (a + x)
      BY <3>4
    <3> QED BY <3>4, <3>5
  <2>5. T = Nat
    <3> HIDE DEF T
    <3> QED BY <2>3, <2>4, Induct
  <2> SUFFICES ASSUME NEW k \in 1 .. 5 PROVE L[k] = u - B(k - 1)
    OBVIOUS
  <2>6. k - 1 \in Nat /\ (k - 1) + 1 <= 5 /\ (k - 1) + 1 = k
    OBVIOUS
  <2>7. k - 1 \in T
    <3> HIDE DEF T
    <3> QED BY <2>5, <2>6
  <2> QED BY <2>6, <2>7
<1> DEFINE H == Hits(L, eligible)
<1>9. \A k \in 1 .. 5 : k \in H <=> FAULTS[k] \in eligible /\ u < B(k)
  <2> SUFFICES ASSUME NEW k \in 1 .. 5 PROVE k \in H <=> FAULTS[k] \in eligible /\ u < B(k)
    OBVIOUS
  <2>1. k \in H <=> FAULTS[k] \in eligible /\ L[k] < r(k)
    BY FaultNames DEF Hits
  <2>2. ASSUME FAULTS[k] \in eligible PROVE L[k] < r(k) <=> u < B(k)
    <3>1. /\ L[k] = u - B(k - 1) /\ B(k) = B(k - 1) + r(k) /\ B(k - 1) \in Nat /\ r(k) \in Nat
      <4>1. k - 1 \in 0 .. 5
        OBVIOUS
      <4>2. B(k) = B(k - 1) + t[k] /\ B(k - 1) \in Nat
        BY <1>2, <4>1
      <4>3. t[k] = r(k) /\ r(k) \in Nat
        BY <1>1, <2>2
      <4>4. L[k] = u - B(k - 1)
        BY <1>8
      <4> HIDE DEF B, r
      <4> QED BY <4>2, <4>3, <4>4
    <3> DEFINE a == B(k - 1)
               x == r(k)
    <3>2. a \in Nat /\ x \in Nat /\ L[k] = u - a /\ B(k) = a + x
      BY <3>1
    <3> HIDE DEF a, x
    <3>3. (u - a < x) <=> (u < a + x)
      BY <3>2
    <3> QED BY <3>2, <3>3 DEF x
  <2> QED BY <2>1, <2>2
<1>10. H \subseteq 1 .. 5
  BY FaultNames DEF Hits
<1>11. ASSUME NEW k \in 1 .. 5, B(k - 1) <= u, u < B(k)
       PROVE  k \in H /\ \A j \in H : k <= j
  <2>1. k \in H
    <3>1. FAULTS[k] \in eligible
      <4> SUFFICES ASSUME FAULTS[k] \notin eligible PROVE FALSE
        OBVIOUS
      <4>1. t[k] = 0
        BY <1>1
      <4>2. B(k) = B(k - 1) + t[k] /\ B(k - 1) \in Nat
        BY <1>2
      <4>3. B(k) = B(k - 1)
        BY <4>1, <4>2
      <4> HIDE DEF B
      <4> QED BY <1>11, <4>2, <4>3
    <3> HIDE DEF H
    <3> QED BY <1>9, <1>11, <3>1
  <2>2. ASSUME NEW j \in H, j < k PROVE FALSE
    <3>1. j \in 1 .. 5 /\ j \in 0 .. 5 /\ k - 1 \in 0 .. 5 /\ j <= k - 1
      BY <1>10, <2>2
    <3>2. u < B(j)
      <4> HIDE DEF H
      <4> QED BY <1>9, <2>2, <3>1
    <3>3. B(j) <= B(k - 1) /\ B(j) \in Nat /\ B(k - 1) \in Nat
      BY <1>2, <1>3, <3>1
    <3> HIDE DEF B, H
    <3> QED BY <1>11, <3>2, <3>3
  <2>3. \A j \in H : j \in Nat
    BY <1>10
  <2> HIDE DEF H
  <2> QED BY <2>1, <2>2, <2>3
<1>12. ASSUME NEW k \in 1 .. 5, B(k - 1) <= u, u < B(k)
       PROVE  Fault(u, eligible) = FAULTS[k]
  <2>1. k \in H /\ \A j \in H : k <= j
    BY <1>11, <1>12
  <2>2. (CHOOSE m \in H : \A j \in H : m <= j) = k
    <3>1. H \in SUBSET Nat
      BY <1>10
    <3> HIDE DEF H
    <3> QED BY <2>1, <3>1, LeastChosen
  <2>3. H # {}
    BY <2>1
  <2> QED BY <1>4, <2>2, <2>3
<1>13. ASSUME Fault(u, eligible) = FAULTS[i] PROVE B(i - 1) <= u /\ u < B(i)
  <2>1. H # {}
    BY <1>4, <1>13, FaultNames
  <2>2. PICK j \in 1 .. 5 : u < B(j) /\ \A k \in 1 .. 5 : u < B(k) => j <= k
    <3> DEFINE J == {k \in 1 .. 5 : u < B(k)}
    <3>1. J \in SUBSET Nat /\ J # {}
      <4>1. PICK k \in H : TRUE
        BY <2>1
      <4>2. k \in 1 .. 5 /\ u < B(k)
        <5>1. k \in 1 .. 5
          BY <1>10
        <5> HIDE DEF H
        <5> QED BY <1>9, <5>1
      <4> QED BY <4>2
    <3>2. PICK j \in J : \A k \in J : j <= k
      <4> HIDE DEF J
      <4> QED BY <3>1, NatMin
    <3> QED BY <3>2
  <2>3. B(j - 1) <= u
    <3>1. CASE j = 1
      <4>1. j - 1 = 0 /\ 0 <= u
        BY <3>1
      <4>2. B(j - 1) = 0
        BY <1>2, <4>1
      <4> HIDE DEF B
      <4> QED BY <4>1, <4>2
    <3>2. CASE j # 1
      <4>1. j - 1 \in 1 .. 5 /\ ~(j <= j - 1) /\ j - 1 \in 0 .. 5
        BY <3>2
      <4>2. ~(u < B(j - 1)) /\ B(j - 1) \in Nat
        BY <1>2, <2>2, <4>1
      <4> HIDE DEF B
      <4> QED BY <4>2
    <3> QED BY <3>1, <3>2
  <2>4. Fault(u, eligible) = FAULTS[j]
    BY <1>12, <2>2, <2>3
  <2>5. i = j
    BY <1>13, <2>4, FaultNames
  <2> QED BY <2>2, <2>3, <2>5
<1> QED BY <1>12, <1>13 DEF t

(* Rule R4 for every parameter file that validate() lets through.          *)
LEMMA RatesAreExact ==
  ASSUME p \in Params, Valid(p), NEW eligible
  PROVE  RatesExact(eligible)
<1> DEFINE t == Taken(eligible)
           B(k) == Before(t, k)
           rates == [i \in DOMAIN FAULTS |-> p.faults_ppm[FAULTS[i]]]
<1>1. /\ t \in Seq(Nat) /\ Len(t) = 5
      /\ \A k \in 1 .. 5 : p.faults_ppm[FAULTS[k]] \in Nat
                           /\ t[k] = IF FAULTS[k] \in eligible THEN p.faults_ppm[FAULTS[k]] ELSE 0
  BY TakenTypes
<1>2. Sum(t) <= PPM /\ Sum(t) \in Nat /\ PPM \in Nat
  <2>1. rates = [i \in 1 .. 5 |-> p.faults_ppm[FAULTS[i]]]
    BY FaultNames
  <2>2. rates \in Seq(Nat) /\ Len(rates) = 5 /\ \A k \in 1 .. 5 : t[k] <= rates[k]
    <3> HIDE DEF t
    <3> QED BY <1>1, <2>1
  <2>3. Sum(rates) <= PPM
    BY DEF Valid
  <2> HIDE DEF rates, t
  <2>4. Sum(t) <= Sum(rates)
    BY <1>1, <2>2, SumBounds
  <2>5. Sum(t) \in Nat /\ Sum(rates) \in Nat /\ PPM \in Nat
    BY <1>1, <2>2, SumSteps, NumbersAssumption
  <2> QED BY <2>3, <2>4, <2>5
<1> SUFFICES ASSUME NEW f \in ToSet(FAULTS)
             PROVE  Cardinality({u \in 0 .. PPM - 1 : Fault(u, eligible) = f})
                      = IF f \in eligible THEN p.faults_ppm[f] ELSE 0
  BY DEF RatesExact
<1>3. PICK i \in 1 .. 5 : f = FAULTS[i]
  BY FaultNames
<1> HIDE DEF t
<1>4. /\ B(i - 1) \in Nat /\ B(i) \in Nat /\ B(i) = B(i - 1) + t[i] /\ t[i] \in Nat
      /\ B(i) <= PPM
  <2>1. i - 1 \in 0 .. Len(t) - 1 /\ (i - 1) + 1 = i /\ i \in 0 .. Len(t) /\ Len(t) \in i .. Len(t)
        /\ i - 1 \in 0 .. Len(t)
    BY <1>1
  <2>2. B((i - 1) + 1) = B(i - 1) + t[(i - 1) + 1] /\ B(i - 1) \in Nat /\ B(i) \in Nat
    BY <1>1, <2>1, SumSteps
  <2>3. B(i) <= B(Len(t)) /\ B(Len(t)) = Sum(t)
    BY <1>1, <2>1, SumSteps, SumGrows
  <2>4. t[i] \in Nat
    <3>1. i \in 1 .. Len(t)
      BY <1>1
    <3>2. t \in Seq(Nat)
      BY <1>1
    <3> QED BY <3>1, <3>2, ElementOfSeq
  <2> HIDE DEF B
  <2> QED BY <1>2, <2>1, <2>2, <2>3, <2>4
<1>5. {u \in 0 .. PPM - 1 : Fault(u, eligible) = f} = B(i - 1) .. B(i) - 1
  <2>1. \A u \in Nat : Fault(u, eligible) = f <=> B(i - 1) <= u /\ u < B(i)
    BY <1>3, FaultTakes DEF t
  <2> HIDE DEF B
  <2>2. \A u : u \in B(i - 1) .. B(i) - 1 <=> u \in 0 .. PPM - 1 /\ B(i - 1) <= u /\ u < B(i)
    BY <1>2, <1>4
  <2>3. \A u \in 0 .. PPM - 1 : u \in Nat
    BY <1>2
  <2> QED BY <2>1, <2>2, <2>3
<1>6. Cardinality(B(i - 1) .. B(i) - 1) = t[i]
  <2> DEFINE a == B(i - 1)
             x == t[i]
  <2>1. a \in Nat /\ x \in Nat /\ B(i) = a + x
    BY <1>4
  <2> HIDE DEF a, x, B
  <2>2. a \in Int /\ (a + x) - 1 \in Int
    BY <2>1
  <2>3. Cardinality(a .. (a + x) - 1) = IF a > (a + x) - 1 THEN 0 ELSE ((a + x) - 1) - a + 1
    BY ONLY <2>2, FS_Interval
  <2>4. (IF a > (a + x) - 1 THEN 0 ELSE ((a + x) - 1) - a + 1) = x
    BY <2>1
  <2>5. Cardinality(a .. (a + x) - 1) = x
    BY <2>3, <2>4
  <2> QED BY <2>1, <2>5 DEF a, x
<1>7. t[i] = IF f \in eligible THEN p.faults_ppm[f] ELSE 0
  BY <1>1, <1>3
<1> QED BY <1>5, <1>6, <1>7

(* The numbers that are counted up to reach a sum. *)
LEMMA SumFrom ==
  ASSUME NEW s \in Seq(Nat), NEW h, PrefixSums(h, s)
  PROVE  Sum(s) = h[Len(s)]
<1>1. PICK k : PrefixSums(k, s) /\ Sum(s) = k[Len(s)]
  BY SumPrefixes
<1>2. Len(s) \in Nat /\ Len(s) <= Len(s) /\ \A i \in 1 .. Len(s) : s[i] = s[i]
  OBVIOUS
<1>3. h[Len(s)] = k[Len(s)]
  BY <1>1, <1>2, PrefixesAgree
<1> QED BY <1>1, <1>3

LEMMA SumOnes ==
  ASSUME NEW n \in Nat
  PROVE  Sum([i \in 1 .. n |-> 1]) = n
<1> DEFINE s == [i \in 1 .. n |-> 1]
           h == [i \in 0 .. n |-> i]
<1>1. s \in Seq(Nat) /\ Len(s) = n /\ \A i \in 1 .. n : s[i] = 1
  OBVIOUS
<1>2. h \in [0 .. n -> Nat] /\ \A i \in 0 .. n : h[i] = i
  OBVIOUS
<1> HIDE DEF s, h
<1>3. PrefixSums(h, s)
  <2>1. 0 \in 0 .. n /\ \A i \in 0 .. n - 1 : i \in 0 .. n /\ i + 1 \in 0 .. n /\ i + 1 \in 1 .. n
    OBVIOUS
  <2> QED BY <1>1, <1>2, <2>1 DEF PrefixSums
<1>4. Sum(s) = h[n]
  BY <1>1, <1>3, SumFrom
<1> QED BY <1>2, <1>4 DEF s

(* Shares of q and, for the first m, of one more. *)
LEMMA SumShares ==
  ASSUME NEW n \in Nat, NEW q \in Nat, NEW m \in 0 .. n
  PROVE  Sum([i \in 1 .. n |-> 1 + q + (IF i - 1 < m THEN 1 ELSE 0)]) = n + n * q + m
<1> DEFINE s == [i \in 1 .. n |-> 1 + q + (IF i - 1 < m THEN 1 ELSE 0)]
           h == [i \in 0 .. n |-> i + i * q + (IF i < m THEN i ELSE m)]
<1>1. s \in Seq(Nat) /\ Len(s) = n
      /\ \A i \in 1 .. n : s[i] = 1 + q + (IF i - 1 < m THEN 1 ELSE 0)
  <2>1. \A i \in 1 .. n : 1 + q + (IF i - 1 < m THEN 1 ELSE 0) \in Nat
    OBVIOUS
  <2> QED BY <2>1
<1>2. h \in [0 .. n -> Nat]
      /\ \A i \in 0 .. n : h[i] = i + i * q + (IF i < m THEN i ELSE m)
  <2>1. ASSUME NEW i \in 0 .. n PROVE i + i * q + (IF i < m THEN i ELSE m) \in Nat
    <3>1. i \in Nat /\ m \in Nat /\ i * q \in Nat
      OBVIOUS
    <3> DEFINE x == i * q
    <3> HIDE DEF x
    <3> QED BY <3>1 DEF x
  <2> QED BY <2>1
<1> HIDE DEF s, h
<1>3. PrefixSums(h, s)
  <2>1. h[0] = 0
    BY <1>2
  <2>2. ASSUME NEW i \in 0 .. n - 1 PROVE h[i + 1] = h[i] + s[i + 1]
    <3>1. i \in 0 .. n /\ i + 1 \in 0 .. n /\ i + 1 \in 1 .. n /\ (i + 1) - 1 = i /\ i \in Nat /\ m \in Nat
      OBVIOUS
    <3>2. (i + 1) * q = i * q + q /\ i * q \in Nat /\ (i + 1) * q \in Nat
      BY <3>1
    <3>3. /\ h[i] = i + i * q + (IF i < m THEN i ELSE m)
          /\ h[i + 1] = (i + 1) + (i + 1) * q + (IF i + 1 < m THEN i + 1 ELSE m)
          /\ s[i + 1] = 1 + q + (IF i < m THEN 1 ELSE 0)
      BY <1>1, <1>2, <3>1
    <3> DEFINE x == i * q
               y == (i + 1) * q
    <3>4. x \in Nat /\ y = x + q
      BY <3>2
    <3>5. /\ h[i] = i + x + (IF i < m THEN i ELSE m)
          /\ h[i + 1] = (i + 1) + y + (IF i + 1 < m THEN i + 1 ELSE m)
      BY <3>3
    <3> HIDE DEF x, y
    <3>6. (i + 1) + (x + q) + (IF i + 1 < m THEN i + 1 ELSE m)
            = (i + x + (IF i < m THEN i ELSE m)) + (1 + q + (IF i < m THEN 1 ELSE 0))
      BY <3>1, <3>4
    <3> QED BY <3>3, <3>4, <3>5, <3>6
  <2> QED BY <1>1, <1>2, <2>1, <2>2 DEF PrefixSums
<1>4. Sum(s) = h[n]
  BY <1>1, <1>3, SumFrom
<1>5. h[n] = n + n * q + m
  BY <1>2
<1> QED BY <1>4, <1>5 DEF s

AddUp(n, q, m, extra) == n + n * q + m = n + extra

LEMMA SharesAdd ==
  ASSUME NEW n \in Nat \ {0}, NEW extra \in Nat, NEW q, NEW m, q = extra \div n, m = extra % n
  PROVE  q \in Nat /\ m \in 0 .. n /\ AddUp(n, q, m, extra)
<1>1. n \in Int /\ n > 0 /\ extra \in Int
  OBVIOUS
<1>2. m = extra - n * q
  BY <1>1
<1>3. q \in Nat /\ m \in 0 .. n - 1
  OBVIOUS
<1> DEFINE x == n * q
<1>4. x \in Int /\ m = extra - x /\ n + n * q + m = n + x + m
  BY ONLY <1>1, <1>2, <1>3
<1> HIDE DEF x
<1>5. n + x + m = n + extra
  BY ONLY <1>1, <1>3, <1>4
<1>6. m \in 0 .. n
  BY ONLY <1>1, <1>3
<1>7. n + n * q + m = n + extra
  BY ONLY <1>4, <1>5
<1> QED BY ONLY <1>3, <1>6, <1>7 DEF AddUp

--------------------------------------------------------------------------------
LEMMA LeastIn ==
  ASSUME NEW S \in SUBSET Nat, S # {}
  PROVE  (CHOOSE i \in S : \A j \in S : i <= j) \in S
<1>1. \E i \in S : \A j \in S : i <= j
  BY NatMin
<1> QED BY <1>1

IsList(s) == \E S : s \in Seq(S)

LEMMA ListIs ==
  ASSUME NEW s, IsList(s)
  PROVE  Len(s) \in Nat /\ DOMAIN s = 1 .. Len(s) /\ (s = <<>> <=> Len(s) = 0)
         /\ s = [i \in 1 .. Len(s) |-> s[i]]
<1>1. PICK S : s \in Seq(S)
  BY DEF IsList
<1> QED BY <1>1

LEMMA Joined ==
  ASSUME NEW s, NEW r, IsList(s), IsList(r)
  PROVE  /\ IsList(s \o r) /\ Len(s \o r) = Len(s) + Len(r)
         /\ \A i \in 1 .. Len(s) : (s \o r)[i] = s[i]
         /\ \A i \in 1 .. Len(r) : (s \o r)[Len(s) + i] = r[i]
<1>1. PICK S : s \in Seq(S)
  BY DEF IsList
<1>2. PICK R : r \in Seq(R)
  BY DEF IsList
<1>3. s \in Seq(S \cup R) /\ r \in Seq(S \cup R)
  BY <1>1, <1>2
<1>4. s \o r \in Seq(S \cup R)
  BY <1>3
<1> QED BY <1>3, <1>4 DEF IsList

LEMMA OneList == ASSUME NEW e PROVE IsList(<<e>>) /\ Len(<<e>>) = 1 /\ <<e>>[1] = e
<1>1. <<e>> \in Seq({e})
  OBVIOUS
<1> QED BY <1>1 DEF IsList

LEMMA NoList == IsList(<<>>) /\ Len(<<>>) = 0
<1>1. <<>> \in Seq({})
  OBVIOUS
<1> QED BY <1>1 DEF IsList

(* One segment as _fill makes it. *)
WellMade(seg) ==
  /\ seg.kind \in {"frame", "garbage"}
  /\ seg.length \in Nat \ {0} /\ seg.whole \in Nat \ {0} /\ seg.length <= seg.whole
  /\ seg.fault = "truncated" <=> seg.length < seg.whole
  /\ seg.kind = "garbage" => seg.fault = "none"
  /\ seg.kind = "frame" =>
       /\ seg.field \in 0 .. FieldLimit
       /\ seg.fault = "length_disagreement" <=> seg.field # seg.whole - Overhead
       /\ seg.fault = "length_disagreement" =>
            seg.field - (seg.whole - Overhead) \in (-4 .. 4) \ {0}

(* A connection's segments: a session frame first, garbage singly between  *)
(* two frames.                                                             *)
Made(segs) ==
  /\ IsList(segs)
  /\ \A i \in 1 .. Len(segs) : WellMade(segs[i]) /\ (segs[i].type = "session" <=> i = 1)
  /\ segs # <<>> =>
       segs[1].kind = "frame" /\ segs[1].fault = "none" /\ segs[Len(segs)].kind = "frame"
  /\ \A i \in 1 .. Len(segs) :
       segs[i].kind = "garbage" =>
         i \in 2 .. Len(segs) - 1 /\ segs[i - 1].kind = "frame" /\ segs[i + 1].kind = "frame"

(* Every connection's frames, not more than were dealt to it.              *)
Fillings ==
  /\ DOMAIN segments = Conns
  /\ \A c \in Conns : Made(segments[c]) /\ Cardinality(Frames(segments[c])) <= counts[c]

(* The frames are dealt as they were asked for. *)
Shared ==
  /\ counts \in [Conns -> Nat \ {0}]
  /\ Sum(counts) = p.frames
  /\ p.assignment = "equal" => \A c, d \in Conns : counts[c] <= counts[d] + 1

SInv ==
  /\ p \in Params
  /\ stage \in {"validate", "refused", "connect", "deal", "spins"} \cup Dealt
  /\ stage \notin {"validate", "refused"} => Valid(p)
  /\ stage = "spins" => ~WithinDraws(p)
  /\ stage = "deal" => counts \in [Conns -> Nat \ {0}] /\ Sum(counts) <= p.frames
  /\ stage \in Dealt => Shared /\ Fillings
  /\ stage \in Dealt \ {"fill"} => \A c \in Conns : Cardinality(Frames(segments[c])) = counts[c]

LEMMA FrameMade ==
  ASSUME NEW type, NEW fault, NEW whole \in Nat, p \in Params, Valid(p), whole \in p.lengths,
         NEW frame \in MakeFrames(type, fault, whole)
  PROVE  WellMade(frame) /\ frame.kind = "frame" /\ frame.type = type
<1> DEFINE correct == whole - Overhead
<1>1. /\ Overhead \in Nat /\ Overhead >= 1 /\ FieldLimit \in Nat /\ FieldLimit >= 7
      /\ whole > Overhead
  BY NumbersAssumption, ParamsAssumption
<1>2. correct <= FieldLimit
  BY DEF Valid
<1>3. correct \in Nat /\ correct >= 1 /\ whole >= 1 /\ correct \in 0 .. FieldLimit
  BY <1>1, <1>2
<1> HIDE DEF correct
<1>4. CASE fault = "truncated"
  <2>1. PICK n \in 1 .. whole - 1 : frame = Frame(type, fault, whole, n, correct)
    BY <1>4 DEF MakeFrames, Kept, correct
  <2>2. n \in Nat /\ n >= 1 /\ n < whole
    BY <1>1
  <2> QED BY <1>1, <1>3, <1>4, <2>1, <2>2 DEF Frame, WellMade, correct
<1>5. CASE fault = "length_disagreement"
  <2>1. PICK d \in (-4 .. 4) \ {0} :
          frame = Frame(type, fault, whole, whole, correct + LengthDelta(d, correct, FieldLimit))
    BY <1>5 DEF MakeFrames, correct
  <2> DEFINE e == LengthDelta(d, correct, FieldLimit)
  <2>2. d \in Int /\ -4 <= d /\ d <= 4 /\ d # 0
    OBVIOUS
  <2>3. e \in (-4 .. 4) \ {0} /\ correct + e \in 0 .. FieldLimit
    BY <1>1, <1>3, <2>2 DEF LengthDelta
  <2> HIDE DEF e
  <2>4. (correct + e) - correct = e /\ correct + e # correct
    BY <1>3, <2>3
  <2>5. /\ frame.kind = "frame" /\ frame.type = type /\ frame.fault = fault /\ frame.whole = whole
        /\ frame.length = whole /\ frame.field = correct + e
    BY <2>1 DEF Frame, e
  <2>6. ~(whole < whole)
    BY <1>1
  <2> QED BY <1>1, <1>3, <1>5, <2>3, <2>4, <2>5, <2>6 DEF WellMade, correct
<1>6. CASE fault # "truncated" /\ fault # "length_disagreement"
  <2>1. frame = Frame(type, fault, whole, whole, correct)
    BY <1>6 DEF MakeFrames, correct
  <2>2. ~(whole < whole)
    BY <1>1
  <2> QED BY <1>1, <1>3, <1>6, <2>1, <2>2 DEF Frame, WellMade, correct
<1> QED BY <1>4, <1>5, <1>6

LEMMA SessionMade ==
  ASSUME NEW whole \in Nat, p \in Params, Valid(p), whole \in p.lengths
  PROVE  LET frame == Frame("session", "none", whole, whole, whole - Overhead) IN
         Made(<<frame>>) /\ Frames(<<frame>>) = {1}
<1> DEFINE frame == Frame("session", "none", whole, whole, whole - Overhead)
<1>1. frame \in MakeFrames("session", "none", whole)
  BY DEF MakeFrames
<1>2. WellMade(frame) /\ frame.kind = "frame" /\ frame.type = "session" /\ frame.fault = "none"
  BY <1>1, FrameMade DEF Frame
<1> HIDE DEF frame
<1>3. IsList(<<frame>>) /\ Len(<<frame>>) = 1 /\ <<frame>>[1] = frame /\ DOMAIN <<frame>> = 1 .. 1
  BY OneList
<1>4. \A i \in 1 .. 1 : i = 1
  OBVIOUS
<1> DEFINE one == <<frame>>
<1>5. IsList(one) /\ Len(one) = 1 /\ one[1] = frame /\ DOMAIN one = 1 .. 1
  BY <1>3
<1> HIDE DEF one
<1>6. Made(one)
  <2>1. \A i \in 1 .. Len(one) : one[i] = frame /\ i = 1
    BY <1>4, <1>5
  <2> QED BY <1>2, <1>5, <2>1 DEF Made
<1>7. Frames(one) = {1}
  BY <1>2, <1>4, <1>5 DEF Frames
<1> QED BY <1>6, <1>7 DEF one, frame

(* One garbage run at most goes before a frame. *)
LEMMA RunMade ==
  ASSUME p \in Params, Valid(p), NEW run \in GarbageRuns
  PROVE  /\ IsList(run) /\ Len(run) \in 0 .. 1
         /\ \A i \in 1 .. Len(run) : WellMade(run[i]) /\ run[i].kind = "garbage" /\ run[i].type = "none"
<1>1. CASE run = <<>>
  BY <1>1, NoList
<1>2. CASE run # <<>>
  <2>1. PICK n \in p.garbage.length[1] .. p.garbage.length[2] : run = <<Garbage(n)>>
    BY <1>2 DEF GarbageRuns
  <2>2. p.garbage.length \in Nat \X Nat
    BY ParamsAssumption
  <2>3. n \in Nat /\ n >= 1
    BY <2>2 DEF Valid
  <2> DEFINE g == Garbage(n)
  <2>4. WellMade(g) /\ g.kind = "garbage" /\ g.type = "none"
    BY <2>3 DEF Garbage, WellMade
  <2> HIDE DEF g
  <2>5. IsList(run) /\ Len(run) = 1 /\ run[1] = g
    BY <2>1, OneList DEF g
  <2> QED BY <2>4, <2>5
<1> QED BY <1>1, <1>2

LEMMA FrameAdded ==
  ASSUME NEW segs, Made(segs), segs # <<>>, p \in Params, Valid(p), NEW run \in GarbageRuns,
         NEW frame, WellMade(frame), frame.kind = "frame", frame.type # "session"
  PROVE  LET new == segs \o run \o <<frame>> IN
         /\ Made(new)
         /\ Cardinality(Frames(segs)) \in Nat
         /\ Cardinality(Frames(new)) = Cardinality(Frames(segs)) + 1
<1> DEFINE mid == segs \o run
           new == segs \o run \o <<frame>>
           n == Len(segs)
           k == Len(run)
<1>1. /\ IsList(run) /\ k \in 0 .. 1
      /\ \A i \in 1 .. k : WellMade(run[i]) /\ run[i].kind = "garbage" /\ run[i].type = "none"
  BY RunMade
<1>2. IsList(segs) /\ n \in Nat /\ n >= 1 /\ DOMAIN segs = 1 .. n
  BY ListIs DEF Made
<1>3. /\ IsList(mid) /\ Len(mid) = n + k
      /\ \A i \in 1 .. n : mid[i] = segs[i]
      /\ \A i \in 1 .. k : mid[n + i] = run[i]
  BY <1>1, <1>2, Joined
<1>4. /\ IsList(new) /\ Len(new) = n + k + 1
      /\ \A i \in 1 .. n + k : new[i] = mid[i]
      /\ new[n + k + 1] = frame
  <2>1. IsList(<<frame>>) /\ Len(<<frame>>) = 1 /\ <<frame>>[1] = frame /\ 1 \in 1 .. 1
    BY OneList
  <2> DEFINE one == <<frame>>
  <2>2. IsList(one) /\ Len(one) = 1 /\ one[1] = frame /\ 1 \in 1 .. Len(one)
    BY <2>1
  <2> HIDE DEF one, mid, n, k
  <2>3. /\ IsList(mid \o one) /\ Len(mid \o one) = Len(mid) + 1
        /\ \A i \in 1 .. Len(mid) : (mid \o one)[i] = mid[i]
        /\ (mid \o one)[Len(mid) + 1] = one[1]
    <3>1. /\ IsList(mid \o one) /\ Len(mid \o one) = Len(mid) + Len(one)
          /\ \A i \in 1 .. Len(mid) : (mid \o one)[i] = mid[i]
          /\ \A i \in 1 .. Len(one) : (mid \o one)[Len(mid) + i] = one[i]
      <4>1. IsList(mid) /\ IsList(one)
        BY <1>3, <2>2
      <4> HIDE DEF new
      <4>2. IsList(mid \o one)
        BY <4>1, Joined
      <4>3. Len(mid \o one) = Len(mid) + Len(one)
        BY <4>1, Joined
      <4>4. \A i \in 1 .. Len(mid) : (mid \o one)[i] = mid[i]
        BY <4>1, Joined
      <4>5. \A i \in 1 .. Len(one) : (mid \o one)[Len(mid) + i] = one[i]
        BY <4>1, Joined
      <4> QED BY <4>2, <4>3, <4>4, <4>5
    <3> QED BY <2>2, <3>1
  <2>4. new = mid \o one
    BY DEF mid, one
  <2> HIDE DEF new
  <2> QED BY <1>3, <2>2, <2>3, <2>4
<1>5. DOMAIN new = 1 .. n + k + 1
  <2> HIDE DEF new
  <2> QED BY <1>4, ListIs
<1> HIDE DEF new, mid, n, k
<1>6. /\ \A i \in 1 .. n : new[i] = segs[i]
      /\ k = 1 => new[n + 1] = run[1]
      /\ new[n + k + 1] = frame
      /\ \A i \in 1 .. n + k + 1 : i \in 1 .. n \/ (k = 1 /\ i = n + 1) \/ i = n + k + 1
  <2>1. \A i \in 1 .. n : i \in 1 .. n + k
    BY <1>1, <1>2
  <2>2. k = 1 => n + 1 \in 1 .. n + k /\ 1 \in 1 .. k
    BY <1>1, <1>2
  <2>3. \A i \in 1 .. n + k + 1 : i \in 1 .. n \/ (k = 1 /\ i = n + 1) \/ i = n + k + 1
    BY <1>1, <1>2
  <2> QED BY <1>3, <1>4, <2>1, <2>2, <2>3
<1>7. k = 1 => WellMade(run[1]) /\ run[1].kind = "garbage" /\ run[1].type = "none"
  BY <1>1
<1>8. /\ \A i \in 1 .. n : WellMade(segs[i]) /\ (segs[i].type = "session" <=> i = 1)
      /\ segs[1].kind = "frame" /\ segs[1].fault = "none" /\ segs[n].kind = "frame"
      /\ \A i \in 1 .. n : segs[i].kind = "garbage" =>
            i \in 2 .. n - 1 /\ segs[i - 1].kind = "frame" /\ segs[i + 1].kind = "frame"
  BY DEF Made, n
<1>9. ASSUME NEW i \in 1 .. n + k + 1
      PROVE  WellMade(new[i]) /\ (new[i].type = "session" <=> i = 1)
  <2>1. CASE i \in 1 .. n
    BY <1>6, <1>8, <2>1
  <2>2. CASE k = 1 /\ i = n + 1
    BY <1>2, <1>6, <1>7, <2>2
  <2>3. CASE i = n + k + 1
    <3>1. i # 1
      BY <1>1, <1>2, <2>3
    <3> QED BY <1>6, <2>3, <3>1
  <2> QED BY <1>6, <2>1, <2>2, <2>3
<1>10. new[1].kind = "frame" /\ new[1].fault = "none" /\ new[n + k + 1].kind = "frame"
  <2>1. 1 \in 1 .. n
    BY <1>2
  <2> QED BY <1>6, <1>8, <2>1
<1>11. ASSUME NEW i \in 1 .. n + k + 1, new[i].kind = "garbage"
       PROVE  i \in 2 .. n + k /\ new[i - 1].kind = "frame" /\ new[i + 1].kind = "frame"
  <2>1. CASE i \in 1 .. n
    <3>1. i \in 2 .. n - 1 /\ segs[i - 1].kind = "frame" /\ segs[i + 1].kind = "frame"
      BY <1>6, <1>8, <1>11, <2>1
    <3>2. i - 1 \in 1 .. n /\ i + 1 \in 1 .. n /\ i \in 2 .. n + k
      BY <1>1, <1>2, <3>1
    <3> QED BY <1>6, <3>1, <3>2
  <2>2. CASE k = 1 /\ i = n + 1
    <3>1. i - 1 = n /\ n \in 1 .. n /\ i + 1 = n + k + 1 /\ i \in 2 .. n + k
      BY <1>2, <2>2
    <3>2. new[n].kind = "frame"
      BY <1>6, <1>8, <3>1
    <3> QED BY <1>6, <3>1, <3>2
  <2>3. CASE i = n + k + 1
    BY <1>6, <1>11, <2>3
  <2> QED BY <1>6, <2>1, <2>2, <2>3
<1>12. Made(new)
  <2>1. Len(new) - 1 = n + k /\ new # <<>>
    BY <1>1, <1>2, <1>4, ListIs
  <2> QED BY <1>4, <1>9, <1>10, <1>11, <2>1 DEF Made
<1>13. /\ IsFiniteSet(Frames(segs)) /\ n + k + 1 \notin Frames(segs)
       /\ Frames(new) = Frames(segs) \cup {n + k + 1}
  <2>1. Frames(segs) = {i \in 1 .. n : segs[i].kind = "frame"}
    BY <1>2 DEF Frames
  <2>2. Frames(new) = {i \in 1 .. n + k + 1 : new[i].kind = "frame"}
    BY <1>5 DEF Frames
  <2>3. IsFiniteSet(1 .. n)
    BY <1>2, FS_Interval
  <2>4. IsFiniteSet(Frames(segs))
    BY <2>1, <2>3, FS_Subset
  <2>5. n + k + 1 \notin 1 .. n /\ \A i \in 1 .. n : i \in 1 .. n + k + 1
    BY <1>1, <1>2
  <2>6. n + k + 1 \in 1 .. n + k + 1
    BY <1>1, <1>2
  <2>7. k = 1 => ~ (new[n + 1].kind = "frame")
    BY <1>6, <1>7
  <2> QED BY <1>6, <1>10, <2>1, <2>2, <2>4, <2>5, <2>6, <2>7
<1>14. Cardinality(Frames(segs)) \in Nat
  BY <1>13, FS_CardinalityType
<1>15. Cardinality(Frames(new)) = Cardinality(Frames(segs)) + 1
  BY <1>13, FS_AddElement
<1> QED BY <1>12, <1>14, <1>15 DEF new

--------------------------------------------------------------------------------
(* The rules that hold of the streams. *)

LEMMA InitSInv == Init => SInv
BY DEF Init, SInv, Dealt

LEMMA ConnsAre ==
  ASSUME p \in Params, Valid(p)
  PROVE  p.connections \in Nat \ {0} /\ p.frames \in Nat /\ p.frames >= p.connections
         /\ Conns = 1 .. p.connections
<1>1. p.frames \in Nat
  BY ParamsAssumption
<1>2. p.connections \in 1 .. MaxConns /\ p.frames >= p.connections
  BY DEF Valid
<1>3. MaxConns \in Nat
  BY NumbersAssumption
<1> QED BY <1>1, <1>2, <1>3 DEF Conns

(* Connecting the last connection gives each one frame. *)
LEMMA ConnectStreams ==
  ASSUME SInv, Connect
  PROVE  SInv'
<1>1. /\ p' = p /\ stage = "connect" /\ p \in Params /\ Valid(p)
      /\ \/ stage' = stage
         \/ stage' = "deal" /\ counts' = [c \in Conns |-> 1]
  BY DEF Connect, SInv
<1>2. CASE stage' = stage
  BY <1>1, <1>2 DEF SInv, Dealt
<1>3. CASE stage' = "deal" /\ counts' = [c \in Conns |-> 1]
  <2>1. p.connections \in Nat /\ p.frames >= p.connections /\ Conns = 1 .. p.connections
    BY <1>1, ConnsAre
  <2>2. Sum(counts') = p.connections
    BY <1>3, <2>1, SumOnes
  <2>3. Conns' = Conns
    BY <1>1 DEF Conns
  <2>4. counts' \in [Conns -> Nat \ {0}]
    BY <1>3
  <2>5. stage' = "deal" => counts' \in [Conns' -> Nat \ {0}] /\ Sum(counts') <= p'.frames
    BY <1>1, <2>1, <2>2, <2>3, <2>4
  <2> QED BY <1>1, <1>3, <2>5 DEF SInv, Dealt
<1> QED BY <1>1, <1>2, <1>3

(* Nothing is filled in as the filling starts. *)
LEMMA StartsEmpty ==
  ASSUME SInv, stage = "deal", p' = p, stage' = "fill", segments' = [c \in Conns |-> <<>>],
         Shared'
  PROVE  SInv'
<1>1. p \in Params /\ Valid(p) /\ Conns' = Conns
  BY DEF SInv, Conns
<1>2. Made(<<>>)
  BY NoList DEF Made
<1>3. Cardinality(Frames(<<>>)) = 0
  <2>1. Frames(<<>>) = {}
    BY NoList, ListIs DEF Frames
  <2> QED BY <2>1, FS_EmptySet
<1>4. ASSUME NEW c \in Conns
      PROVE  Made(segments'[c]) /\ Cardinality(Frames(segments'[c])) <= counts'[c]
  <2>1. counts'[c] \in Nat
    BY <1>1 DEF Shared
  <2>2. segments'[c] = <<>>
    OBVIOUS
  <2>3. Frames(segments'[c]) = Frames(<<>>)
    BY <2>2
  <2> QED BY <1>2, <1>3, <2>1, <2>2, <2>3
<1>5. Fillings'
  BY <1>1, <1>4 DEF Fillings, Frames
<1> QED BY <1>1, <1>5 DEF SInv, Dealt

LEMMA EqualStreams ==
  ASSUME SInv, DealEqually
  PROVE  SInv'
<1>1. /\ p' = p /\ stage = "deal" /\ stage' = "fill" /\ counts' = EqualShares
      /\ segments' = [c \in Conns |-> <<>>] /\ p \in Params /\ Valid(p)
  BY DEF DealEqually, SInv
<1>2. /\ p.connections \in Nat \ {0} /\ p.frames \in Nat /\ p.frames >= p.connections
      /\ Conns = 1 .. p.connections /\ Conns' = Conns
  BY <1>1, ConnsAre DEF Conns
<1> DEFINE n == p.connections
           extra == p.frames - n
<1>3. PICK q, m : q = extra \div n /\ m = extra % n
  OBVIOUS
<1>4. extra \in Nat /\ n + extra = p.frames
  BY <1>2
<1>5. q \in Nat /\ m \in 0 .. n /\ n + n * q + m = n + extra
  <2>1. n \in Nat \ {0} /\ extra \in Nat /\ q = extra \div n /\ m = extra % n
    BY <1>2, <1>3, <1>4
  <2> HIDE DEF n, extra
  <2>2. q \in Nat
    BY <2>1, SharesAdd
  <2>3. m \in 0 .. n
    BY <2>1, SharesAdd
  <2>4. AddUp(n, q, m, extra)
    BY <2>1, SharesAdd
  <2> QED BY <2>2, <2>3, <2>4 DEF AddUp
<1>6. EqualShares = [i \in 1 .. n |-> 1 + q + (IF i - 1 < m THEN 1 ELSE 0)]
  BY <1>2, <1>3 DEF EqualShares
<1> HIDE DEF extra
<1>7. Sum(counts') = p.frames
  <2>1. Sum(EqualShares) = n + n * q + m
    BY <1>2, <1>5, <1>6, SumShares
  <2> QED BY <1>1, <1>4, <1>5, <2>1
<1>8. \A i \in 1 .. n : counts'[i] = 1 + q + (IF i - 1 < m THEN 1 ELSE 0)
  BY <1>1, <1>6
<1>9. counts' \in [Conns -> Nat \ {0}]
  <2>1. \A i \in 1 .. n : 1 + q + (IF i - 1 < m THEN 1 ELSE 0) \in Nat \ {0}
    BY <1>2, <1>5
  <2> QED BY <1>1, <1>2, <1>6, <2>1
<1>10. \A c, d \in Conns : counts'[c] <= counts'[d] + 1
  <2>1. \A i \in 1 .. n : counts'[i] = 1 + q \/ counts'[i] = 1 + q + 1
    BY <1>5, <1>8
  <2>2. q \in Nat /\ Conns = 1 .. n
    BY <1>2, <1>5
  <2> SUFFICES ASSUME NEW c \in 1 .. n, NEW d \in 1 .. n PROVE counts'[c] <= counts'[d] + 1
    BY <2>2
  <2>3. counts'[c] = 1 + q \/ counts'[c] = 1 + q + 1
    BY <2>1
  <2>4. counts'[d] = 1 + q \/ counts'[d] = 1 + q + 1
    BY <2>1
  <2> HIDE DEF n
  <2> QED BY <2>2, <2>3, <2>4
<1>11. Shared'
  BY <1>1, <1>2, <1>7, <1>9, <1>10 DEF Shared
<1> QED BY <1>1, <1>11, StartsEmpty

LEMMA UniformStreams ==
  ASSUME SInv, DealUniformly
  PROVE  SInv'
<1>1. /\ p' = p /\ stage = "deal" /\ p.assignment = "uniform" /\ p \in Params /\ Valid(p)
      /\ counts \in [Conns -> Nat \ {0}] /\ Sum(counts) <= p.frames
  BY DEF DealUniformly, SInv
<1>2. /\ p.connections \in Nat \ {0} /\ p.frames \in Nat
      /\ Conns = 1 .. p.connections /\ Conns' = Conns
  BY <1>1, ConnsAre DEF Conns
<1>3. counts \in Seq(Nat) /\ Len(counts) = p.connections
  BY <1>1, <1>2
<1>4. Sum(counts) \in Nat
  BY <1>3, SumSteps
<1>5. CASE Sum(counts) < p.frames
  <2>1. stage' = stage
    BY <1>5 DEF DealUniformly
  <2>2. PICK c \in Conns : counts' = [counts EXCEPT ![c] = @ + 1]
    BY <1>5 DEF DealUniformly
  <2>3. Sum(counts') = Sum(counts) + 1
    <3>1. c \in 1 .. Len(counts)
      BY <1>2, <1>3
    <3> QED BY <1>3, <2>2, <3>1, SumIncrement
  <2>4. counts' \in [Conns -> Nat \ {0}]
    <3>1. counts[c] + 1 \in Nat \ {0}
      BY <1>1
    <3> QED BY <1>1, <2>2, <3>1
  <2>5. Sum(counts') <= p.frames
    BY <1>2, <1>4, <1>5, <2>3
  <2> QED BY <1>1, <1>2, <2>1, <2>4, <2>5 DEF SInv, Dealt
<1>6. CASE ~(Sum(counts) < p.frames)
  <2>1. stage' = "fill" /\ segments' = [c \in Conns |-> <<>>] /\ counts' = counts
    BY <1>6 DEF DealUniformly
  <2>2. Sum(counts) = p.frames
    BY <1>1, <1>2, <1>4, <1>6
  <2>3. p.assignment # "equal"
    BY <1>1
  <2>4. Shared'
    BY <1>1, <1>2, <2>1, <2>2, <2>3 DEF Shared
  <2> QED BY <1>1, <2>1, <2>4, StartsEmpty
<1> QED BY <1>5, <1>6

LEMMA FillingIs ==
  ASSUME SInv, stage = "fill", Unfilled # {}
  PROVE  Filling \in Conns /\ Cardinality(Frames(segments[Filling])) < counts[Filling]
<1>1. p \in Params /\ Valid(p)
  BY DEF SInv
<1>2. Conns \subseteq Nat
  BY <1>1, ConnsAre
<1>3. Filling \in Unfilled
  <2>1. Unfilled \in SUBSET Nat
    BY <1>2 DEF Unfilled
  <2> QED BY <2>1, LeastIn DEF Filling
<1> QED BY <1>3 DEF Unfilled

(* One more frame in the connection that is being filled. *)
LEMMA OneMoreFrame ==
  ASSUME SInv, stage = "fill", Unfilled # {}, UNCHANGED <<p, stage, counts>>,
         NEW new, segments' = [segments EXCEPT ![Filling] = new], Made(new),
         Cardinality(Frames(segments[Filling])) \in Nat,
         Cardinality(Frames(new)) = Cardinality(Frames(segments[Filling])) + 1
  PROVE  SInv'
<1>1. Shared /\ Fillings /\ Conns' = Conns /\ p \in Params /\ Valid(p)
  BY DEF SInv, Dealt, Conns
<1>2. Filling \in Conns /\ Cardinality(Frames(segments[Filling])) < counts[Filling]
  BY FillingIs
<1>3. counts[Filling] \in Nat
  BY <1>1, <1>2 DEF Shared
<1>4. Shared'
  BY <1>1 DEF Shared
<1>5. Cardinality(Frames(new)) <= counts[Filling]
  BY <1>2, <1>3
<1>6. DOMAIN segments' = Conns /\ \A c \in Conns : segments'[c] = IF c = Filling THEN new ELSE segments[c]
  BY <1>1 DEF Fillings
<1>7. ASSUME NEW c \in Conns
      PROVE  Made(segments'[c]) /\ Cardinality(Frames(segments'[c])) <= counts[c]
  <2>1. CASE c = Filling
    BY <1>5, <1>6, <2>1
  <2>2. CASE c # Filling
    BY <1>1, <1>6, <2>2 DEF Fillings
  <2> QED BY <2>1, <2>2
<1>8. Fillings'
  BY <1>1, <1>6, <1>7 DEF Fillings, Frames
<1> QED BY <1>1, <1>4, <1>8 DEF SInv, Dealt

LEMMA SessionStreams ==
  ASSUME SInv, FillSession
  PROVE  SInv'
<1>1. /\ stage = "fill" /\ Unfilled # {} /\ segments[Filling] = <<>>
      /\ UNCHANGED <<p, stage, counts>> /\ p \in Params /\ Valid(p)
  BY DEF FillSession, SInv
<1>2. PICK whole \in p.lengths :
        segments' = [segments EXCEPT ![Filling] =
                       <<Frame("session", "none", whole, whole, whole - Overhead)>>]
  BY DEF FillSession
<1> DEFINE new == <<Frame("session", "none", whole, whole, whole - Overhead)>>
<1>3. whole \in Nat
  BY <1>1, ParamsAssumption
<1>4. Made(new) /\ Frames(new) = {1}
  BY <1>1, <1>2, <1>3, SessionMade
<1>5. segments' = [segments EXCEPT ![Filling] = new]
  BY <1>2
<1> HIDE DEF new
<1>6. Frames(segments[Filling]) = {}
  <2>1. Frames(<<>>) = {}
    BY NoList, ListIs DEF Frames
  <2> QED BY <1>1, <2>1
<1>7. Cardinality(Frames(new)) = 1 /\ Cardinality(Frames(segments[Filling])) = 0
  BY <1>4, <1>6, FS_EmptySet, FS_Singleton
<1>8. /\ Cardinality(Frames(segments[Filling])) \in Nat
      /\ Cardinality(Frames(new)) = Cardinality(Frames(segments[Filling])) + 1
  BY <1>7
<1> QED BY <1>1, <1>4, <1>5, <1>8, OneMoreFrame

LEMMA FrameStreams ==
  ASSUME SInv, FillFrame
  PROVE  SInv'
<1>1. /\ stage = "fill" /\ Unfilled # {} /\ segments[Filling] # <<>>
      /\ UNCHANGED <<p, stage, counts>> /\ p \in Params /\ Valid(p)
  BY DEF FillFrame, SInv
<1>2. PICK run \in GarbageRuns, type \in FrameTypes(conns[Filling]), u \in 0 .. PPM - 1,
           whole \in p.lengths :
        \E frame \in MakeFrames(type, Fault(u, Eligible(conns[Filling], type)), whole) :
          segments' = [segments EXCEPT ![Filling] = @ \o run \o <<frame>>]
  BY DEF FillFrame
<1>10. PICK frame \in MakeFrames(type, Fault(u, Eligible(conns[Filling], type)), whole) :
         segments' = [segments EXCEPT ![Filling] = @ \o run \o <<frame>>]
  BY <1>2
<1>3. whole \in Nat
  BY <1>1, ParamsAssumption
<1>4. WellMade(frame) /\ frame.kind = "frame" /\ frame.type = type
  <2>1. PICK fault : fault = Fault(u, Eligible(conns[Filling], type))
    OBVIOUS
  <2>2. frame \in MakeFrames(type, fault, whole)
    BY <1>10, <2>1
  <2> QED BY <1>1, <1>2, <1>3, <2>2, FrameMade
<1>5. type # "session"
  BY <1>2 DEF FrameTypes
<1>6. Filling \in Conns
  BY <1>1, FillingIs
<1>7. Made(segments[Filling]) /\ Filling \in DOMAIN segments
  BY <1>1, <1>6 DEF SInv, Dealt, Fillings
<1> DEFINE new == segments[Filling] \o run \o <<frame>>
<1>8. /\ Made(new)
      /\ Cardinality(Frames(segments[Filling])) \in Nat
      /\ Cardinality(Frames(new)) = Cardinality(Frames(segments[Filling])) + 1
  <2>1. PICK segs : segs = segments[Filling]
    OBVIOUS
  <2>2. LET n == segs \o run \o <<frame>> IN
         /\ Made(n)
         /\ Cardinality(Frames(segs)) \in Nat
         /\ Cardinality(Frames(n)) = Cardinality(Frames(segs)) + 1
    BY <1>1, <1>2, <1>4, <1>5, <1>7, <2>1, FrameAdded
  <2> QED BY <2>1, <2>2
<1>9. segments' = [segments EXCEPT ![Filling] = new]
  BY <1>7, <1>10
<1> HIDE DEF new
<1> QED BY <1>1, <1>8, <1>9, OneMoreFrame

(* The filling ends with every frame made. *)
LEMMA FilledStreams ==
  ASSUME SInv, Filled
  PROVE  SInv'
<1>1. /\ UNCHANGED <<p, counts, segments>> /\ stage = "fill" /\ stage' = "cut" /\ Unfilled = {}
      /\ Conns' = Conns /\ Shared /\ Fillings
  BY DEF Filled, SInv, Dealt, Conns
<1>2. ASSUME NEW c \in Conns PROVE Cardinality(Frames(segments[c])) = counts[c]
  <2>1. ~(Cardinality(Frames(segments[c])) < counts[c]) /\ Cardinality(Frames(segments[c])) <= counts[c]
    BY <1>1 DEF Unfilled, Fillings
  <2>2. counts[c] \in Nat
    BY <1>1 DEF Shared
  <2>3. Cardinality(Frames(segments[c])) \in Nat
    <3>1. Made(segments[c])
      BY <1>1 DEF Fillings
    <3>2. Frames(segments[c]) \subseteq 1 .. Len(segments[c]) /\ Len(segments[c]) \in Nat
      BY <3>1, ListIs DEF Made, Frames
    <3>3. IsFiniteSet(1 .. Len(segments[c]))
      BY <3>2, FS_Interval
    <3> QED BY <3>2, <3>3, FS_Subset, FS_CardinalityType
  <2> QED BY <2>1, <2>2, <2>3
<1> QED BY <1>1, <1>2 DEF SInv, Dealt, Shared, Fillings, Frames

(* A draw below a positive number that next64 has room for returns. *)
LEMMA LimitIs ==
  ASSUME NEW n \in Nat, n >= 1, n <= Draws
  PROVE  Returns(n)
<1>1. Draws \in Nat
  BY NumbersAssumption
<1>2. Draws % n \in 0 .. n - 1
  BY <1>1
<1> QED BY <1>1, <1>2 DEF Returns, Limit

LEMMA DrawsReturn ==
  ASSUME p \in Params, Valid(p), WithinDraws(p)
  PROVE  /\ \A protocol : ConnectionDrawn(protocol)
         /\ \A run : GarbageDrawn(run)
         /\ \A protocol, fault : TypeDrawn(protocol, fault)
<1>1. ASSUME NEW t \in Tables PROVE Returns(p.sums[t])
  <2>1. p.sums[t] \in Nat
    BY ParamsAssumption
  <2>2. p.sums[t] > 0 /\ p.sums[t] <= Draws
    BY DEF Valid, Weighted, WithinDraws
  <2> QED BY <2>1, <2>2, LimitIs
<1>2. Returns(p.garbage.length[2] - p.garbage.length[1] + 1)
  <2>1. p.garbage.length \in Nat \X Nat
    BY ParamsAssumption
  <2>2. p.garbage.length[1] \in Nat /\ p.garbage.length[2] \in Nat /\ Draws \in Nat
    BY <2>1, NumbersAssumption
  <2>3. /\ p.garbage.length[1] <= p.garbage.length[2]
        /\ p.garbage.length[2] - p.garbage.length[1] < Draws
    BY DEF Valid, WithinDraws
  <2>4. PICK n \in Nat : n = p.garbage.length[2] - p.garbage.length[1] + 1 /\ n >= 1 /\ n <= Draws
    BY <2>2, <2>3
  <2> QED BY <2>4, LimitIs
<1>3. /\ Returns(p.sums["protocols"]) /\ Returns(p.sums["gt06"]) /\ Returns(p.sums["delimiters"])
      /\ Returns(p.sums["versions"]) /\ Returns(p.sums["jt808"])
  BY <1>1 DEF Tables
<1> QED BY <1>2, <1>3 DEF ConnectionDrawn, GarbageDrawn, TypeDrawn

(* A run only spins on a file past the bounds. *)
LEMMA SpinStreams ==
  ASSUME SInv, Spin
  PROVE  SInv'
<1>1. p' = p /\ p \in Params /\ Valid(p) /\ stage' = "spins"
  BY DEF Spin, SInv
<1>2. ~WithinDraws(p)
  <2> SUFFICES ASSUME WithinDraws(p) PROVE FALSE
    OBVIOUS
  <2> QED BY <1>1, DrawsReturn DEF Spin
<1>3. ~WithinDraws(p')
  BY <1>1, <1>2
<1> QED BY <1>1, <1>3 DEF SInv, Dealt

LEMMA StreamsStep == SInv /\ [Next]_vars => SInv'
<1> SUFFICES ASSUME SInv, [Next]_vars PROVE SInv'
  OBVIOUS
<1>1. CASE Validate
  BY <1>1 DEF Validate, SInv, Dealt
<1>2. CASE Connect
  BY <1>2, ConnectStreams
<1>3. CASE DealEqually
  BY <1>3, EqualStreams
<1>4. CASE DealUniformly
  BY <1>4, UniformStreams
<1>5. CASE FillSession
  BY <1>5, SessionStreams
<1>6. CASE FillFrame
  BY <1>6, FrameStreams
<1>7. CASE Filled
  BY <1>7, FilledStreams
<1>8. CASE Cut \/ CutAll \/ TakeTurn \/ Write
  <2>1. /\ UNCHANGED <<p, counts, segments>> /\ Conns' = Conns
        /\ stage \in {"cut", "interleave"} /\ stage' \in {"cut", "interleave", "written"}
    BY <1>8 DEF Cut, CutAll, TakeTurn, Write, Conns
  <2> QED BY <2>1 DEF SInv, Dealt, Shared, Fillings, Frames
<1>9. CASE Ended \/ UNCHANGED vars
  <2>1. UNCHANGED <<p, stage, counts, segments>> /\ Conns' = Conns
    BY <1>9 DEF Ended, vars, Conns
  <2> QED BY <2>1 DEF SInv, Dealt, Shared, Fillings, Frames
<1>10. CASE Spin
  BY <1>10, SpinStreams
<1> QED BY <1>1, <1>2, <1>3, <1>4, <1>5, <1>6, <1>7, <1>8, <1>9, <1>10 DEF Next

LEMMA RulesFollow == SInv => StreamsAsRuled
<1> SUFFICES ASSUME SInv PROVE StreamsAsRuled
  OBVIOUS
<1>1. ASSUME stage = "deal", NEW c \in DOMAIN conns, NEW type \in {"binary", "sentence"}
      PROVE  RatesExact(Eligible(conns[c], type))
  <2>1. PICK eligible : eligible = Eligible(conns[c], type)
    OBVIOUS
  <2>2. RatesExact(eligible)
    BY <1>1, RatesAreExact DEF SInv
  <2> QED BY <2>1, <2>2
<1>2. ASSUME stage \in Dealt
      PROVE  /\ Sum(counts) = p.frames
             /\ p.assignment = "equal" => \A c, d \in Conns : counts[c] <= counts[d] + 1
  BY <1>2 DEF SInv, Shared
<1>3. ASSUME stage \in Dealt, NEW c \in Conns, NEW i \in DOMAIN segments[c]
      PROVE  LET seg == segments[c][i] IN
            /\ seg.type = "session" <=> i = 1
            /\ seg.kind = "garbage" =>
                 i < Len(segments[c]) /\ segments[c][i - 1].kind = "frame"
                                      /\ segments[c][i + 1].kind = "frame"
            /\ seg.kind = "frame" => seg.field \in 0 .. FieldLimit
            /\ seg.fault = "length_disagreement" =>
                 seg.field - (seg.whole - Overhead) \in (-4 .. 4) \ {0}
  <2>1. Made(segments[c])
    BY <1>3 DEF SInv, Fillings
  <2>2. i \in 1 .. Len(segments[c]) /\ Len(segments[c]) \in Nat
    BY <1>3, <2>1, ListIs DEF Made
  <2>3. WellMade(segments[c][i]) /\ (segments[c][i].type = "session" <=> i = 1)
    BY <2>1, <2>2 DEF Made
  <2>4. segments[c][i].kind = "garbage" =>
          i < Len(segments[c]) /\ segments[c][i - 1].kind = "frame"
                               /\ segments[c][i + 1].kind = "frame"
    BY <2>1, <2>2 DEF Made
  <2>5. segments[c][i].fault = "length_disagreement" => segments[c][i].kind = "frame"
    BY <2>3 DEF WellMade
  <2> QED BY <2>3, <2>4, <2>5 DEF WellMade
<1>4. ASSUME stage \in Dealt \ {"fill"}, NEW c \in Conns
      PROVE  Cardinality(Frames(segments[c])) = counts[c]
  BY <1>4 DEF SInv
<1> QED BY <1>1, <1>2, <1>3, <1>4 DEF StreamsAsRuled

(* Rules R2, R4, R15 and R16 for every parameter file that validate() lets *)
(* through, any number of connections and frames, and every draw.          *)
THEOREM RulesKept == Spec => []StreamsAsRuled
<1>1. Spec => []SInv
  BY InitSInv, StreamsStep, PTL DEF Spec
<1> QED BY <1>1, RulesFollow, PTL

(* Within the bounds on weights and garbage.length no draw of the          *)
(* generator is ever one that cannot return: what validate() leaves        *)
(* unchecked there is all that can make below() loop for ever.             *)
THEOREM NeverSpins == Spec => [](WithinDraws(p) => stage # "spins")
<1>1. Spec => []SInv
  BY InitSInv, StreamsStep, PTL DEF Spec
<1>2. SInv => (WithinDraws(p) => stage # "spins")
  BY DEF SInv
<1> QED BY <1>1, <1>2, PTL

--------------------------------------------------------------------------------
(* What check.py reads back of a connection, chunk by chunk. *)

Handed == {d \in [conn : Nat, from : Nat, to : Nat] : d.from <= d.to}
Reading == [stream : Seq(Int), sizes : Seq(Int)]
Nothing == [stream |-> <<>>, sizes |-> <<>>]
Heard(s, d, c) ==
  IF d.conn = c
    THEN [stream |-> s.stream \o Bytes(d), sizes |-> Append(s.sizes, d.to - d.from)]
    ELSE s

ReadOf(o, c) ==
  FoldLeft(LAMBDA s, d :
             IF d.conn = c
               THEN [stream |-> s.stream \o Bytes(d), sizes |-> Append(s.sizes, d.to - d.from)]
               ELSE s,
           [stream |-> <<>>, sizes |-> <<>>], o)

Reads(g, o, c) ==
  g = [t \in SUBSET DOMAIN o |-> IF t = {} THEN Nothing ELSE Heard(g[t \ {Max(t)}], o[Max(t)], c)]

LEMMA ReadIs == ASSUME NEW o, NEW c PROVE ReadOf(o, c) = (CHOOSE g : Reads(g, o, c))[DOMAIN o]
BY DEF ReadOf, FoldLeft, MapThenFoldSet, Reads, Nothing, Heard

LEMMA HeardIn ==
  ASSUME NEW s \in Reading, NEW d \in Handed, NEW c
  PROVE  Heard(s, d, c) \in Reading
<1>1. d.from \in Nat /\ d.to \in Nat /\ d.from <= d.to /\ d.to - d.from \in Nat
  BY DEF Handed
<1>2. Bytes(d) \in Seq(Int)
  <2>1. \A i \in 1 .. d.to - d.from : d.from + i - 1 \in Int
    BY <1>1
  <2> QED BY <1>1, <2>1 DEF Bytes
<1>3. s.stream \in Seq(Int) /\ s.sizes \in Seq(Int)
  BY DEF Reading
<1>4. s.stream \o Bytes(d) \in Seq(Int) /\ Append(s.sizes, d.to - d.from) \in Seq(Int)
  <2>1. d.to - d.from \in Int
    BY <1>1
  <2> QED BY <1>2, <1>3, <2>1
<1> QED BY <1>4 DEF Heard, Reading

ReadPrefixes(h, o, c) ==
  /\ h \in [0 .. Len(o) -> Reading] /\ h[0] = Nothing
  /\ \A i \in 0 .. Len(o) - 1 : h[i + 1] = Heard(h[i], o[i + 1], c)

LEMMA ReadPrefixed ==
  ASSUME NEW o \in Seq(Handed), NEW c
  PROVE  \E h : ReadPrefixes(h, o, c) /\ ReadOf(o, c) = h[Len(o)]
<1> DEFINE n == Len(o)
           E == [x \in Reading \X (1 .. n) |-> Heard(x[1], o[x[2]], c)]
<1>1. n \in Nat /\ DOMAIN o = 1 .. n
  OBVIOUS
<1>2. \A i \in 1 .. n : o[i] \in Handed
  BY ElementOfSeq
<1>3. \A v \in Reading, i \in 1 .. n : Heard(v, o[i], c) \in Reading
  BY <1>2, HeardIn
<1>4. E \in [Reading \X (1 .. n) -> Reading]
      /\ \A v \in Reading, i \in 1 .. n : E[<<v, i>>] = Heard(v, o[i], c)
  BY <1>3
<1>5. Nothing \in Reading
  BY DEF Nothing, Reading
<1> HIDE DEF E, n
<1>6. PICK f : IsFold(f, n, Reading, Nothing, E)
  BY <1>1, <1>4, <1>5, FoldExists
<1>7. Reads(f, o, c)
  <2>1. ASSUME NEW t \in SUBSET (1 .. n)
        PROVE  f[t] = IF t = {} THEN Nothing ELSE Heard(f[t \ {Max(t)}], o[Max(t)], c)
    <3>1. CASE t = {}
      BY <1>6, <3>1 DEF IsFold
    <3>2. CASE t # {}
      <4>1. Max(t) \in 1 .. n /\ t \ {Max(t)} \in SUBSET (1 .. n)
        BY <1>1, <3>2, MaxIn
      <4> QED BY <1>4, <1>6, <3>2, <4>1 DEF IsFold
    <3> QED BY <3>1, <3>2
  <2>2. f \in [SUBSET (1 .. n) -> Reading]
    BY <1>6 DEF IsFold
  <2> QED BY <1>1, <2>1, <2>2 DEF Reads
<1>8. PICK g : Reads(g, o, c) /\ ReadOf(o, c) = g[1 .. n]
  BY <1>1, <1>7, ReadIs
<1>9. g[{}] = Nothing /\ \A i \in 0 .. n - 1 : g[1 .. i + 1] = Heard(g[1 .. i], o[i + 1], c)
  <2>1. \A t \in SUBSET (1 .. n) :
          g[t] = IF t = {} THEN Nothing ELSE Heard(g[t \ {Max(t)}], o[Max(t)], c)
    BY <1>1, <1>8 DEF Reads
  <2>2. g[{}] = Nothing
    BY <2>1
  <2>3. ASSUME NEW i \in 0 .. n - 1 PROVE g[1 .. i + 1] = Heard(g[1 .. i], o[i + 1], c)
    <3>1. /\ 1 .. i + 1 \in SUBSET (1 .. n) /\ 1 .. i + 1 # {}
          /\ Max(1 .. i + 1) = i + 1 /\ (1 .. i + 1) \ {Max(1 .. i + 1)} = 1 .. i
      BY <1>1, MaxInterval
    <3>2. g[1 .. i + 1] = Heard(g[(1 .. i + 1) \ {Max(1 .. i + 1)}], o[Max(1 .. i + 1)], c)
      BY <2>1, <3>1
    <3> QED BY <3>1, <3>2
  <2> QED BY <2>2, <2>3
<1> DEFINE h == [i \in 0 .. n |-> g[1 .. i]]
           T == {i \in Nat : i <= n => h[i] \in Reading}
<1>10. h[0] = Nothing /\ \A i \in 0 .. n - 1 : h[i + 1] = Heard(h[i], o[i + 1], c)
  <2>1. 1 .. 0 = {} /\ 0 \in 0 .. n /\ \A i \in 0 .. n - 1 : i + 1 \in 0 .. n /\ i \in 0 .. n
    BY <1>1
  <2> QED BY <1>9, <2>1
<1>11. h = [i \in 0 .. n |-> h[i]] /\ h[n] = g[1 .. n]
  BY <1>1
<1> HIDE DEF h
<1>12. T = Nat
  <2>1. T \in SUBSET Nat /\ 0 \in T
    BY <1>5, <1>10
  <2>2. ASSUME NEW i \in T PROVE i + 1 \in T
    <3> SUFFICES ASSUME i + 1 <= n PROVE h[i + 1] \in Reading
      OBVIOUS
    <3>1. i \in 0 .. n - 1 /\ h[i] \in Reading /\ i + 1 \in 1 .. n
      BY <1>1
    <3>2. h[i + 1] = Heard(h[i], o[i + 1], c) /\ o[i + 1] \in Handed
      BY <1>2, <1>10, <3>1
    <3> QED BY <3>1, <3>2, HeardIn
  <2> HIDE DEF T
  <2> QED BY <2>1, <2>2, Induct
<1>13. h \in [0 .. n -> Reading]
  <2>1. \A i \in 0 .. n : h[i] \in Reading
    BY <1>12
  <2> QED BY <1>11, <2>1
<1> QED BY <1>8, <1>10, <1>11, <1>13 DEF n, ReadPrefixes

(* One chunk more. *)
LEMMA ReadAppend ==
  ASSUME NEW o \in Seq(Handed), NEW e \in Handed, NEW c
  PROVE  ReadOf(Append(o, e), c) = Heard(ReadOf(o, c), e, c) /\ ReadOf(o, c) \in Reading
<1> DEFINE w == Append(o, e)
           n == Len(o)
<1>1. w \in Seq(Handed) /\ Len(w) = n + 1 /\ n \in Nat /\ w[n + 1] = e
      /\ \A i \in 1 .. n : w[i] = o[i]
  OBVIOUS
<1> HIDE DEF w
<1>2. PICK h : ReadPrefixes(h, o, c) /\ ReadOf(o, c) = h[n]
  BY ReadPrefixed
<1>3. PICK k : ReadPrefixes(k, w, c) /\ ReadOf(w, c) = k[n + 1]
  BY <1>1, ReadPrefixed
<1> HIDE DEF n
<1> DEFINE T == {i \in Nat : i <= n => h[i] = k[i]}
<1>4. T \in SUBSET Nat /\ 0 \in T
  BY <1>2, <1>3 DEF ReadPrefixes
<1>5. ASSUME NEW i \in T PROVE i + 1 \in T
  <2> SUFFICES ASSUME i + 1 <= n PROVE h[i + 1] = k[i + 1]
    OBVIOUS
  <2>1. h[i] = k[i] /\ i + 1 \in 1 .. n /\ i \in 0 .. n - 1 /\ i \in 0 .. (n + 1) - 1
    BY <1>1
  <2>2. h[i + 1] = Heard(h[i], o[i + 1], c)
    BY <1>2, <2>1 DEF ReadPrefixes, n
  <2>3. k[i + 1] = Heard(k[i], w[i + 1], c)
    BY <1>1, <1>3, <2>1 DEF ReadPrefixes
  <2> QED BY <1>1, <2>1, <2>2, <2>3
<1>6. T = Nat
  <2> HIDE DEF T
  <2> QED BY <1>4, <1>5, Induct
<1>7. h[n] = k[n]
  BY <1>1, <1>6
<1>8. k[n + 1] = Heard(k[n], w[n + 1], c)
  <2>1. n \in 0 .. (n + 1) - 1
    BY <1>1
  <2> QED BY <1>1, <1>3, <2>1 DEF ReadPrefixes
<1>9. h[n] \in Reading
  <2>1. n \in 0 .. n
    BY <1>1
  <2> QED BY <1>2, <2>1 DEF ReadPrefixes, n
<1> QED BY <1>1, <1>2, <1>3, <1>7, <1>8, <1>9 DEF w

LEMMA ReadNone == ASSUME NEW c PROVE ReadOf(<<>>, c) = Nothing
<1>1. <<>> \in Seq(Handed) /\ Len(<<>>) = 0
  OBVIOUS
<1>2. PICK h : ReadPrefixes(h, <<>>, c) /\ ReadOf(<<>>, c) = h[Len(<<>>)]
  BY <1>1, ReadPrefixed
<1> QED BY <1>1, <1>2 DEF ReadPrefixes

LEMMA ReadBackIs == \A c : ReadBack(c) = ReadOf(order, c)
BY DEF ReadBack, ReadOf

LEMMA ReadBackNext == \A c : ReadBack(c)' = ReadOf(order', c)
<1>1. (\A c : ReadBack(c) = ReadOf(order, c))'
  BY ReadBackIs, PTL
<1> QED BY <1>1

--------------------------------------------------------------------------------
(* The chunks. *)

(* The chunks of a stream of `size` bytes, cut so far: end to end from the *)
(* stream's start, each of a size that may be drawn or what was left.      *)
Chained(ch, size) ==
  /\ ch \in Seq([from : Nat, to : Nat])
  /\ \A i \in 1 .. Len(ch) :
       /\ ch[i].from = IF i = 1 THEN 0 ELSE ch[i - 1].to
       /\ ch[i].from < ch[i].to /\ ch[i].to <= size
       /\ ch[i].to - ch[i].from <= p.chunk_size[2]
       /\ ch[i].to - ch[i].from >= p.chunk_size[1] \/ ch[i].to = size

ChunksInv ==
  /\ stage \in {"cut", "interleave", "written"} =>
       DOMAIN per_conn = Conns /\ \A c \in Conns : Chained(per_conn[c], StreamLength(c))
  /\ stage \in {"interleave", "written"} => \A c \in Conns : CutTo(c) = StreamLength(c)

LEMMA StreamSizes ==
  ASSUME SInv, stage \in Dealt \ {"fill"}, NEW c \in Conns
  PROVE  /\ IsList(segments[c]) /\ segments[c] # <<>>
         /\ Lengths(segments[c]) \in Seq(Nat) /\ Len(Lengths(segments[c])) = Len(segments[c])
         /\ \A i \in 1 .. Len(segments[c]) :
              Lengths(segments[c])[i] = segments[c][i].length /\ segments[c][i].length \in Nat \ {0}
         /\ StreamLength(c) \in Nat \ {0}
<1> DEFINE segs == segments[c]
           s == Lengths(segs)
           n == Len(segs)
<1>1. Made(segs) /\ counts[c] \in Nat \ {0} /\ Cardinality(Frames(segs)) = counts[c]
  BY DEF SInv, Shared, Fillings
<1>2. IsList(segs) /\ n \in Nat /\ DOMAIN segs = 1 .. n /\ (segs = <<>> <=> n = 0)
  BY <1>1, ListIs DEF Made
<1>3. segs # <<>>
  <2> SUFFICES ASSUME segs = <<>> PROVE FALSE
    OBVIOUS
  <2>1. Frames(segs) = {}
    BY <1>2 DEF Frames
  <2>2. Cardinality(Frames(segs)) = 0
    BY <2>1, FS_EmptySet
  <2> QED BY <1>1, <2>2
<1>4. \A i \in 1 .. n : segs[i].length \in Nat \ {0}
  BY <1>1 DEF Made, WellMade
<1>5. s = [i \in 1 .. n |-> segs[i].length]
  BY <1>2 DEF Lengths
<1> HIDE DEF segs, s
<1>6. s \in Seq(Nat) /\ Len(s) = n /\ \A i \in 1 .. n : s[i] = segs[i].length
  BY <1>2, <1>4, <1>5
<1>7. Sum(s) \in Nat \ {0}
  <2>1. 0 \in 0 .. Len(s) - 1 /\ 0 + 1 = 1 /\ 1 \in 0 .. Len(s) /\ Len(s) \in 1 .. Len(s)
        /\ 1 \in 1 .. n
    BY <1>2, <1>3, <1>6
  <2>2. Before(s, 0 + 1) = Before(s, 0) + s[0 + 1] /\ Before(s, 0) = 0
    BY <1>6, <2>1, SumSteps
  <2>3. s[1] \in Nat \ {0}
    BY <1>4, <1>6, <2>1
  <2>4. Before(s, 1) <= Before(s, Len(s)) /\ Before(s, Len(s)) = Sum(s) /\ Sum(s) \in Nat
        /\ Before(s, 1) \in Nat
    BY <1>6, <2>1, SumGrows, SumSteps
  <2>5. Before(s, 1) = s[1]
    BY <2>2, <2>3
  <2> QED BY <2>3, <2>4, <2>5
<1> QED BY <1>2, <1>3, <1>4, <1>6, <1>7 DEF StreamLength, segs, s, n

LEMMA CutToIs ==
  ASSUME NEW c \in Conns, NEW size \in Nat, Chained(per_conn[c], size)
  PROVE  /\ CutTo(c) \in Nat /\ CutTo(c) <= size
         /\ Len(per_conn[c]) \in Nat
         /\ CutTo(c) = IF Len(per_conn[c]) = 0 THEN 0 ELSE per_conn[c][Len(per_conn[c])].to
<1> DEFINE ch == per_conn[c]
           n == Len(ch)
<1>1. ch \in Seq([from : Nat, to : Nat]) /\ n \in Nat /\ (ch = <<>> <=> n = 0)
  BY DEF Chained
<1>2. CASE n = 0
  BY <1>1, <1>2 DEF CutTo
<1>3. CASE n # 0
  <2>1. n \in 1 .. n
    BY <1>1, <1>3
  <2>2. ch[n] \in [from : Nat, to : Nat] /\ ch[n].to <= size
    BY <1>1, <2>1, ElementOfSeq DEF Chained
  <2>3. CutTo(c) = ch[n].to
    BY <1>1, <1>3 DEF CutTo, Last
  <2> QED BY <1>1, <1>3, <2>2, <2>3
<1> QED BY <1>2, <1>3

LEMMA CutChunks ==
  ASSUME SInv, ChunksInv, Cut
  PROVE  ChunksInv'
<1>1. /\ stage = "cut" /\ Uncut # {} /\ UNCHANGED <<p, stage, segments>> /\ Conns' = Conns
      /\ p \in Params /\ Valid(p) /\ stage \in Dealt \ {"fill"}
  BY DEF Cut, SInv, Conns, Dealt
<1>2. PICK n \in p.chunk_size[1] .. p.chunk_size[2] :
        per_conn' = [per_conn EXCEPT ![Cutting] =
                       Append(@, [from |-> CutTo(Cutting), to |-> ChunkEnd(Cutting, n)])]
  BY DEF Cut
<1>3. Cutting \in Conns /\ CutTo(Cutting) < StreamLength(Cutting)
  <2>1. Conns \subseteq Nat
    BY <1>1, ConnsAre
  <2>2. Uncut \in SUBSET Nat
    BY <2>1 DEF Uncut
  <2>3. Cutting \in Uncut
    BY <1>1, <2>2, LeastIn DEF Cutting
  <2> QED BY <2>3 DEF Uncut
<1>4. PICK c \in Conns : c = Cutting
  BY <1>3
<1> DEFINE size == StreamLength(c)
           from == CutTo(c)
           to == ChunkEnd(c, n)
           ch == per_conn[c]
           e == [from |-> from, to |-> to]
           k == Len(ch)
<1>5. size \in Nat /\ Chained(ch, size) /\ DOMAIN per_conn = Conns
  BY <1>1, StreamSizes DEF ChunksInv
<1>6. from \in Nat /\ from < size /\ k \in Nat /\ from = IF k = 0 THEN 0 ELSE ch[k].to
  BY <1>3, <1>4, <1>5, CutToIs
<1>7. n \in Nat /\ n >= 1 /\ n >= p.chunk_size[1] /\ n <= p.chunk_size[2]
      /\ p.chunk_size[1] \in Nat /\ p.chunk_size[2] \in Nat
  <2>1. p.chunk_size \in Nat \X Nat
    BY <1>1, ParamsAssumption
  <2> QED BY <1>1, <1>2, <2>1 DEF Valid
<1>8. to = IF from + n > size THEN size ELSE from + n
  BY DEF ChunkEnd
<1> HIDE DEF from, to, size
<1>9. /\ to \in Nat /\ from < to /\ to <= size
      /\ to - from <= p.chunk_size[2]
      /\ to - from >= p.chunk_size[1] \/ to = size
  <2> DEFINE lo == p.chunk_size[1]
             hi == p.chunk_size[2]
  <2>1. n \in Nat /\ n >= 1 /\ n >= lo /\ n <= hi /\ lo \in Nat /\ hi \in Nat
    BY <1>7
  <2>2. size \in Nat /\ from \in Nat /\ from < size
    BY <1>5, <1>6
  <2> HIDE DEF lo, hi
  <2>3. to \in Nat /\ from < to /\ to <= size /\ to - from <= hi /\ (to - from >= lo \/ to = size)
    BY ONLY <1>8, <2>1, <2>2
  <2> QED BY <2>3 DEF lo, hi
<1>10. e \in [from : Nat, to : Nat] /\ e.from = from /\ e.to = to
  BY <1>6, <1>9
<1> HIDE DEF e
<1>11. DOMAIN per_conn' = Conns
       /\ \A d \in Conns : per_conn'[d] = IF d = c THEN Append(ch, e) ELSE per_conn[d]
  BY <1>2, <1>4, <1>5 DEF e, from, to
<1> DEFINE new == Append(ch, e)
<1>12. Chained(new, size)
  <2>1. /\ ch \in Seq([from : Nat, to : Nat])
        /\ \A i \in 1 .. k :
             /\ ch[i].from = IF i = 1 THEN 0 ELSE ch[i - 1].to
             /\ ch[i].from < ch[i].to /\ ch[i].to <= size
             /\ ch[i].to - ch[i].from <= p.chunk_size[2]
             /\ ch[i].to - ch[i].from >= p.chunk_size[1] \/ ch[i].to = size
    BY <1>5 DEF Chained
  <2>2. /\ new \in Seq([from : Nat, to : Nat]) /\ Len(new) = k + 1
        /\ \A i \in 1 .. k : new[i] = ch[i]
        /\ new[k + 1] = e
    BY <1>10, <2>1, AppendProperties
  <2> HIDE DEF new, ch, k
  <2> SUFFICES ASSUME NEW i \in 1 .. k + 1
               PROVE  /\ new[i].from = IF i = 1 THEN 0 ELSE new[i - 1].to
                      /\ new[i].from < new[i].to /\ new[i].to <= size
                      /\ new[i].to - new[i].from <= p.chunk_size[2]
                      /\ new[i].to - new[i].from >= p.chunk_size[1] \/ new[i].to = size
    BY <2>2 DEF Chained
  <2>3. CASE i \in 1 .. k
    <3>1. i # 1 => i - 1 \in 1 .. k
      BY <1>6, <2>3
    <3> QED BY <2>1, <2>2, <2>3, <3>1
  <2>4. CASE i = k + 1
    <3>1. i # 1 => k \in 1 .. k /\ i - 1 = k /\ k # 0
      BY <1>6, <2>4
    <3>2. i = 1 => k = 0
      BY <1>6, <2>4
    <3>3. new[i] = e
      BY <2>2, <2>4
    <3>4. new[i].from = IF i = 1 THEN 0 ELSE new[i - 1].to
      <4>1. CASE i = 1
        BY <1>6, <1>10, <3>2, <3>3, <4>1
      <4>2. CASE i # 1
        <5>1. new[i - 1] = ch[k]
          BY <2>2, <3>1, <4>2
        <5> QED BY <1>6, <1>10, <3>1, <3>3, <4>2, <5>1
      <4> QED BY <4>1, <4>2
    <3> QED BY <1>9, <1>10, <3>3, <3>4
  <2> QED BY <1>6, <2>3, <2>4
<1>13. ASSUME NEW d \in Conns PROVE Chained(per_conn'[d], StreamLength(d))
  <2>1. CASE d = c
    BY <1>11, <1>12, <2>1 DEF size
  <2>2. CASE d # c
    BY <1>1, <1>11, <2>2 DEF ChunksInv
  <2> QED BY <2>1, <2>2
<1>14. \A d \in Conns : Chained(per_conn[d], StreamLength(d))'
  BY <1>1, <1>13 DEF Chained, StreamLength
<1> QED BY <1>1, <1>11, <1>14 DEF ChunksInv

LEMMA OtherChunks ==
  ASSUME SInv, ChunksInv, [Next]_vars, ~Cut
  PROVE  ChunksInv'
<1>1. CASE stage' \notin {"cut", "interleave", "written"}
  BY <1>1 DEF ChunksInv
<1>2. CASE Filled
  <2>1. /\ stage' = "cut" /\ per_conn' = [c \in Conns |-> <<>>] /\ Conns' = Conns
    BY <1>2 DEF Filled, Conns
  <2>2. \A c \in Conns : Chained(<<>>, StreamLength(c))'
    BY DEF Chained
  <2>3. \A c \in Conns : Chained(per_conn[c], StreamLength(c))'
    BY <2>1, <2>2
  <2> QED BY <2>1, <2>3 DEF ChunksInv
<1>3. CASE CutAll \/ TakeTurn \/ Write \/ Ended \/ UNCHANGED vars
  <2>1. /\ UNCHANGED <<p, segments, per_conn>> /\ Conns' = Conns
        /\ stage' \in {"cut", "interleave", "written"} => stage \in {"cut", "interleave", "written"}
        /\ stage' \in {"interleave", "written"} => stage \in {"interleave", "written"} \/ CutAll
    BY <1>3 DEF CutAll, TakeTurn, Write, Ended, vars, Conns
  <2>2. \A c : UNCHANGED <<StreamLength(c), CutTo(c)>>
    BY <2>1 DEF StreamLength, CutTo
  <2>3. ASSUME CutAll, NEW c \in Conns PROVE CutTo(c) = StreamLength(c)
    <3>1. ~(CutTo(c) < StreamLength(c)) /\ stage = "cut" /\ stage \in Dealt \ {"fill"}
      BY <2>3 DEF CutAll, Uncut, Dealt
    <3>2. StreamLength(c) \in Nat /\ Chained(per_conn[c], StreamLength(c))
      BY <3>1, StreamSizes DEF ChunksInv
    <3>3. CutTo(c) \in Nat /\ CutTo(c) <= StreamLength(c)
      BY <3>2, CutToIs
    <3> QED BY <3>1, <3>2, <3>3
  <2>4. ASSUME stage' \in {"cut", "interleave", "written"}, NEW c \in Conns
        PROVE  Chained(per_conn[c], StreamLength(c))'
    <3>1. Chained(per_conn[c], StreamLength(c))
      BY <2>1, <2>4 DEF ChunksInv
    <3> QED BY <2>1, <2>2, <3>1 DEF Chained
  <2>5. ASSUME stage' \in {"interleave", "written"}, NEW c \in Conns
        PROVE  CutTo(c)' = StreamLength(c)'
    BY <2>1, <2>2, <2>3, <2>5 DEF ChunksInv
  <2>6. stage' \in {"cut", "interleave", "written"} => DOMAIN per_conn' = Conns'
    BY <2>1 DEF ChunksInv
  <2> QED BY <2>1, <2>4, <2>5, <2>6 DEF ChunksInv
<1>4. CASE \/ Validate \/ Connect \/ DealEqually \/ DealUniformly \/ FillSession \/ FillFrame
            \/ Spin
  <2>1. stage' \notin {"cut", "interleave", "written"}
    BY <1>4 DEF Validate, Connect, DealEqually, DealUniformly, FillSession, FillFrame, Spin
  <2> QED BY <1>1, <2>1
<1> QED BY <1>2, <1>3, <1>4 DEF Next

--------------------------------------------------------------------------------
(* The order. *)

(* How far connection c's stream has been handed over. *)
Reach(c) == IF pos[c] = 0 THEN 0 ELSE per_conn[c][pos[c]].to

(* What is read back of the first n of the chunks ch, which end at r.      *)
Upto(r) == [i \in 1 .. r |-> i - 1]
Widths(ch, n) == [i \in 1 .. n |-> ch[i].to - ch[i].from]

(* Each chunk of the order is the i-th of its connection, which has had    *)
(* its turn.                                                               *)
IsChunk(d, c, i) == d.conn = c /\ d.from = per_conn[c][i].from /\ d.to = per_conn[c][i].to

ReadInv ==
  /\ stage \notin {"interleave", "written"} => order = <<>>
  /\ stage \in {"interleave", "written"} =>
       /\ order \in Seq(Handed)
       /\ \A c \in Conns : ReadBack(c) = [stream |-> Upto(Reach(c)), sizes |-> Widths(per_conn[c], pos[c])]
       /\ \A k \in 1 .. Len(order) : \A c \in Conns :
            order[k].conn = c => \E i \in 1 .. pos[c] : IsChunk(order[k], c, i)
       /\ \A c \in Conns : \A i \in 1 .. pos[c] : \E k \in 1 .. Len(order) : IsChunk(order[k], c, i)
  /\ stage = "written" => active = <<>>

LEMMA Extend ==
  ASSUME NEW r \in Nat, NEW t \in Nat, r <= t
  PROVE  Upto(r) \o [i \in 1 .. t - r |-> r + i - 1] = Upto(t)
<1> DEFINE a == Upto(r)
           b == [i \in 1 .. t - r |-> r + i - 1]
<1>1. a \in Seq(Int) /\ Len(a) = r /\ \A i \in 1 .. r : a[i] = i - 1
  BY DEF Upto
<1>2. b \in Seq(Int) /\ Len(b) = t - r /\ \A i \in 1 .. t - r : b[i] = r + i - 1
  <2>1. t - r \in Nat /\ \A i \in 1 .. t - r : r + i - 1 \in Int
    OBVIOUS
  <2> QED BY <2>1
<1> HIDE DEF a, b
<1>3. Len(a \o b) = t /\ a \o b \in Seq(Int)
  <2>1. a \o b \in Seq(Int) /\ Len(a \o b) = Len(a) + Len(b)
    BY <1>1, <1>2, ConcatProperties
  <2> QED BY <1>1, <1>2, <2>1
<1>4. ASSUME NEW i \in 1 .. t PROVE (a \o b)[i] = i - 1
  <2>1. CASE i <= r
    <3>1. i \in 1 .. r
      BY <2>1
    <3>2. (a \o b)[i] = a[i]
      BY <1>1, <1>2, <3>1, ConcatProperties
    <3> QED BY <1>1, <3>1, <3>2
  <2>2. CASE ~(i <= r)
    <3>1. i - r \in 1 .. t - r /\ r + (i - r) - 1 = i - 1
      BY <2>2
    <3>2. (a \o b)[i] = b[i - r]
      BY <1>1, <1>2, <2>2, <3>1
    <3> QED BY <1>2, <3>1, <3>2
  <2> QED BY <2>1, <2>2
<1>6. a \o b = [i \in 1 .. t |-> i - 1]
  <2> DEFINE w == a \o b
  <2>1. w \in Seq(Int) /\ Len(w) = t /\ \A i \in 1 .. t : w[i] = i - 1
    BY <1>3, <1>4
  <2> HIDE DEF w
  <2>2. w = [i \in 1 .. t |-> i - 1]
    BY <2>1
  <2> QED BY <2>2 DEF w
<1> QED BY <1>6 DEF a, b, Upto

LEMMA Widen ==
  ASSUME NEW ch \in Seq([from : Nat, to : Nat]), NEW n \in Nat, n < Len(ch)
  PROVE  Append(Widths(ch, n), ch[n + 1].to - ch[n + 1].from) = Widths(ch, n + 1)
<1>1. \A i \in 1 .. n + 1 : ch[i] \in [from : Nat, to : Nat]
  <2>1. \A i \in 1 .. n + 1 : i \in 1 .. Len(ch)
    OBVIOUS
  <2> QED BY <2>1, ElementOfSeq
<1>2. \A i \in 1 .. n + 1 : ch[i].to - ch[i].from \in Int
  BY <1>1
<1> DEFINE a == Widths(ch, n)
           e == ch[n + 1].to - ch[n + 1].from
           w == Append(a, e)
<1>3. a \in Seq(Int) /\ Len(a) = n /\ \A i \in 1 .. n : a[i] = ch[i].to - ch[i].from
  <2>1. \A i \in 1 .. n : ch[i].to - ch[i].from \in Int
    <3>1. \A i \in 1 .. n : i \in 1 .. n + 1
      OBVIOUS
    <3> QED BY <1>2, <3>1
  <2> QED BY <2>1 DEF Widths
<1>4. e \in Int
  <2>1. n + 1 \in 1 .. n + 1
    OBVIOUS
  <2> QED BY <1>2, <2>1
<1> HIDE DEF a
<1>5. w \in Seq(Int) /\ Len(w) = n + 1 /\ w[n + 1] = e /\ \A i \in 1 .. n : w[i] = a[i]
  <2> HIDE DEF e
  <2>1. /\ w \in Seq(Int) /\ Len(w) = Len(a) + 1 /\ w[Len(a) + 1] = e
        /\ \A i \in 1 .. Len(a) : w[i] = a[i]
    <3>1. a \in Seq(Int) /\ e \in Int
      BY <1>3, <1>4
    <3> QED BY <3>1
  <2> HIDE DEF w
  <2> QED BY <1>3, <2>1
<1> HIDE DEF w
<1>6. \A i \in 1 .. n + 1 : w[i] = ch[i].to - ch[i].from
  <2> SUFFICES ASSUME NEW i \in 1 .. n + 1 PROVE w[i] = ch[i].to - ch[i].from
    OBVIOUS
  <2>1. i \in 1 .. n \/ i = n + 1
    OBVIOUS
  <2> QED BY <1>3, <1>5, <2>1
<1>7. w = [i \in 1 .. n + 1 |-> w[i]]
  BY <1>5
<1>8. w = Widths(ch, n + 1)
  BY <1>6, <1>7 DEF Widths
<1> QED BY <1>8 DEF w, a

LEMMA NoneYet ==
  ASSUME NEW ch
  PROVE  Nothing = [stream |-> Upto(0), sizes |-> Widths(ch, 0)]
<1>1. Upto(0) = <<>> /\ Widths(ch, 0) = <<>>
  BY DEF Upto, Widths
<1> QED BY <1>1 DEF Nothing

DInv == IInv /\ SInv /\ ChunksInv /\ ReadInv

(* One turn: the next chunk of a connection with chunks left.              *)
LEMMA TurnIs ==
  ASSUME DInv, TakeTurn
  PROVE  \E c \in Conns :
           LET chunk == per_conn[c][pos[c] + 1]
               e == [conn |-> c, from |-> chunk.from, to |-> chunk.to]
           IN /\ pos[c] \in Nat /\ pos[c] < Len(per_conn[c]) /\ Len(per_conn[c]) \in Nat
              /\ per_conn[c] \in Seq([from : Nat, to : Nat])
              /\ Reach(c) \in Nat /\ chunk.from = Reach(c) /\ chunk.from \in Nat /\ chunk.to \in Nat
              /\ chunk.from < chunk.to /\ chunk.to <= StreamLength(c)
              /\ e \in Handed /\ order' = Append(order, e)
              /\ pos' = [pos EXCEPT ![c] = @ + 1]
<1>1. stage = "interleave" /\ Queue /\ ChunksInv
  BY DEF DInv, IInv, TakeTurn
<1>2. PICK k \in 1 .. Len(active) :
        LET c == active[k]
            chunk == per_conn[c][pos[c] + 1]
        IN /\ order' = Append(order, [conn |-> c, from |-> chunk.from, to |-> chunk.to])
           /\ pos' = [pos EXCEPT ![c] = @ + 1]
  <2>1. active # <<>> /\ active \in Seq(Conns)
    BY <1>1 DEF TakeTurn, Queue
  <2>2. 1 \in 1 .. Len(active)
    BY <2>1
  <2>3. Turn \subseteq 1 .. Len(active)
    BY <2>2 DEF Turn
  <2> QED BY <2>3 DEF TakeTurn
<1>3. PICK c \in Conns : c = active[k]
  BY <1>1 DEF Queue
<1> DEFINE ch == per_conn[c]
           chunk == ch[pos[c] + 1]
           e == [conn |-> c, from |-> chunk.from, to |-> chunk.to]
<1>4. pos[c] \in Nat /\ pos[c] < Len(ch) /\ Len(ch) \in Nat
  BY <1>1, <1>3 DEF Queue
<1>5. /\ ch \in Seq([from : Nat, to : Nat])
      /\ \A i \in 1 .. Len(ch) :
           /\ ch[i].from = IF i = 1 THEN 0 ELSE ch[i - 1].to
           /\ ch[i].from < ch[i].to /\ ch[i].to <= StreamLength(c)
  BY <1>1 DEF ChunksInv, Chained
<1> HIDE DEF ch
<1>6. pos[c] + 1 \in 1 .. Len(ch) /\ (pos[c] # 0 => pos[c] \in 1 .. Len(ch))
      /\ (pos[c] + 1) - 1 = pos[c] /\ (pos[c] + 1 = 1 <=> pos[c] = 0)
  BY <1>4
<1>7. chunk \in [from : Nat, to : Nat] /\ (pos[c] # 0 => ch[pos[c]] \in [from : Nat, to : Nat])
  BY <1>5, <1>6, ElementOfSeq
<1>8. Reach(c) = (IF pos[c] = 0 THEN 0 ELSE ch[pos[c]].to) /\ Reach(c) \in Nat
  BY <1>7 DEF Reach, ch
<1>9. chunk.from = Reach(c) /\ chunk.from < chunk.to /\ chunk.to <= StreamLength(c)
  BY <1>5, <1>6, <1>8
<1>10. chunk.from \in Nat /\ chunk.to \in Nat
  BY <1>7
<1>11. e \in Handed
  <2>1. c \in Nat
    <3>1. Conns \subseteq Nat
      BY ConnsAre DEF DInv, SInv, TakeTurn
    <3> QED BY <3>1
  <2> HIDE DEF chunk
  <2>2. chunk.from <= chunk.to
    BY <1>9, <1>10
  <2> QED BY <1>10, <2>1, <2>2 DEF Handed
<1>12. order' = Append(order, e) /\ pos' = [pos EXCEPT ![c] = @ + 1]
  BY <1>2, <1>3 DEF ch
<1> QED BY <1>4, <1>5, <1>8, <1>9, <1>10, <1>11, <1>12 DEF ch

(* What is read back after one chunk more, of connection c.                *)
LEMMA ReadOneMore ==
  ASSUME NEW c, NEW e \in Handed, NEW ch \in Seq([from : Nat, to : Nat]), NEW n \in Nat, n < Len(ch),
         NEW r \in Nat, e.conn = c, e.from = r, e.from = ch[n + 1].from, e.to = ch[n + 1].to
  PROVE  Heard([stream |-> Upto(r), sizes |-> Widths(ch, n)], e, c)
           = [stream |-> Upto(e.to), sizes |-> Widths(ch, n + 1)]
<1> DEFINE s == [stream |-> Upto(r), sizes |-> Widths(ch, n)]
<1>1. e.from \in Nat /\ e.to \in Nat /\ e.from <= e.to
  BY DEF Handed
<1>2. Heard(s, e, c) = [stream |-> Upto(r) \o Bytes(e),
                        sizes |-> Append(Widths(ch, n), e.to - e.from)]
  BY DEF Heard
<1>3. Bytes(e) = [i \in 1 .. e.to - r |-> r + i - 1]
  BY DEF Bytes
<1>4. Upto(r) \o Bytes(e) = Upto(e.to)
  <2>1. PICK t \in Nat : t = e.to /\ r <= t
    BY <1>1
  <2>2. Upto(r) \o [i \in 1 .. t - r |-> r + i - 1] = Upto(t)
    BY <2>1, Extend
  <2> QED BY <1>3, <2>1, <2>2
<1>5. Append(Widths(ch, n), ch[n + 1].to - ch[n + 1].from) = Widths(ch, n + 1)
  BY Widen
<1>6. Append(Widths(ch, n), e.to - e.from) = Widths(ch, n + 1)
  BY <1>5
<1> QED BY <1>2, <1>4, <1>6

LEMMA TurnRead ==
  ASSUME DInv, TakeTurn
  PROVE  ReadInv'
<1>1. /\ stage = "interleave" /\ UNCHANGED <<p, stage, per_conn>> /\ Conns' = Conns /\ ReadInv
      /\ pos \in [Conns -> Nat]
  BY DEF TakeTurn, Conns, DInv, IInv, Queue
<1>2. PICK c \in Conns :
        LET chunk == per_conn[c][pos[c] + 1]
            e == [conn |-> c, from |-> chunk.from, to |-> chunk.to]
        IN /\ pos[c] \in Nat /\ pos[c] < Len(per_conn[c]) /\ Len(per_conn[c]) \in Nat
           /\ per_conn[c] \in Seq([from : Nat, to : Nat])
           /\ Reach(c) \in Nat /\ chunk.from = Reach(c) /\ chunk.from \in Nat /\ chunk.to \in Nat
           /\ chunk.from < chunk.to /\ chunk.to <= StreamLength(c)
           /\ e \in Handed /\ order' = Append(order, e)
           /\ pos' = [pos EXCEPT ![c] = @ + 1]
  BY TurnIs
<1>10. PICK n, k : n = pos[c] /\ k = Len(order)
  OBVIOUS
<1> DEFINE ch == per_conn[c]
           e == [conn |-> c, from |-> ch[n + 1].from, to |-> ch[n + 1].to]
<1>3. /\ n \in Nat /\ n < Len(ch) /\ ch \in Seq([from : Nat, to : Nat])
      /\ Reach(c) \in Nat /\ e \in Handed /\ order' = Append(order, e)
      /\ e.conn = c /\ e.from = ch[n + 1].from /\ e.to = ch[n + 1].to /\ e.from = Reach(c)
  BY <1>2, <1>10
<1>4. /\ pos'[c] = n + 1 /\ \A d \in Conns : d # c => pos'[d] = pos[d]
      /\ \A d \in Conns : pos[d] \in Nat
  BY <1>1, <1>2, <1>10
<1>5. order \in Seq(Handed)
  BY <1>1, <1>10 DEF ReadInv
<1> HIDE DEF e
<1>6. /\ order' \in Seq(Handed) /\ Len(order') = k + 1 /\ order'[k + 1] = e
      /\ \A i \in 1 .. k : order'[i] = order[i]
      /\ k \in Nat
  BY <1>3, <1>5, <1>10
<1>7. ASSUME NEW d \in Conns
      PROVE  ReadBack(d)' = [stream |-> Upto(Reach(d)), sizes |-> Widths(per_conn[d], pos[d])]'
  <2>1. ReadBack(d)' = Heard(ReadBack(d), e, d)
    BY <1>3, <1>5, ReadAppend, ReadBackIs, ReadBackNext
  <2>2. ReadBack(d) = [stream |-> Upto(Reach(d)), sizes |-> Widths(per_conn[d], pos[d])]
    BY <1>1, <1>10 DEF ReadInv
  <2>3. CASE d = c
    <3>1. Heard([stream |-> Upto(Reach(c)), sizes |-> Widths(ch, n)], e, c)
            = [stream |-> Upto(e.to), sizes |-> Widths(ch, n + 1)]
      <4> HIDE DEF ch
      <4> QED BY <1>3, ReadOneMore
    <3>2. Reach(c)' = e.to
      BY <1>1, <1>3, <1>4 DEF Reach
    <3>3. ReadBack(d)' = [stream |-> Upto(e.to), sizes |-> Widths(ch, n + 1)]
      BY <1>10, <2>1, <2>2, <2>3, <3>1
    <3>4. Upto(e.to) = Upto(Reach(d))' /\ Widths(ch, n + 1) = Widths(per_conn[d], pos[d])'
      BY <1>1, <1>4, <2>3, <3>2 DEF Upto, Widths
    <3> QED BY <3>3, <3>4
  <2>4. CASE d # c
    <3>1. Heard(ReadBack(d), e, d) = ReadBack(d)
      BY <1>3, <2>4 DEF Heard
    <3>2. pos'[d] = pos[d]
      BY <1>4, <2>4
    <3>3. Reach(d)' = Reach(d)
      BY <1>1, <3>2 DEF Reach
    <3>4. Upto(Reach(d))' = Upto(Reach(d)) /\ Widths(per_conn[d], pos[d])' = Widths(per_conn[d], pos[d])
      BY <1>1, <3>2, <3>3 DEF Upto, Widths
    <3> QED BY <2>1, <2>2, <3>1, <3>4
  <2> QED BY <2>3, <2>4
<1>8. ASSUME NEW i \in 1 .. k + 1, NEW d \in Conns, order'[i].conn = d
      PROVE  \E j \in 1 .. pos'[d] : IsChunk(order[i], d, j)'
  <2>1. CASE i \in 1 .. k
    <3>1. order'[i] = order[i]
      BY <1>6, <2>1
    <3>2. PICK j \in 1 .. pos[d] : IsChunk(order[i], d, j)
      BY <1>1, <1>8, <1>10, <2>1, <3>1 DEF ReadInv
    <3>3. j \in 1 .. pos'[d]
      <4>1. pos'[d] = pos[d] \/ pos'[d] = pos[d] + 1
        BY <1>4, <1>10
      <4>2. pos[d] \in Nat
        BY <1>4
      <4> QED BY <4>1, <4>2
    <3> QED BY <1>1, <3>1, <3>2, <3>3 DEF IsChunk
  <2>2. CASE i = k + 1
    <3>1. order'[i] = e /\ d = c
      BY <1>3, <1>6, <1>8, <2>2
    <3>2. n + 1 \in 1 .. pos'[d]
      BY <1>3, <1>4, <3>1
    <3>3. IsChunk(order[i], d, n + 1)'
      BY <1>1, <1>3, <3>1 DEF IsChunk
    <3> QED BY <3>2, <3>3
  <2> QED BY <1>6, <2>1, <2>2
<1>9. ASSUME NEW d \in Conns, NEW j \in 1 .. pos'[d]
      PROVE  \E i \in 1 .. k + 1 : IsChunk(order[i], d, j)'
  <2>1. CASE j \in 1 .. pos[d]
    <3>1. PICK i \in 1 .. k : IsChunk(order[i], d, j)
      BY <1>1, <1>10, <2>1 DEF ReadInv
    <3>2. i \in 1 .. k + 1 /\ order'[i] = order[i]
      BY <1>6
    <3> QED BY <1>1, <3>1, <3>2 DEF IsChunk
  <2>2. CASE j \notin 1 .. pos[d]
    <3>1. d = c /\ j = n + 1
      <4>1. d = c
        BY <1>4, <2>2
      <4>2. j \in 1 .. n + 1 /\ j \notin 1 .. n
        BY <1>4, <1>10, <2>2, <4>1
      <4> QED BY <1>3, <4>1, <4>2
    <3>2. k + 1 \in 1 .. k + 1 /\ order'[k + 1] = e
      BY <1>6
    <3>3. IsChunk(order[k + 1], d, j)'
      BY <1>1, <1>3, <3>1, <3>2 DEF IsChunk
    <3> QED BY <3>2, <3>3
  <2> QED BY <2>1, <2>2
<1> QED BY <1>1, <1>6, <1>7, <1>8, <1>9 DEF ReadInv

(* Nothing is handed over as the interleaving starts. *)
LEMMA StartRead ==
  ASSUME DInv, CutAll
  PROVE  ReadInv'
<1>1. /\ stage' = "interleave" /\ order' = <<>> /\ pos' = [c \in Conns |-> 0]
      /\ UNCHANGED <<p, per_conn>> /\ Conns' = Conns
  BY DEF CutAll, DInv, ReadInv, Conns
<1>2. ASSUME NEW d \in Conns
      PROVE  ReadBack(d)' = [stream |-> Upto(Reach(d)), sizes |-> Widths(per_conn[d], pos[d])]'
  <2>1. ReadBack(d)' = Nothing
    BY <1>1, ReadBackNext, ReadNone
  <2>2. pos'[d] = 0
    BY <1>1
  <2>3. Reach(d)' = 0
    BY <2>2 DEF Reach
  <2>4. Upto(Reach(d))' = Upto(0)
    BY <2>3 DEF Upto
  <2>5. Widths(per_conn[d], pos[d])' = Widths(per_conn'[d], 0)
    BY <2>2 DEF Widths
  <2>6. Nothing = [stream |-> Upto(0), sizes |-> Widths(per_conn'[d], 0)]
    BY NoneYet
  <2> QED BY <2>1, <2>4, <2>5, <2>6
<1>3. order' \in Seq(Handed) /\ Len(order') = 0
  BY <1>1
<1>4. \A d \in Conns : 1 .. pos'[d] = {}
  BY <1>1
<1>5. 1 .. Len(order') = {}
  BY <1>3
<1> QED BY <1>1, <1>2, <1>3, <1>4, <1>5 DEF ReadInv

LEMMA OtherRead ==
  ASSUME DInv, [Next]_vars, ~TakeTurn, ~CutAll
  PROVE  ReadInv'
<1>1. ReadInv
  BY DEF DInv
<1>2. CASE stage' \notin {"interleave", "written"}
  <2>1. order' = order /\ stage \notin {"interleave", "written"}
    BY <1>2 DEF Next, Validate, Connect, DealEqually, DealUniformly, FillSession, FillFrame, Filled,
                Cut, CutAll, Write, Spin, Ended, vars
  <2> QED BY <1>1, <1>2, <2>1 DEF ReadInv
<1>3. CASE stage' \in {"interleave", "written"}
  <2>1. /\ UNCHANGED <<p, order, per_conn, pos, active>> /\ stage \in {"interleave", "written"}
        /\ stage' = "written" => stage = "written" \/ active = <<>>
    BY <1>3 DEF Next, Validate, Connect, DealEqually, DealUniformly, FillSession, FillFrame, Filled,
                Cut, CutAll, Write, Spin, Ended, vars
  <2>2. Conns' = Conns /\ (\A c : Reach(c)' = Reach(c)) /\ (\A c : ReadBack(c)' = ReadBack(c))
    <3>1. Conns' = Conns /\ (\A c : Reach(c)' = Reach(c))
      BY <2>1 DEF Conns, Reach
    <3>2. \A c : ReadBack(c)' = ReadBack(c)
      BY <2>1, ReadBackIs, ReadBackNext
    <3> QED BY <3>1, <3>2
  <2>3. ASSUME NEW c \in Conns
        PROVE  ReadBack(c)' = [stream |-> Upto(Reach(c)), sizes |-> Widths(per_conn[c], pos[c])]'
    <3>1. ReadBack(c) = [stream |-> Upto(Reach(c)), sizes |-> Widths(per_conn[c], pos[c])]
      BY <1>1, <2>1 DEF ReadInv
    <3>2. Upto(Reach(c))' = Upto(Reach(c)) /\ Widths(per_conn[c], pos[c])' = Widths(per_conn[c], pos[c])
      BY <2>1, <2>2 DEF Upto, Widths
    <3> QED BY <2>2, <3>1, <3>2
  <2>4. /\ order' \in Seq(Handed)
        /\ \A k \in 1 .. Len(order') : \A c \in Conns :
             order'[k].conn = c => \E i \in 1 .. pos'[c] : IsChunk(order[k], c, i)'
        /\ \A c \in Conns : \A i \in 1 .. pos'[c] : \E k \in 1 .. Len(order') : IsChunk(order[k], c, i)'
    BY <1>1, <2>1 DEF ReadInv, IsChunk
  <2>5. stage' = "written" => active' = <<>>
    BY <1>1, <2>1 DEF ReadInv
  <2> QED BY <1>3, <2>2, <2>3, <2>4, <2>5 DEF ReadInv
<1> QED BY <1>2, <1>3

LEMMA InitDInv == Init => DInv
<1> SUFFICES ASSUME Init PROVE DInv
  OBVIOUS
<1>1. IInv /\ SInv
  BY InitIInv, InitSInv
<1>2. stage = "validate" /\ order = <<>>
  BY DEF Init
<1> QED BY <1>1, <1>2 DEF DInv, ChunksInv, ReadInv

LEMMA StepDInv == DInv /\ [Next]_vars => DInv'
<1> SUFFICES ASSUME DInv, [Next]_vars PROVE DInv'
  OBVIOUS
<1>1. IInv' /\ SInv'
  BY StepKeeps, StreamsStep DEF DInv
<1>2. ChunksInv'
  BY CutChunks, OtherChunks DEF DInv
<1>3. ReadInv'
  BY TurnRead, StartRead, OtherRead
<1> QED BY <1>1, <1>2, <1>3 DEF DInv

--------------------------------------------------------------------------------
(* The promise to the decoder. *)

LEMMA StreamIs ==
  ASSUME DInv, Delivering, NEW c \in Conns
  PROVE  Stream(c) = Upto(Reach(c))
<1>1. ReadBack(c) = [stream |-> Upto(Reach(c)), sizes |-> Widths(per_conn[c], pos[c])]
  BY DEF DInv, ReadInv, Delivering
<1> QED BY <1>1 DEF Stream

LEMMA StreamIsNext ==
  ASSUME DInv', Delivering', NEW c \in Conns'
  PROVE  Stream(c)' = Upto(Reach(c)')
<1>1. ReadBack(c)' = [stream |-> Upto(Reach(c)'), sizes |-> Widths(per_conn'[c], pos'[c])]
  BY DEF DInv, ReadInv, Delivering, Upto, Widths
<1> QED BY <1>1 DEF Stream

LEMMA UptoIs == ASSUME NEW r \in Nat PROVE Upto(r) \in Seq(Int) /\ Len(Upto(r)) = r
BY DEF Upto

LEMMA DeliverStarts == Init => Promise!Init
BY DEF Init, Promise!Init, Delivering

LEMMA DeliverOpens ==
  ASSUME DInv, DInv', CutAll
  PROVE  Promise!Open
<1>1. /\ stage = "cut" /\ stage' = "interleave" /\ UNCHANGED <<p, segments>> /\ Conns' = Conns
      /\ pos' = [c \in Conns |-> 0] /\ p \in Params /\ Valid(p) /\ SInv
  BY DEF CutAll, Conns, DInv, SInv
<1>2. ~Delivering /\ Delivering'
  BY <1>1 DEF Delivering
<1>3. \A c \in Conns : StreamLength(c) \in Nat \ {0} /\ StreamLength(c)' = StreamLength(c)
  BY <1>1, StreamSizes DEF Dealt, StreamLength
<1> DEFINE size == [c \in Conns |-> StreamLength(c)]
           n == p.connections
<1>4. n \in Nat \ {0} /\ Conns = 1 .. n
  BY <1>1, ConnsAre
<1>5. size \in Seq(Nat \ {0}) /\ Len(size) = n /\ DOMAIN size = Conns
  BY <1>3, <1>4
<1>6. [c \in Conns |-> StreamLength(c)]' = size
  BY <1>1, <1>3
<1>7. ASSUME NEW c \in Conns PROVE Stream(c)' = <<>>
  <2>1. Reach(c)' = 0
    BY <1>1 DEF Reach
  <2>2. Stream(c)' = Upto(Reach(c)')
    BY <1>1, <1>2, StreamIsNext
  <2>3. Upto(0) = <<>>
    BY DEF Upto
  <2> QED BY <2>1, <2>2, <2>3
<1>8. [c \in Conns |-> Stream(c)]' = [c \in Conns |-> <<>>]
  BY <1>1, <1>7
<1>9. size \in Seq(Nat \ {0}) \ {<<>>}
  <2> HIDE DEF size
  <2> QED BY <1>4, <1>5
<1> HIDE DEF size, n
<1>10. (IF Delivering THEN [c \in Conns |-> StreamLength(c)] ELSE <<>>) = <<>>
  BY <1>2
<1>11. (IF Delivering THEN [c \in Conns |-> StreamLength(c)] ELSE <<>>)' = size
  BY <1>2, <1>6
<1>12. (IF Delivering THEN [c \in Conns |-> Stream(c)] ELSE <<>>)' = [c \in DOMAIN size |-> <<>>]
  BY <1>2, <1>5, <1>8
<1> QED BY <1>9, <1>10, <1>11, <1>12 DEF Promise!Open

LEMMA DeliverHands ==
  ASSUME DInv, DInv', TakeTurn
  PROVE  \E c \in Conns : Promise!Hand(c)
<1>1. /\ stage = "interleave" /\ stage' = "interleave" /\ UNCHANGED <<p, segments, per_conn>>
      /\ Conns' = Conns /\ pos \in [Conns -> Nat] /\ SInv
  BY DEF TakeTurn, Conns, DInv, IInv, Queue
<1>2. Delivering /\ Delivering'
  BY <1>1 DEF Delivering
<1>3. PICK c \in Conns :
        LET chunk == per_conn[c][pos[c] + 1]
            e == [conn |-> c, from |-> chunk.from, to |-> chunk.to]
        IN /\ pos[c] \in Nat /\ pos[c] < Len(per_conn[c]) /\ Len(per_conn[c]) \in Nat
           /\ per_conn[c] \in Seq([from : Nat, to : Nat])
           /\ Reach(c) \in Nat /\ chunk.from = Reach(c) /\ chunk.from \in Nat /\ chunk.to \in Nat
           /\ chunk.from < chunk.to /\ chunk.to <= StreamLength(c)
           /\ e \in Handed /\ order' = Append(order, e)
           /\ pos' = [pos EXCEPT ![c] = @ + 1]
  BY TurnIs
<1>0. PICK w : w = StreamLength(c)
  OBVIOUS
<1>4. PICK r \in Nat, t \in Nat : r = Reach(c) /\ t = per_conn[c][pos[c] + 1].to /\ w = StreamLength(c)
  BY <1>0, <1>3
<1>5. r < t /\ t <= w /\ w \in Nat
  <2>1. StreamLength(c) \in Nat
    BY <1>1, StreamSizes DEF Dealt
  <2> QED BY <1>3, <1>4, <2>1
<1>6. Reach(c)' = t /\ \A d \in Conns : d # c => Reach(d)' = Reach(d)
  <2>1. pos'[c] = pos[c] + 1 /\ \A d \in Conns : d # c => pos'[d] = pos[d]
    BY <1>1, <1>3
  <2>2. pos[c] + 1 # 0
    BY <1>3
  <2> QED BY <1>1, <1>4, <2>1, <2>2 DEF Reach
<1>7. /\ Stream(c) = Upto(r) /\ Stream(c)' = Upto(t)
      /\ \A d \in Conns : d # c => Stream(d)' = Stream(d)
  BY <1>1, <1>2, <1>4, <1>6, StreamIs, StreamIsNext
<1>8. \A d : StreamLength(d)' = StreamLength(d)
  BY <1>1 DEF StreamLength
<1> DEFINE Size == IF Delivering THEN [d \in Conns |-> StreamLength(d)] ELSE <<>>
           Got  == IF Delivering THEN [d \in Conns |-> Stream(d)] ELSE <<>>
<1>9. Size = [d \in Conns |-> StreamLength(d)] /\ Size' = Size
  BY <1>1, <1>2, <1>8
<1>10. Got = [d \in Conns |-> Stream(d)] /\ Got' = [d \in Conns |-> Stream(d)']
  BY <1>1, <1>2
<1> HIDE DEF Size, Got
<1>11. Got[c] = Upto(r) /\ Got'[c] = Upto(t) /\ Size[c] = w /\ DOMAIN Got = Conns /\ DOMAIN Got' = Conns
       /\ \A d \in Conns \ {c} : Got'[d] = Got[d]
  BY <1>4, <1>7, <1>9, <1>10
<1>12. t - r \in 1 .. w - r /\ Len(Upto(r)) = r
       /\ Upto(t) = Upto(r) \o [i \in 1 .. t - r |-> r + i - 1]
  <2>1. t - r \in 1 .. w - r
    BY <1>5
  <2>2. Len(Upto(r)) = r
    BY UptoIs
  <2>3. r <= t
    BY <1>5
  <2>4. Upto(t) = Upto(r) \o [i \in 1 .. t - r |-> r + i - 1]
    BY <2>3, Extend
  <2> QED BY <2>1, <2>2, <2>4
<1>13. \E n \in 1 .. Size[c] - Len(Got[c]) :
         Got'[c] = Got[c] \o [i \in 1 .. n |-> Len(Got[c]) + i - 1]
  <2>1. 1 .. Size[c] - Len(Got[c]) = 1 .. w - r
    BY <1>11, <1>12
  <2>2. Got'[c] = Got[c] \o [i \in 1 .. t - r |-> Len(Got[c]) + i - 1]
    BY <1>11, <1>12
  <2> QED BY <1>12, <2>1, <2>2
<1>14. DOMAIN Got' = DOMAIN Got /\ (\A d \in DOMAIN Got \ {c} : Got'[d] = Got[d]) /\ Size' = Size
  BY <1>9, <1>11
<1> QED BY <1>13, <1>14 DEF Promise!Hand, Size, Got

LEMMA DeliverStutters ==
  ASSUME DInv, [Next]_vars, ~CutAll, ~TakeTurn
  PROVE  UNCHANGED Promise!vars
<1>1. \/ ~Delivering /\ ~Delivering'
      \/ Delivering /\ Delivering' /\ UNCHANGED <<p, segments, order>>
  BY DEF Next, Validate, Connect, DealEqually, DealUniformly, FillSession, FillFrame, Filled,
         Cut, Write, Spin, Ended, vars, Delivering
<1>2. CASE ~Delivering /\ ~Delivering'
  BY <1>2 DEF Promise!vars
<1>3. CASE Delivering /\ Delivering' /\ UNCHANGED <<p, segments, order>>
  <2>1. Conns' = Conns /\ \A c : StreamLength(c)' = StreamLength(c)
    BY <1>3 DEF Conns, StreamLength
  <2>2. \A c : Stream(c)' = Stream(c)
    <3>1. \A c : ReadBack(c)' = ReadBack(c)
      BY <1>3, ReadBackIs, ReadBackNext
    <3> QED BY <3>1 DEF Stream
  <2> QED BY <1>3, <2>1, <2>2 DEF Promise!vars
<1> QED BY <1>1, <1>2, <1>3

(* The generator implements Delivery, but for its liveness: in every       *)
(* interleaving each chunk is the next bytes of its connection's stream,   *)
(* for any number of connections, frames and chunks.                       *)
THEOREM StreamsDelivered == Spec => Promise!Init /\ [][Promise!Next]_(Promise!vars)
<1>1. Init => Promise!Init
  BY DeliverStarts
<1>2. DInv /\ DInv' /\ [Next]_vars => [Promise!Next]_(Promise!vars)
  <2> SUFFICES ASSUME DInv, DInv', [Next]_vars PROVE [Promise!Next]_(Promise!vars)
    OBVIOUS
  <2>1. CASE CutAll
    BY <2>1, DeliverOpens DEF Promise!Next
  <2>2. CASE TakeTurn
    <3>1. PICK c \in Conns : Promise!Hand(c)
      BY <2>2, DeliverHands
    <3>2. Delivering
      BY <2>2 DEF TakeTurn, Delivering
    <3> QED BY <3>1, <3>2 DEF Promise!Next
  <2>3. CASE ~CutAll /\ ~TakeTurn
    BY <2>3, DeliverStutters
  <2> QED BY <2>1, <2>2, <2>3
<1>3. Spec => []DInv
  BY InitDInv, StepDInv, PTL DEF Spec
<1> QED BY <1>1, <1>2, <1>3, PTL DEF Spec

--------------------------------------------------------------------------------
(* What check.py finds. *)

LEMMA Climbs ==
  ASSUME NEW b \in Seq(Nat), \A i \in 1 .. Len(b) : i > 1 => b[i - 1] < b[i],
         NEW i \in 1 .. Len(b), NEW j \in 1 .. Len(b), i <= j
  PROVE  b[i] <= b[j]
<1> DEFINE T == {d \in Nat : i + d <= Len(b) => b[i] <= b[i + d]}
           n == Len(b)
<1>1. T \in SUBSET Nat /\ 0 \in T
  OBVIOUS
<1>2. ASSUME NEW d \in T PROVE d + 1 \in T
  <2> SUFFICES ASSUME i + (d + 1) <= n PROVE b[i] <= b[i + (d + 1)]
    OBVIOUS
  <2> DEFINE k == i + d
  <2>1. d \in Nat /\ i \in 1 .. n /\ n \in Nat /\ (k <= n => b[i] <= b[k])
    OBVIOUS
  <2> HIDE DEF T, n
  <2>2. /\ k \in 1 .. n /\ i + (d + 1) = k + 1 /\ k + 1 \in 1 .. n
        /\ k + 1 > 1 /\ (k + 1) - 1 = k /\ k <= n
    BY <2>1
  <2> HIDE DEF k
  <2>3. \A m \in 1 .. n : b[m] \in Nat /\ (m > 1 => b[m - 1] < b[m])
    BY DEF n
  <2>4. b[(k + 1) - 1] < b[k + 1] /\ b[i] \in Nat /\ b[k] \in Nat /\ b[k + 1] \in Nat
    BY <2>1, <2>2, <2>3
  <2>5. b[i] <= b[k]
    BY <2>1, <2>2
  <2>6. b[k] < b[k + 1]
    BY <2>2, <2>4
  <2>7. b[i] <= b[k + 1]
    BY <2>4, <2>5, <2>6
  <2> QED BY <2>2, <2>7
<1>3. T = Nat
  <2> HIDE DEF T
  <2> QED BY <1>1, <1>2, Induct
<1>4. j - i \in Nat /\ i + (j - i) = j /\ j <= Len(b)
  OBVIOUS
<1>5. j - i \in T
  <2> HIDE DEF T
  <2> QED BY <1>3, <1>4
<1> QED BY <1>4, <1>5

(* Where a place lies among boundaries that ascend: after the first m.     *)
LEMMA Bisects ==
  ASSUME NEW b \in Seq(Nat), \A i \in 1 .. Len(b) : i > 1 => b[i - 1] < b[i], NEW x \in Nat
  PROVE  /\ Bisect(b, x) \in 0 .. Len(b)
         /\ \A i \in 1 .. Len(b) : b[i] <= x <=> i <= Bisect(b, x)
<1> DEFINE n == Len(b)
           S == {i \in DOMAIN b : b[i] <= x}
           T == {i \in 1 .. n : ~(b[i] <= x)}
<1>1. n \in Nat /\ DOMAIN b = 1 .. n /\ \A i \in 1 .. n : b[i] \in Nat
  OBVIOUS
<1>2. PICK m \in 0 .. n : \A i \in 1 .. n : b[i] <= x <=> i <= m
  <2>1. CASE T = {}
    <3>1. \A i \in 1 .. n : b[i] <= x /\ i <= n
      BY <2>1
    <3>2. n \in 0 .. n
      BY <1>1
    <3> QED BY <3>1, <3>2
  <2>2. CASE T # {}
    <3>1. PICK t \in T : \A y \in T : t <= y
      <4>1. T \in SUBSET Nat
        OBVIOUS
      <4> HIDE DEF T
      <4> QED BY <2>2, <4>1, NatMin
    <3>2. t \in 1 .. n /\ ~(b[t] <= x)
      BY <3>1
    <3>3. ASSUME NEW i \in 1 .. n PROVE b[i] <= x <=> i <= t - 1
      <4>1. CASE i < t
        <5>1. i \notin T
          <6> HIDE DEF T
          <6> QED BY <3>1, <3>2, <4>1
        <5> QED BY <3>2, <4>1, <5>1
      <4>2. CASE ~(i < t)
        <5>1. t <= i
          BY <3>2, <4>2
        <5>2. b[t] <= b[i]
          BY <3>2, <5>1, Climbs
        <5>3. b[t] \in Nat /\ b[i] \in Nat
          BY <1>1, <3>2
        <5> QED BY <3>2, <4>2, <5>2, <5>3
      <4> QED BY <4>1, <4>2
    <3>4. t - 1 \in 0 .. n
      BY <3>2
    <3> QED BY <3>3, <3>4
  <2> QED BY <2>1, <2>2
<1>3. S = 1 .. m
  <2>1. \A i \in 1 .. m : i \in 1 .. n /\ i <= m
    BY <1>1
  <2>2. \A i \in 1 .. n : i <= m => i \in 1 .. m
    BY <1>1
  <2> QED BY <1>1, <1>2, <2>1, <2>2
<1>4. Cardinality(1 .. m) = m
  <2>1. 1 \in Int /\ m \in Int /\ m \in Nat
    BY <1>1
  <2>2. Cardinality(1 .. m) = IF 1 > m THEN 0 ELSE m - 1 + 1
    BY <2>1, FS_Interval
  <2> QED BY <2>1, <2>2
<1>5. Bisect(b, x) = m
  BY <1>3, <1>4 DEF Bisect
<1> QED BY <1>2, <1>5

(* The sizes of chunks laid end to end add up to the boundaries. *)
LEMMA WidthsAdd ==
  ASSUME NEW ch, NEW size \in Nat, Chained(ch, size)
  PROVE  /\ Len(ch) \in Nat
         /\ Widths(ch, Len(ch)) \in Seq(Nat \ {0}) /\ Len(Widths(ch, Len(ch))) = Len(ch)
         /\ \A i \in 1 .. Len(ch) :
              /\ ch[i].from \in Nat /\ ch[i].to \in Nat
              /\ Widths(ch, Len(ch))[i] = ch[i].to - ch[i].from
              /\ Before(Widths(ch, Len(ch)), i) = ch[i].to
<1> DEFINE n == Len(ch)
           w == Widths(ch, n)
<1>1. n \in Nat /\ ch \in Seq([from : Nat, to : Nat])
  BY DEF Chained
<1>2. \A i \in 1 .. n : ch[i] \in [from : Nat, to : Nat]
  BY <1>1, ElementOfSeq
<1>3. \A i \in 1 .. n :
        /\ ch[i].from \in Nat /\ ch[i].to \in Nat
        /\ ch[i].from = (IF i = 1 THEN 0 ELSE ch[i - 1].to) /\ ch[i].from < ch[i].to
  BY <1>2 DEF Chained
<1>4. w = [i \in 1 .. n |-> ch[i].to - ch[i].from]
  BY DEF Widths
<1>5. \A i \in 1 .. n : ch[i].to - ch[i].from \in Nat \ {0}
  BY <1>3
<1> HIDE DEF n, w
<1>6. /\ w \in Seq(Nat \ {0}) /\ w \in Seq(Nat) /\ Len(w) = n
      /\ \A i \in 1 .. n : w[i] = ch[i].to - ch[i].from
  BY <1>1, <1>4, <1>5
<1> DEFINE T == {i \in Nat : i <= n => Before(w, i) = IF i = 0 THEN 0 ELSE ch[i].to}
<1>7. T \in SUBSET Nat /\ 0 \in T
  BY <1>6, SumSteps
<1>8. ASSUME NEW i \in T PROVE i + 1 \in T
  <2> SUFFICES ASSUME i + 1 <= n PROVE Before(w, i + 1) = ch[i + 1].to
    OBVIOUS
  <2>1. /\ i \in Nat /\ i \in 0 .. n - 1 /\ i + 1 \in 1 .. n /\ (i + 1) - 1 = i
        /\ (i + 1 = 1 <=> i = 0)
        /\ Before(w, i) = IF i = 0 THEN 0 ELSE ch[i].to
    BY <1>1
  <2> HIDE DEF T
  <2>2. Before(w, i + 1) = Before(w, i) + w[i + 1]
    BY <1>6, <2>1, SumSteps
  <2>3. Before(w, i) = ch[i + 1].from
    BY <1>3, <2>1
  <2>4. w[i + 1] = ch[i + 1].to - ch[i + 1].from /\ ch[i + 1].from \in Nat /\ ch[i + 1].to \in Nat
    BY <1>3, <1>6, <2>1
  <2> QED BY <2>2, <2>3, <2>4
<1>9. T = Nat
  <2> HIDE DEF T
  <2> QED BY <1>7, <1>8, Induct
<1>10. \A i \in 1 .. n : Before(w, i) = ch[i].to
  <2>1. \A i \in 1 .. n : i \in Nat /\ i <= n /\ i # 0
    BY <1>1
  <2> QED BY <1>9, <2>1
<1> QED BY <1>1, <1>3, <1>6, <1>10 DEF n, w

(* Once everything is written, every connection's chunks are handed over.  *)
LEMMA AllHanded ==
  ASSUME DInv, stage = "written", NEW c \in Conns
  PROVE  /\ StreamLength(c) \in Nat \ {0} /\ Chained(per_conn[c], StreamLength(c))
         /\ Len(per_conn[c]) \in Nat \ {0} /\ pos[c] = Len(per_conn[c])
         /\ per_conn[c][Len(per_conn[c])].to = StreamLength(c)
         /\ Stream(c) = Upto(StreamLength(c))
         /\ Sizes(c) = Widths(per_conn[c], Len(per_conn[c]))
<1> DEFINE n == Len(per_conn[c])
<1>1. StreamLength(c) \in Nat \ {0} /\ Chained(per_conn[c], StreamLength(c))
  BY StreamSizes DEF DInv, Dealt, ChunksInv
<1>2. CutTo(c) = StreamLength(c)
  BY DEF DInv, ChunksInv
<1>3. /\ n \in Nat /\ CutTo(c) = IF n = 0 THEN 0 ELSE per_conn[c][n].to
  BY <1>1, CutToIs
<1>4. n # 0 /\ per_conn[c][n].to = StreamLength(c)
  BY <1>1, <1>2, <1>3
<1>5. pos[c] = n
  <2>1. Queue /\ active = <<>>
    BY DEF DInv, IInv, ReadInv
  <2>2. ~ (pos[c] < n)
    BY <2>1 DEF Queue
  <2>3. pos[c] \in Nat /\ pos[c] <= n
    BY <2>1 DEF Queue
  <2> QED BY <1>3, <2>2, <2>3
<1>6. Reach(c) = StreamLength(c)
  BY <1>3, <1>4, <1>5 DEF Reach
<1>7. ReadBack(c) = [stream |-> Upto(Reach(c)), sizes |-> Widths(per_conn[c], pos[c])]
  BY DEF DInv, ReadInv
<1> QED BY <1>1, <1>3, <1>4, <1>5, <1>6, <1>7 DEF Stream, Sizes

LEMMA SizesAreRight ==
  ASSUME DInv, stage = "written", NEW c \in Conns
  PROVE  SizesPass(c)
<1> DEFINE ch == per_conn[c]
           n == Len(ch)
           size == StreamLength(c)
           w == Sizes(c)
<1>1. size \in Nat \ {0} /\ Chained(ch, size) /\ n \in Nat \ {0} /\ w = Widths(ch, n)
  BY AllHanded
<1>2. /\ Len(w) = n
      /\ \A i \in 1 .. n : /\ ch[i].from \in Nat /\ ch[i].to \in Nat /\ w[i] = ch[i].to - ch[i].from
  BY <1>1, WidthsAdd
<1>3. \A i \in 1 .. n :
        /\ ch[i].from = IF i = 1 THEN 0 ELSE ch[i - 1].to
        /\ ch[i].from < ch[i].to /\ ch[i].to <= size
        /\ ch[i].to - ch[i].from <= p.chunk_size[2]
        /\ ch[i].to - ch[i].from >= p.chunk_size[1] \/ ch[i].to = size
  BY <1>1 DEF Chained
<1>4. p.chunk_size[1] \in Nat /\ p.chunk_size[2] \in Nat
  <2>1. p \in Params
    BY DEF DInv, SInv
  <2>2. p.chunk_size \in Nat \X Nat
    BY <2>1, ParamsAssumption
  <2> QED BY <2>2
<1> HIDE DEF ch, n, size, w
<1>5. ASSUME NEW i \in 1 .. n - 1 PROVE w[i] \in p.chunk_size[1] .. p.chunk_size[2]
  <2>1. i \in 1 .. n /\ i + 1 \in 1 .. n /\ i + 1 # 1 /\ (i + 1) - 1 = i
    BY <1>1
  <2>2. ch[i + 1].from = ch[i].to /\ ch[i + 1].from < ch[i + 1].to /\ ch[i + 1].to <= size
    BY <1>3, <2>1
  <2>3. ch[i].to # size
    BY <1>1, <1>2, <2>1, <2>2
  <2>4. /\ ch[i].from \in Nat /\ ch[i].to \in Nat /\ w[i] = ch[i].to - ch[i].from
        /\ w[i] <= p.chunk_size[2] /\ w[i] >= p.chunk_size[1]
    BY <1>2, <1>3, <2>1, <2>3
  <2> QED BY <1>4, <2>4
<1>6. Last(w) \in 1 .. p.chunk_size[2]
  <2>1. n \in 1 .. n /\ Last(w) = w[n]
    BY <1>1, <1>2 DEF Last
  <2>2. /\ ch[n].from \in Nat /\ ch[n].to \in Nat /\ w[n] = ch[n].to - ch[n].from
        /\ ch[n].from < ch[n].to /\ w[n] <= p.chunk_size[2]
    BY <1>2, <1>3, <2>1
  <2> QED BY <1>4, <2>1, <2>2
<1> QED BY <1>2, <1>5, <1>6 DEF SizesPass, w

(* Where a segment lies in its stream. *)
LEMMA Lies ==
  ASSUME DInv, stage = "written", NEW c \in Conns, NEW i \in DOMAIN segments[c]
  PROVE  /\ i \in 1 .. Len(segments[c]) /\ Offset(c, i) \in Nat
         /\ segments[c][i].length \in Nat \ {0}
         /\ Offset(c, i) + segments[c][i].length <= StreamLength(c)
<1> DEFINE s == Lengths(segments[c])
           n == Len(segments[c])
<1>1. /\ IsList(segments[c]) /\ s \in Seq(Nat) /\ Len(s) = n
      /\ \A k \in 1 .. n : s[k] = segments[c][k].length /\ segments[c][k].length \in Nat \ {0}
  BY StreamSizes DEF DInv, Dealt
<1>2. n \in Nat /\ i \in 1 .. n
  BY <1>1, ListIs
<1>3. StreamLength(c) = Sum(s) /\ Offset(c, i) = Before(s, i - 1)
  BY DEF StreamLength, Offset, Before
<1> HIDE DEF s, n
<1>4. i - 1 \in 0 .. Len(s) - 1 /\ (i - 1) + 1 = i /\ i - 1 \in 0 .. Len(s)
      /\ i \in 0 .. Len(s) /\ Len(s) \in i .. Len(s)
  BY <1>1, <1>2
<1>5. Before(s, (i - 1) + 1) = Before(s, i - 1) + s[(i - 1) + 1] /\ Before(s, i - 1) \in Nat
  BY <1>1, <1>4, SumSteps
<1>6. Before(s, i) <= Before(s, Len(s))
  BY <1>1, <1>4, SumGrows
<1>7. Before(s, Len(s)) = Sum(s)
  BY <1>1, SumSteps
<1>8. s[i] = segments[c][i].length /\ segments[c][i].length \in Nat \ {0}
  BY <1>1, <1>2
<1> QED BY <1>2, <1>3, <1>4, <1>5, <1>6, <1>7, <1>8 DEF n

LEMMA LinesAreRight ==
  ASSUME DInv, stage = "written", NEW c \in Conns, NEW i \in DOMAIN Intent(c)
  PROVE  LinePasses(c, i)
<1>1. i \in DOMAIN segments[c]
  BY DEF Intent
<1> DEFINE seg == segments[c][i]
           o == Offset(c, i)
           size == StreamLength(c)
<1>2. /\ i \in 1 .. Len(segments[c]) /\ o \in Nat /\ seg.length \in Nat \ {0}
      /\ o + seg.length <= size
  BY <1>1, Lies
<1>3. size \in Nat /\ Stream(c) = Upto(size)
  BY AllHanded
<1>4. Intent(c)[i] = [segment |-> seg, offset |-> o, length |-> seg.length]
  BY <1>1 DEF Intent
<1>5. Made(segments[c])
  BY DEF DInv, SInv, Dealt, Fillings
<1>6. WellMade(seg) /\ (seg.type = "session" <=> i = 1)
  BY <1>2, <1>5 DEF Made
<1>7. seg.kind = "garbage" => i > 1
  BY <1>2, <1>5 DEF Made
<1>8. i = 1 => seg.fault = "none"
  BY <1>2, <1>5 DEF Made
<1>9. o = Sum(SubSeq(Lengths(segments[c]), 1, i - 1))
  BY DEF Offset
<1>10. SubSeq(Stream(c), o + 1, o + seg.length) = [j \in 1 .. seg.length |-> o + j - 1]
  <2>1. PICK l \in Nat : l = seg.length
    BY <1>2
  <2>2. o \in Nat /\ o + l <= size /\ size \in Nat
    BY <1>2, <1>3, <2>1
  <2> DEFINE u == Upto(size)
  <2>3. u \in Seq(Int) /\ Len(u) = size /\ \A j \in 1 .. size : u[j] = j - 1
    BY <1>3, UptoIs DEF Upto
  <2> HIDE DEF u, o, size, seg
  <2>4. SubSeq(u, o + 1, o + l) = [j \in 1 .. l |-> u[j + o]]
    <3>1. (o + l) - (o + 1) + 1 = l
      BY <2>2
    <3>2. \A j \in 1 .. l : (o + 1) + j - 1 = j + o
      BY <2>2
    <3> QED BY <2>2, <2>3, <3>1, <3>2
  <2>5. \A j \in 1 .. l : u[j + o] = o + j - 1
    <3>1. \A j \in 1 .. l : j + o \in 1 .. size /\ (j + o) - 1 = o + j - 1
      BY <2>2
    <3> QED BY <2>3, <3>1
  <2>6. [j \in 1 .. l |-> u[j + o]] = [j \in 1 .. l |-> o + j - 1]
    BY <2>5
  <2> QED BY <1>3, <2>1, <2>4, <2>6 DEF u
<1> HIDE DEF seg, o, size
<1> QED BY <1>4, <1>6, <1>7, <1>8, <1>9, <1>10 DEF LinePasses, WellMade

(* The boundary that bisect_right finds ends the chunk with the frame's    *)
(* first byte; the frame is in one chunk if it is in that one.             *)
LEMMA SplitsAreRight ==
  ASSUME DInv, stage = "written", NEW c \in Conns, NEW i \in DOMAIN segments[c]
  PROVE  IsSplit(c, i) <=>
           ~ \E k \in DOMAIN order :
                /\ order[k].conn = c /\ order[k].from <= Offset(c, i)
                /\ Offset(c, i) + segments[c][i].length <= order[k].to
<1> DEFINE ch == per_conn[c]
           n == Len(ch)
           x == Offset(c, i)
           y == Offset(c, i) + segments[c][i].length
           size == StreamLength(c)
           b == Ends(c)
<1>1. /\ size \in Nat \ {0} /\ Chained(ch, size) /\ n \in Nat \ {0} /\ pos[c] = n
      /\ ch[n].to = size /\ Sizes(c) = Widths(ch, n)
  BY AllHanded
<1>2. x \in Nat /\ y \in Nat /\ x < y /\ y <= size
  <2>1. x \in Nat /\ segments[c][i].length \in Nat \ {0} /\ y <= size
    BY Lies
  <2> HIDE DEF x
  <2> QED BY <2>1 DEF x
<1>3. \A j \in 1 .. n :
        /\ ch[j].from \in Nat /\ ch[j].to \in Nat /\ ch[j].from < ch[j].to
        /\ ch[j].from = IF j = 1 THEN 0 ELSE ch[j - 1].to
  <2>1. \A j \in 1 .. n : ch[j].from \in Nat /\ ch[j].to \in Nat
    BY <1>1, WidthsAdd
  <2> QED BY <1>1, <2>1 DEF Chained
<1>4. b = [j \in 1 .. n |-> ch[j].to]
  <2>1. /\ Sizes(c) \in Seq(Nat \ {0}) /\ Len(Sizes(c)) = n
        /\ \A j \in 1 .. n : Before(Sizes(c), j) = ch[j].to
    BY <1>1, WidthsAdd
  <2>2. DOMAIN Sizes(c) = 1 .. n
    BY <2>1
  <2> QED BY <2>1, <2>2 DEF Ends, Before
<1> HIDE DEF ch, n, x, y, size, b
<1>5. b \in Seq(Nat) /\ Len(b) = n /\ \A j \in 1 .. n : b[j] = ch[j].to
  BY <1>1, <1>3, <1>4
<1>6. \A j \in 1 .. Len(b) : j > 1 => b[j - 1] < b[j]
  <2> SUFFICES ASSUME NEW j \in 1 .. n, j > 1 PROVE b[j - 1] < b[j]
    BY <1>5
  <2>1. j - 1 \in 1 .. n /\ j # 1
    BY <1>1
  <2> QED BY <1>3, <1>5, <2>1
<1>7. PICK m \in 0 .. n : m = Bisect(b, x) /\ \A j \in 1 .. n : b[j] <= x <=> j <= m
  <2>1. /\ Bisect(b, x) \in 0 .. Len(b)
        /\ \A j \in 1 .. Len(b) : b[j] <= x <=> j <= Bisect(b, x)
    BY <1>2, <1>5, <1>6, Bisects
  <2> QED BY <1>5, <2>1
<1>8. m < n
  <2>1. n \in 1 .. n /\ ~(b[n] <= x)
    BY <1>1, <1>2, <1>5
  <2>2. ~(n <= m)
    BY <1>7, <2>1
  <2> QED BY <1>1, <2>2
<1> DEFINE a == m + 1
<1>9. a \in 1 .. n /\ a = Bisect(b, x) + 1 /\ a - 1 = m /\ (a = 1 <=> m = 0)
  BY <1>1, <1>7, <1>8
<1>10. ~(b[a] <= x)
  BY <1>7, <1>9
<1>11. IsSplit(c, i) <=> b[a] < y
  <2>1. IsSplit(c, i) <=> Bisect(b, x) + 1 <= n /\ b[Bisect(b, x) + 1] < y
    BY <1>5 DEF IsSplit, b, x, y
  <2>2. a <= n
    BY <1>1, <1>9
  <2> HIDE DEF a
  <2> QED BY <1>9, <2>1, <2>2
<1>12. ch[a].from <= x
  <2>1. CASE a = 1
    BY <1>2, <1>3, <1>9, <2>1
  <2>2. CASE a # 1
    <3>1. m \in 1 .. n /\ m <= m
      BY <1>1, <1>9, <2>2
    <3>2. b[m] <= x /\ b[m] = ch[m].to
      BY <1>5, <1>7, <3>1
    <3>3. ch[a].from = ch[m].to
      BY <1>3, <1>9, <2>2
    <3> QED BY <3>2, <3>3
  <2> QED BY <2>1, <2>2
<1>13. ASSUME NEW j \in 1 .. n, ch[j].from <= x, y <= ch[j].to PROVE j = a
  <2>1. ~(b[j] <= x)
    <3>1. b[j] = ch[j].to /\ b[j] \in Nat
      BY <1>5
    <3>2. y <= b[j]
      BY <1>13, <3>1
    <3> QED BY <1>2, <3>1, <3>2
  <2>2. ~(j <= m)
    BY <1>7, <2>1
  <2>3. j = 1 \/ j - 1 <= m
    <3> SUFFICES ASSUME j # 1 PROVE j - 1 <= m
      OBVIOUS
    <3>1. j - 1 \in 1 .. n
      BY <1>1
    <3>2. b[j - 1] <= x
      BY <1>3, <1>5, <1>13, <3>1
    <3> QED BY <1>7, <3>1, <3>2
  <2> QED BY <1>1, <1>7, <2>2, <2>3
<1>14. /\ order \in Seq(Handed)
       /\ \A k \in 1 .. Len(order) : order[k].conn = c => \E j \in 1 .. n : IsChunk(order[k], c, j)
       /\ \A j \in 1 .. n : \E k \in 1 .. Len(order) : IsChunk(order[k], c, j)
  BY <1>1 DEF DInv, ReadInv
<1>15. DOMAIN order = 1 .. Len(order)
  BY <1>14
<1> HIDE DEF a
<1>16. ASSUME IsSplit(c, i), NEW k \in DOMAIN order, order[k].conn = c, order[k].from <= x, y <= order[k].to
       PROVE  FALSE
  <2>1. PICK j \in 1 .. n : IsChunk(order[k], c, j)
    BY <1>14, <1>15, <1>16
  <2>2. order[k].from = ch[j].from /\ order[k].to = ch[j].to
    BY <2>1 DEF IsChunk, ch
  <2>3. j = a
    BY <1>13, <1>16, <2>2
  <2>4. b[a] = ch[a].to /\ ch[a].to \in Nat
    BY <1>3, <1>5, <1>9
  <2>5. b[a] < y /\ y <= b[a]
    BY <1>11, <1>16, <2>2, <2>3, <2>4
  <2> QED BY <1>2, <2>4, <2>5
<1>17. ASSUME ~IsSplit(c, i)
       PROVE  \E k \in DOMAIN order : order[k].conn = c /\ order[k].from <= x /\ y <= order[k].to
  <2>1. PICK k \in DOMAIN order : IsChunk(order[k], c, a)
    BY <1>9, <1>14, <1>15
  <2>2. order[k].conn = c /\ order[k].from = ch[a].from /\ order[k].to = ch[a].to
    BY <2>1 DEF IsChunk, ch
  <2>3. b[a] = ch[a].to /\ ch[a].to \in Nat
    BY <1>3, <1>5, <1>9
  <2>4. y <= ch[a].to
    BY <1>2, <1>11, <1>17, <2>3
  <2> QED BY <1>12, <2>2, <2>4
<1> QED BY <1>16, <1>17 DEF x, y

(* check.py accepts whatever the generator can write, and the manifest's   *)
(* count of split frames is right, for every parameter file, draw and      *)
(* interleaving.                                                           *)
THEOREM ReaderAgrees == Spec => []CheckAgrees
<1>1. DInv => CheckAgrees
  <2> SUFFICES ASSUME DInv, stage = "written" PROVE CheckAgrees
    BY DEF CheckAgrees
  <2>1. CheckPasses
    <3>1. \A c \in Conns : SizesPass(c)
      BY SizesAreRight
    <3>2. \A c \in Conns : \A i \in DOMAIN Intent(c) : LinePasses(c, i)
      BY LinesAreRight
    <3>3. ASSUME NEW c \in Conns PROVE Sum(Lengths(segments[c])) = Len(Stream(c))
      <4>1. StreamLength(c) \in Nat /\ Stream(c) = Upto(StreamLength(c))
        BY AllHanded
      <4>2. Len(Upto(StreamLength(c))) = StreamLength(c)
        BY <4>1, UptoIs
      <4> QED BY <4>1, <4>2 DEF StreamLength
    <3> QED BY <3>1, <3>2, <3>3 DEF CheckPasses
  <2>2. \A c \in Conns : \A i \in Frames(segments[c]) :
          IsSplit(c, i) <=>
            ~ \E k \in DOMAIN order :
                 /\ order[k].conn = c /\ order[k].from <= Offset(c, i)
                 /\ Offset(c, i) + segments[c][i].length <= order[k].to
    BY SplitsAreRight DEF Frames
  <2> QED BY <2>1, <2>2 DEF CheckAgrees
<1>2. Spec => []DInv
  BY InitDInv, StepDInv, PTL DEF Spec
<1> QED BY <1>1, <1>2, PTL
================================================================================
