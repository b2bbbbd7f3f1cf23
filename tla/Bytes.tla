--------------------------------- MODULE Bytes ---------------------------------
(***************************************************************************)
(* What the encoders, the readers and the framers share: byte strings as   *)
(* sequences of numbers, with Python's indices, slices and conversions.    *)
(***************************************************************************)
EXTENDS Integers, Sequences, FiniteSets, SequencesExt

Byte == 0 .. 255

(* A dictionary, of its keys and values. *)
Dict(items) == [k \in {i[1] : i \in items} |-> (CHOOSE i \in items : i[1] = k)[2]]

(* A left fold. The library's takes the domain apart, which is quadratic.  *)
Through(op(_, _), base, s) ==
  LET f[k \in 0 .. Len(s)] == IF k = 0 THEN base ELSE op(f[k - 1], s[k]) IN f[Len(s)]

WORDS == 65536   \* the values of a 16-bit word, or of two bytes

(* XOR of two bytes, as a table that TLC computes once; of 16-bit words.   *)
XorBits(a, b) ==
  LET f[k \in 0 .. 8] ==
        IF k = 0 THEN 0 ELSE 2 * f[k - 1] + (((a \div 2 ^ (8 - k)) + (b \div 2 ^ (8 - k))) % 2)
  IN f[8]
XOR == <<>> \o [i \in 1 .. WORDS |-> XorBits((i - 1) \div 256, (i - 1) % 256)]
Xor8(a, b)  == XOR[256 * a + b + 1]
Xor16(a, b) == 256 * Xor8(a \div 256, b \div 256) + Xor8(a % 256, b % 256)

(* v.to_bytes(n, "big"), and the n decimal digits of v. *)
Be(v, n)      == [i \in 1 .. n |-> (v \div 256 ^ (n - i)) % 256]
Decimal(v, n) == [i \in 1 .. n |-> (v \div 10 ^ (n - i)) % 10]

(* Python's b[i:j], and int.from_bytes(b[i:j], "big"). *)
Slice(b, i, j) == SubSeq(b, i + 1, IF j < Len(b) THEN j ELSE Len(b))
Num(b, i, j)   == Through(LAMBDA v, d : 256 * v + d, 0, Slice(b, i, j))

Bits(v, from, count) == (v \div 2 ^ from) % 2 ^ count

(* The XOR of all bytes, a bit at a time: jt808.py's xor(), and a loop of  *)
(* each reader.                                                            *)
Xored(data) ==
  LET Parity(k) == Cardinality({i \in DOMAIN data : Bits(data[i], k, 1) = 1}) % 2
  IN Through(LAMBDA v, k : 2 * v + Parity(8 - k), 0, [k \in 1 .. 8 |-> k])
================================================================================
