------------------------------- MODULE Delivery -------------------------------
(***************************************************************************)
(* What a stimulus promises the decoder that reads it: the bytes of each   *)
(* connection reach it in order, none missing and none twice, however the  *)
(* connections are interleaved (bench/SPEC.md section 3, rule R17). Byte b *)
(* of a connection is the number b, counted from 0.                        *)
(***************************************************************************)
EXTENDS Naturals, Sequences, SequencesExt

VARIABLES
  size,    \* the length of each connection's stream; <<>> until it is fixed
  got      \* the bytes of each connection handed over so far

vars == <<size, got>>

Init == size = <<>> /\ got = <<>>

(* The streams are fixed before the first chunk of any is handed over. *)
Open ==
  /\ size = <<>>
  /\ size' \in Seq(Nat \ {0}) \ {<<>>}
  /\ got' = [c \in DOMAIN size' |-> <<>>]

(* One more chunk, of connection c: its next n bytes. *)
Hand(c) ==
  /\ \E n \in 1 .. size[c] - Len(got[c]) :
       got'[c] = got[c] \o [i \in 1 .. n |-> Len(got[c]) + i - 1]
  /\ DOMAIN got' = DOMAIN got
  /\ \A d \in DOMAIN got \ {c} : got'[d] = got[d]
  /\ UNCHANGED size

Next == Open \/ \E c \in DOMAIN size : Hand(c)

(* Every stream that is fixed is handed over whole. *)
Whole == \A c \in DOMAIN size : Len(got[c]) = size[c]

Spec == Init /\ [][Next]_vars /\ (size # <<>> ~> Whole)
==============================================================================
