--------------------------- MODULE CanonicalOutput ---------------------------
(***************************************************************************)
(* What a run of the decoder benchmark promises its reader, whatever the   *)
(* order its connections' chunks arrive in: each connection's records, in  *)
(* the order of its own stream and with no byte of it missing, one         *)
(* connection after another.  A run that lost a record publishes nothing.  *)
(***************************************************************************)
EXTENDS Integers, Sequences, SequencesExt

CONSTANTS
  N,           \* the connections are 0 .. N - 1
  Wide         \* a length whose hex digits do not fit a field header

VARIABLES
  log,         \* each connection's records: where in the stream, how many bytes
  status,      \* "open", "lossy" once a record was lost, or "published"
  published    \* the published records

vars  == <<log, status, published>>
Conns == 0 .. N - 1

Init == log = [k \in Conns |-> <<>>] /\ status = "open" /\ published = <<>>

(* The first byte of a stream that no record of its log covers yet. *)
NextByte(l) == IF l = <<>> THEN 0 ELSE Last(l).at + Last(l).len

(* One more record for connection k. It starts where the last one ended,   *)
(* unless the run has already lost a record.                               *)
Deliver(k) ==
  /\ status # "published"
  /\ Len(log'[k]) = Len(log[k]) + 1
  /\ IsPrefix(log[k], log'[k])
  /\ status = "lossy" \/ Last(log'[k]).at = NextByte(log[k])
  /\ \A j \in Conns \ {k} : log'[j] = log[j]
  /\ UNCHANGED <<status, published>>

Lose ==
  /\ status = "open"
  /\ status' = "lossy"
  /\ UNCHANGED <<log, published>>

(* The logs, one after another in the order of the connections. *)
Canonical ==
  FlattenSeq([j \in 1 .. N |->
                [m \in 1 .. Len(log[j - 1]) |->
                   [conn |-> j - 1, at |-> log[j - 1][m].at, len |-> log[j - 1][m].len]]])

(* Only a record wider than the format can state may differ from its log. *)
Publish ==
  /\ status = "open"
  /\ status' = "published"
  /\ Len(published') = Len(Canonical)
  /\ \A m \in 1 .. Len(Canonical) :
       published'[m] = Canonical[m] \/ Canonical[m].len >= Wide
  /\ UNCHANGED log

Next == (\E k \in Conns : Deliver(k)) \/ Lose \/ Publish

Spec == Init /\ [][Next]_vars
==============================================================================
