------------------------------- MODULE MCTraffic -------------------------------
(* Parameter files for TLC: each lets one part of the generator vary. *)
EXTENDS TrafficProperties

NoFaults == [f \in ToSet(FAULTS) |-> 0]

Plain ==
  [connections |-> 2, frames |-> 3, assignment |-> "equal",
   protocols |-> {"gt06"}, versions |-> {2013}, sentences |-> FALSE, lengths |-> {7},
   sums |-> [t \in Tables |-> 8],
   faults_ppm |-> NoFaults, garbage |-> [rate_ppm |-> 0, length |-> <<1, 1>>],
   chunk_size |-> <<5, 5>>, interleave |-> "sequential"]

(* Every fault and version, with the rates summing to PPM; the lengths     *)
(* put the length field next to 0 and at its limit.                        *)
Faulty ==
  [Plain EXCEPT !.connections = 1, !.frames = 2, !.protocols = {"gt06", "jt808"},
     !.versions = {2013, 2019}, !.sentences = TRUE, !.lengths = {6, 13},
     !.faults_ppm = [f \in ToSet(FAULTS) |-> IF f = "bad_checksum" THEN 2 ELSE 1],
     !.chunk_size = <<20, 20>>]

(* Garbage before some frames, frames dealt at random. *)
Noisy ==
  [Plain EXCEPT !.frames = 4, !.assignment = "uniform", !.protocols = {"jt808"},
     !.garbage = [rate_ppm |-> 3, length |-> <<1, 2>>],
     !.faults_ppm = [NoFaults EXCEPT !["truncated"] = 2], !.lengths = {6},
     !.chunk_size = <<8, 8>>, !.interleave = "round_robin"]

(* Three connections whose streams are cut in every way. *)
Mixed(mode) ==
  [Plain EXCEPT !.connections = 3, !.frames = 4, !.lengths = {6},
     !.chunk_size = <<4, 6>>, !.interleave = mode]

(* Files that validate() refuses. *)
Refused ==
  {[Plain EXCEPT !.connections = 0], [Plain EXCEPT !.frames = 1],
   [Plain EXCEPT !.chunk_size = <<0, 3>>],
   [Plain EXCEPT !.garbage = [rate_ppm |-> 3, length |-> <<0, 2>>]],
   [Plain EXCEPT !.faults_ppm = [f \in ToSet(FAULTS) |-> 2]],
   [Plain EXCEPT !.lengths = {14}], [Plain EXCEPT !.protocols = {}, !.sums["protocols"] = 0]}

(* Files that validate() lets through though a draw may not return: a sum  *)
(* or a range of one more value than next64 has.                           *)
TooWide ==
  {[Faulty EXCEPT !.sums[t] = 9] : t \in Tables}
    \cup {[Noisy EXCEPT !.frames = 3, !.garbage.length = <<1, 9>>]}

MCParams ==
  {Faulty, Noisy} \cup Refused \cup TooWide \cup {Mixed(m) : m \in {"sequential", "round_robin", "uniform"}}
================================================================================
