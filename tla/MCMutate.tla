------------------------------- MODULE MCMutate --------------------------------
(***************************************************************************)
(* Two of mutate.py's source faults: one that still applies where it was   *)
(* left, and so may be in its file twice, and the one of the link script;  *)
(* and two of its corrupted stimuli.                                       *)
(***************************************************************************)
EXTENDS MutateProperties

MCSourceFaults == <<
  [name |-> "order", file |-> "harness.c", check |-> "stub", blocked |-> {}],
  [name |-> "moves", file |-> "link.ld", check |-> "same-decoder", blocked |-> {"moves"}]
>>
MCStimulusFaults == <<"version 1", "payload total">>
================================================================================
