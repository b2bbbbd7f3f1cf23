---------------------------- MODULE MutateProperties ---------------------------
(***************************************************************************)
(* What Mutate must keep: each fault tried alone, against a build and a    *)
(* stimulus that are what they are called, and put back after its case.    *)
(***************************************************************************)
EXTENDS Mutate, FiniteSetsExt

(* How many faults, or cuts, the source files hold. *)
Faults == MapThenSumSet(LAMBDA f : Len(src[f]), Files)

Editing == {"opened", "restore", "restoring"}

(* A signal that may leave its fault, or a cut file, behind. *)
Leaves(signal) ==
  /\ signal[3]
  /\ \/ signal[1] = "TERM" /\ signal[2] \in Building \union Editing
     \/ signal[1] = "INT" /\ signal[2] \in {"restore", "restoring"}

(* While a case is built and run, its own fault is in its file, and the    *)
(* sources hold no other; outside of a case they hold none: but for the    *)
(* one that each SIGTERM inside an edit, or interrupt of the finally       *)
(* itself, left, in this run or one before. So it is whatever hung, failed *)
(* or was interrupted elsewhere ("Each case below changes one source       *)
(* file", and source_fault's try and finally). With one fault more, a      *)
(* verdict would be about two faults.                                      *)
FaultAlone ==
  LET left == Cardinality({k \in DOMAIN signals : Leaves(signals[k])}) IN
  /\ pc \in Building /\ IsSource => Last(src[Fault.file]) = Fault.name /\ Faults <= left + 1
  /\ pc \notin Editing /\ ~(pc \in Building /\ IsSource) => Faults <= left

(* What Spike runs is what its build directory is called (the Makefile's   *)
(* "one stimulus cannot run under another's name"): the image is of these  *)
(* sources and of this directory's stimulus, the directory's manifest      *)
(* names that stimulus, and its three files were written by one run of     *)
(* the generator, however often a generator was killed between them. And   *)
(* no corrupted stimulus is refused for its manifest: "only the harness's  *)
(* own check can stop it".                                                 *)
RunsWhatItNames ==
  /\ pc = "spike" =>
       /\ Build.image = <<src, dirs[make.stim].stimulus>>
       /\ make.stim = "coverage-1" => \E v \in {"old", "new"} : dirs["coverage-1"] = Version(v)
  /\ pc = "manifest" /\ ~IsSource => Build.stimulus = dirs["tmp"].manifest

(* Every run of the script ends, whatever hangs: "a fault that hangs Spike *)
(* is reported as a hang instead of stopping this script".                 *)
EveryRunEnds == Running ~> ~Running

(* mutate.py:8-9: "Every source file is restored after its case, whatever  *)
(* happens." It is not: SIGTERM inside an edit leaves the fault in place.  *)
RestoredWhateverHappens == ~Running => \A f \in Files : src[f] = <<>>
================================================================================
