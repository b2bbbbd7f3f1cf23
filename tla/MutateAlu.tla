------------------------------ MODULE MutateAlu ------------------------------
(***************************************************************************)
(* scripts/mutate-alu.sh: break rtl/04_alu.sv one edit at a time, run its  *)
(* testbench on each, and count the edits the bench does not notice. The   *)
(* script keeps the good file in a temporary copy and puts it back in a    *)
(* trap for EXIT, INT and TERM.                                            *)
(*                                                                         *)
(* A signal reaches the shell at any moment. bash runs the trap once the   *)
(* foreground command has ended, and then goes on with the next command:   *)
(* the handler has no exit. Ctrl-C also kills that foreground command;     *)
(* TERM, sent to the script alone, does not.                               *)
(***************************************************************************)
EXTENDS Integers, FiniteSets

CONSTANTS
  N,           \* the edits, 1 .. N, in the order the script tries them
  Site,        \* the text each edit replaces: two edits may share one
  Blinds,      \* the sets of edits a testbench may pass
  MaxSignals   \* how many signals a run gets: bounds the model

Edits == 1 .. N

ASSUME EditsAssumption  == N \in Nat \ {0} /\ Blinds \subseteq SUBSET Edits
ASSUME SiteAssumption   == Edits \subseteq DOMAIN Site
ASSUME SignalAssumption == MaxSignals \in Nat

VARIABLES
  blind,       \* the edits that this run's testbench passes; never changes
  alu,         \* the edits that rtl/04_alu.sv carries; {} is the good file
  good,        \* the temporary copy exists
  m,           \* the edit that mutate is at
  pc,
  passed,      \* the make that just ended printed PASS
  survivors,   \* the script's count
  signals,     \* signals so far
  pending,     \* the trap is to run when the foreground command ends
  ran,         \* the edits whose bench ran to its end, each alone in the file
  failed,      \* the edits whose make ended without running the bench
  status,      \* the script's exit status
  since        \* history: the first edit tried after the copy was removed, or 0

vars == <<blind, alu, good, m, pc, passed, survivors, signals, pending, ran, failed, status,
          since>>

NoStatus == -1

(* The script between the trap line and its first mutate. *)
Init ==
  /\ blind \in Blinds
  /\ alu = {} /\ good = TRUE
  /\ m = 1 /\ pc = "restore" /\ passed = FALSE /\ survivors = 0
  /\ signals = 0 /\ pending = FALSE /\ ran = {} /\ failed = {} /\ status = NoStatus
  /\ since = 0

(* `old not in s`: the edit's text is gone when an edit of its site stays. *)
Applies(e) == \A d \in alu : Site[d] # Site[e]

\* Mutant: mutate does not start from the good file.
Restored_Not == alu

Restored == IF good THEN {} ELSE alu

(* cp "$GOOD" "$ALU" at the top of mutate. Without the copy cp only fails. *)
Restore ==
  /\ pc = "restore" /\ m <= N /\ ~pending
  /\ alu' = Restored
  /\ pc' = "edit"
  /\ UNCHANGED <<blind, good, m, passed, survivors, signals, pending, ran, failed, status, since>>

\* Mutant: an edit that does not apply is reported and not counted.
Skipped_Uncounted == survivors

Skipped == survivors + 1

(* The Python edit. One that does not apply counts as a survivor. *)
Edit ==
  /\ pc = "edit" /\ ~pending
  /\ IF Applies(m)
       THEN alu' = alu \cup {m} /\ pc' = "make" /\ UNCHANGED <<blind, m, survivors>>
       ELSE survivors' = Skipped /\ m' = m + 1 /\ pc' = "restore" /\ UNCHANGED alu
  /\ UNCHANGED <<blind, good, passed, signals, pending, ran, failed, status, since>>

(* make alu runs to its end: it passes what carries only blind edits. *)
Make ==
  /\ pc = "make"
  /\ passed' = (alu \subseteq blind)
  /\ ran' = IF alu = {m} THEN ran \cup {m} ELSE ran
  /\ pc' = "judge"
  /\ UNCHANGED <<blind, alu, good, m, survivors, signals, pending, failed, status, since>>

(* make fails first: a tool is missing, or the edit does not compile.      *)
MakeFails ==
  /\ pc = "make"
  /\ passed' = FALSE
  /\ failed' = failed \cup {m}
  /\ pc' = "judge"
  /\ UNCHANGED <<blind, alu, good, m, survivors, signals, pending, ran, status, since>>

\* Mutant: the survivor is reported and not counted.
Survived_Uncounted == survivors

Survived == survivors + 1

(* No PASS line means killed, whatever the reason there is none. *)
Judge ==
  /\ pc = "judge" /\ ~pending
  /\ survivors' = IF passed THEN Survived ELSE survivors
  /\ m' = m + 1 /\ pc' = "restore"
  /\ UNCHANGED <<blind, alu, good, passed, signals, pending, ran, failed, status, since>>

Verdict == IF survivors = 0 THEN 0 ELSE 1

Report ==
  /\ pc = "restore" /\ m = N + 1 /\ ~pending
  /\ pc' = "exit_trap"
  /\ status' = Verdict
  /\ UNCHANGED <<blind, alu, good, m, passed, survivors, signals, pending, ran, failed, since>>

(* cp "$GOOD" "$ALU"; rm -f "$GOOD". The first time, the edit that is in   *)
(* the file, if one is, goes, and the next one is the first to stay.       *)
PutBack ==
  /\ alu' = (IF good THEN {} ELSE alu)
  /\ good' = FALSE
  /\ since' = IF ~good THEN since ELSE IF pc = "judge" THEN m + 1 ELSE m

\* Mutant: the handler signals the script again, itself still set.
SignalTrap_Reraises ==
  /\ pending
  /\ pc \in {"restore", "edit", "judge"}
  /\ PutBack
  /\ UNCHANGED <<blind, m, pc, passed, survivors, signals, pending, ran, failed, status>>

(* On INT and TERM: then the script goes on where it was. *)
SignalTrap ==
  /\ pending
  /\ pc \in {"restore", "edit", "judge"}
  /\ PutBack
  /\ pending' = FALSE
  /\ UNCHANGED <<blind, m, pc, passed, survivors, signals, ran, failed, status>>

ExitTrap ==
  /\ pc = "exit_trap"
  /\ PutBack
  /\ pc' = "exited"
  /\ UNCHANGED <<blind, m, passed, survivors, signals, pending, ran, failed, status>>

Script == Restore \/ Edit \/ Make \/ MakeFails \/ Judge \/ Report \/ SignalTrap \/ ExitTrap

(* Ctrl-C: the foreground command dies with it. A dead make printed no     *)
(* PASS; a dead edit is reported as skipped and counted as a survivor.     *)
CtrlC ==
  /\ pc \in {"restore", "edit", "make", "judge"} /\ signals < MaxSignals
  /\ signals' = signals + 1 /\ pending' = TRUE
  /\ \/ pc = "make" /\ pc' = "judge" /\ passed' = FALSE /\ UNCHANGED <<m, survivors>>
     \/ /\ pc = "edit" /\ pc' = "restore"
        /\ survivors' = Skipped /\ m' = m + 1 /\ UNCHANGED passed
     \/ pc # "make" /\ UNCHANGED <<pc, passed, m, survivors>>
  /\ UNCHANGED <<blind, alu, good, ran, failed, status, since>>

(* kill <script>: the foreground command goes on. *)
Term ==
  /\ pc \in {"restore", "edit", "make", "judge"} /\ signals < MaxSignals
  /\ signals' = signals + 1 /\ pending' = TRUE
  /\ UNCHANGED <<blind, alu, good, m, pc, passed, survivors, ran, failed, status, since>>

Exited == pc = "exited" /\ UNCHANGED vars

Next == Script \/ CtrlC \/ Term \/ Exited

Spec     == Init /\ [][Next]_vars
FairSpec == Spec /\ WF_vars(Script)

-----------------------------------------------------------------------------
(* Types. *)
TypeOK ==
  /\ blind \in Blinds
  /\ alu \subseteq Edits /\ good \in BOOLEAN
  /\ m \in 1 .. N + 1
  /\ pc \in {"restore", "edit", "make", "judge", "exit_trap", "exited"}
  /\ passed \in BOOLEAN /\ survivors \in 0 .. N
  /\ signals \in 0 .. MaxSignals /\ pending \in BOOLEAN
  /\ ran \subseteq Edits /\ failed \subseteq Edits
  /\ status \in {NoStatus, 0, 1} /\ since \in 0 .. N + 1

Undisturbed == signals = 0

(* While the copy exists, the bench sees the good file with one edit and   *)
(* no other: no fault hides another, whatever came before.                 *)
EachEditAlone == pc = "make" /\ good => alu = {m}

(* A run that no signal disturbs leaves the file as it found it, and exits *)
(* 0 exactly if every edit was tried and no bench that ran, each with its  *)
(* one edit, passed it: no survivor is missed, none is counted twice.      *)
UndisturbedVerdict ==
  pc = "exited" /\ Undisturbed =>
    /\ alu = {}
    /\ status = 0 <=> ran \cup failed = Edits /\ ran \cap blind = {}

(* What a signal costs. Without the copy nothing undoes an edit: what the  *)
(* file carries then was tried after the trap, never before it, and no two *)
(* edits of one text are in it. And a script that still reports every edit *)
(* killed has left each one it tried since in the file (none, when the     *)
(* copy lived to the end).                                                 *)
LeftBehind ==
  /\ ~good => /\ alu \subseteq since .. N
              /\ \A d, e \in alu : d # e => Site[d] # Site[e]
  /\ pc = "exited" /\ status = 0 => alu = since .. N

(* The script ends, however often it is signalled. *)
Ends == <>(pc = "exited")

-----------------------------------------------------------------------------
(* The script's header: "rtl/04_alu.sv is restored on every exit path,     *)
(* including Ctrl-C."                                                      *)
RestoredOnEveryExit == pc = "exited" => alu = {}

(* The same header: it "reruns the bench, and checks it goes red". So when *)
(* it reports that all mutations were killed, the bench ran on each.       *)
KilledByTheBench ==
  pc = "exited" /\ Undisturbed /\ status = 0 => ran = Edits
==============================================================================
