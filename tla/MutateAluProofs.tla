--------------------------- MODULE MutateAluProofs ---------------------------
(***************************************************************************)
(* Proofs about MutateAlu for any number of edits, any testbench and any   *)
(* number of signals: every edit meets the bench alone while the good copy *)
(* exists, the verdict of an undisturbed run can be trusted, and what a    *)
(* signal leaves in the file is known.                                     *)
(***************************************************************************)
EXTENDS MutateAlu, TLAPS

Working == {"edit", "make", "judge"}

(* What the script's place says of the file and the counts. *)
Place ==
  /\ pc \in Working => m <= N
  /\ survivors <= m - 1
  /\ pc = "edit" /\ good => alu = {}
  /\ pc = "make" /\ good => alu = {m}

(* A run without a signal: what was tried, what it found, and the file.    *)
Verdicts ==
  Undisturbed =>
    /\ ~pending /\ (pc # "exited" => good)
    /\ pc = "judge" => alu = {m}
    /\ ran \cup failed = IF pc = "judge" THEN 1 .. m ELSE 1 .. m - 1
    /\ pc = "judge" => (passed <=> m \in ran \cap blind)
    /\ survivors = 0 <=> \A e \in 1 .. m - 1 : e \notin ran \cap blind
    /\ pc \in {"exit_trap", "exited"} => m = N + 1 /\ (status = 0 <=> survivors = 0)
    /\ pc = "exited" => alu = {}

(* The edits tried so far. *)
Tried == IF pc \in {"make", "judge"} THEN m ELSE m - 1

(* The file once the copy is gone: some of the edits tried since, of        *)
(* different texts; all of them while none was skipped.                     *)
Left ==
  /\ good => since = 0
  /\ ~good => /\ since \in 1 .. Tried + 1
              /\ alu \subseteq since .. Tried
              /\ \A d, e \in alu : d # e => Site[d] # Site[e]
              /\ survivors = 0 => alu = since .. Tried
  /\ pc \in {"exit_trap", "exited"} => m = N + 1 /\ (status = 0 <=> survivors = 0)
  /\ pc = "exited" => ~good

IInv == TypeOK /\ Place /\ Verdicts /\ Left

Counts == /\ m \in Int /\ N \in Nat /\ 1 <= m /\ m <= N + 1
          /\ survivors \in Nat /\ survivors <= m - 1
          /\ signals \in Nat /\ MaxSignals \in Nat

LEMMA CountsType == IInv => Counts
BY EditsAssumption, SignalAssumption DEF IInv, TypeOK, Place, Counts

LEMMA InitInv == Init => IInv
<1> SUFFICES ASSUME Init PROVE IInv
  OBVIOUS
<1>1. TypeOK
  <2>1. good \in BOOLEAN /\ passed \in BOOLEAN /\ pending \in BOOLEAN
    BY Zenon DEF Init
  <2>2. /\ blind \in Blinds /\ alu \subseteq Edits /\ m \in 1 .. N + 1
        /\ survivors \in 0 .. N /\ signals \in 0 .. MaxSignals /\ ran \subseteq Edits
        /\ failed \subseteq Edits /\ pc = "restore" /\ status = NoStatus /\ since \in 0 .. N + 1
    BY EditsAssumption, SignalAssumption DEF Init
  <2> QED BY <2>1, <2>2 DEF TypeOK
<1>2. Place
  BY DEF Init, Place, Working
<1>3. Verdicts
  <2>1. m = 1 /\ 1 .. m - 1 = {} /\ survivors = 0 /\ ran = {} /\ failed = {} /\ pc = "restore"
    BY DEF Init
  <2>2. ~pending /\ good
    BY DEF Init
  <2> QED BY <2>1, <2>2 DEF Verdicts
<1>4. Left
  BY DEF Init, Left
<1> QED BY <1>1, <1>2, <1>3, <1>4 DEF IInv

-----------------------------------------------------------------------------
(* Types. *)

LEMMA TypeStep == IInv /\ Next => TypeOK'
<1> SUFFICES ASSUME IInv, Next PROVE TypeOK'
  OBVIOUS
<1>1. TypeOK /\ Place /\ Counts
  BY CountsType DEF IInv
<1>2. good' \in BOOLEAN /\ passed' \in BOOLEAN /\ pending' \in BOOLEAN
  <2>1. good' = good \/ good' = FALSE
    BY DEF Next, Script, Restore, Edit, Make, MakeFails, Judge, Report, SignalTrap, ExitTrap, CtrlC,
           Term, Exited, PutBack, vars
  <2>2. pending' = pending \/ pending' = FALSE \/ pending' = TRUE
    BY DEF Next, Script, Restore, Edit, Make, MakeFails, Judge, Report, SignalTrap, ExitTrap, CtrlC,
           Term, Exited, vars
  <2>3. passed' = passed \/ passed' = FALSE \/ passed' = (alu \subseteq blind)
    BY DEF Next, Script, Restore, Edit, Make, MakeFails, Judge, Report, SignalTrap, ExitTrap, CtrlC,
           Term, Exited, vars
  <2> QED BY Zenon, <1>1, <2>1, <2>2, <2>3 DEF TypeOK
<1>3. blind' = blind
  BY DEF Next, Script, Restore, Edit, Make, MakeFails, Judge, Report, SignalTrap, ExitTrap, CtrlC,
         Term, Exited, vars
<1>4. pc' \in {"restore", "edit", "make", "judge", "exit_trap", "exited"}
  BY <1>1 DEF TypeOK, Next, Script, Restore, Edit, Make, MakeFails, Judge, Report, SignalTrap,
         ExitTrap, CtrlC, Term, Exited, vars
<1>5. alu' \subseteq Edits /\ ran' \subseteq Edits /\ failed' \subseteq Edits
  <2>1. m \in Edits \/ pc \notin Working
    BY <1>1 DEF Place, Counts, Edits
  <2>2. alu' \in {alu, {}, alu \cup {m}} /\ (alu' = alu \cup {m} => alu' = alu \/ pc = "edit")
    BY DEF Next, Script, Restore, Restored, Edit, Make, MakeFails, Judge, Report, SignalTrap,
           ExitTrap, CtrlC, Term, Exited, PutBack, vars
  <2>3. ran' = ran \/ (ran' = ran \cup {m} /\ pc = "make")
    BY DEF Next, Script, Restore, Edit, Make, MakeFails, Judge, Report, SignalTrap, ExitTrap, CtrlC,
           Term, Exited, vars
  <2>4. failed' = failed \/ (failed' = failed \cup {m} /\ pc = "make")
    BY DEF Next, Script, Restore, Edit, Make, MakeFails, Judge, Report, SignalTrap, ExitTrap,
           CtrlC, Term, Exited, vars
  <2> QED BY <1>1, <2>1, <2>2, <2>3, <2>4 DEF TypeOK, Working
<1>6. m' \in 1 .. N + 1 /\ survivors' \in 0 .. N /\ signals' \in 0 .. MaxSignals
  <2>1. \/ m' = m /\ survivors' = survivors
        \/ /\ pc \in Working /\ m' = m + 1
           /\ survivors' = survivors \/ survivors' = survivors + 1
    BY DEF Next, Script, Restore, Edit, Make, MakeFails, Judge, Report, SignalTrap, ExitTrap, CtrlC,
           Term, Exited, vars, Survived, Skipped, Working
  <2>2. signals' = signals \/ (signals < MaxSignals /\ signals' = signals + 1)
    BY DEF Next, Script, Restore, Edit, Make, MakeFails, Judge, Report, SignalTrap, ExitTrap, CtrlC,
           Term, Exited, vars
  <2> QED BY <1>1, <2>1, <2>2 DEF Counts, Place, TypeOK
<1>7. status' \in {NoStatus, 0, 1}
  BY <1>1 DEF TypeOK, Next, Script, Restore, Edit, Make, MakeFails, Judge, Report, SignalTrap,
         ExitTrap, CtrlC, Term, Exited, vars, Verdict
<1>8. since' \in 0 .. N + 1
  <2>1. \/ since' = since
        \/ since' = m
        \/ pc = "judge" /\ since' = m + 1
    BY DEF Next, Script, Restore, Edit, Make, MakeFails, Judge, Report, SignalTrap, ExitTrap,
           CtrlC, Term, Exited, PutBack, vars
  <2>2. pc = "judge" => m <= N
    BY <1>1 DEF Place, Working
  <2> QED BY <1>1, <2>1, <2>2 DEF TypeOK, Counts
<1> QED BY <1>1, <1>2, <1>3, <1>4, <1>5, <1>6, <1>7, <1>8 DEF TypeOK

-----------------------------------------------------------------------------
(* The place. *)

LEMMA PlaceStep == IInv /\ Next => Place'
<1> SUFFICES ASSUME IInv, Next PROVE Place'
  OBVIOUS
<1> USE DEF Place, Working
<1>1. Place /\ Counts /\ pc \in {"restore", "edit", "make", "judge", "exit_trap", "exited"}
  BY CountsType DEF IInv, TypeOK
<1>2. CASE Restore
  BY <1>1, <1>2 DEF Restore, Restored
<1>3. CASE Edit
  <2>1. CASE Applies(m)
    BY <1>1, <1>3, <2>1 DEF Edit
  <2>2. CASE ~Applies(m)
    BY <1>1, <1>3, <2>2 DEF Edit, Skipped, Counts
  <2> QED BY <2>1, <2>2
<1>4. CASE Make \/ MakeFails
  BY <1>1, <1>4 DEF Make, MakeFails
<1>5. CASE Judge
  BY <1>1, <1>5 DEF Judge, Survived, Counts
<1>6. CASE Report
  BY <1>1, <1>6 DEF Report
<1>7. CASE SignalTrap
  BY <1>1, <1>7 DEF SignalTrap, PutBack
<1>8. CASE ExitTrap
  BY <1>1, <1>8 DEF ExitTrap
<1>9. CASE CtrlC
  <2>1. alu' = alu /\ good' = good
    BY <1>9 DEF CtrlC
  <2>2. CASE pc = "make" /\ pc' = "judge" /\ UNCHANGED <<m, survivors>>
    BY <1>1, <2>1, <2>2
  <2>3. CASE pc = "edit" /\ pc' = "restore" /\ survivors' = survivors + 1 /\ m' = m + 1
    BY <1>1, <2>1, <2>3 DEF Counts
  <2>4. CASE UNCHANGED <<pc, m, survivors>>
    BY <1>1, <2>1, <2>4
  <2> QED BY <1>9, <2>2, <2>3, <2>4 DEF CtrlC, Skipped
<1>10. CASE Term
  BY <1>1, <1>10 DEF Term
<1>11. CASE Exited
  BY <1>1, <1>11 DEF Exited, vars
<1> QED BY <1>2, <1>3, <1>4, <1>5, <1>6, <1>7, <1>8, <1>9, <1>10, <1>11 DEF Next, Script

-----------------------------------------------------------------------------
(* The verdict of an undisturbed run. *)

LEMMA UpToNext ==
  ASSUME NEW n \in Nat \ {0}
  PROVE  /\ 1 .. (n + 1) - 1 = 1 .. n
         /\ 1 .. n = (1 .. n - 1) \cup {n}
OBVIOUS

LEMMA VerdictsStep == IInv /\ Next => Verdicts'
<1> SUFFICES ASSUME IInv, Next, Undisturbed' PROVE Verdicts'
  BY DEF Verdicts
<1>1. Verdicts /\ Place /\ Counts /\ TypeOK
  BY CountsType DEF IInv
<1>2. Undisturbed /\ signals' = signals /\ ~CtrlC /\ ~Term
  BY <1>1 DEF Undisturbed, Counts, Next, Script, Restore, Edit, Make, MakeFails, Judge, Report,
              SignalTrap, ExitTrap, CtrlC, Term, Exited, vars
<1>3. ~pending /\ (pc # "exited" => good)
  BY <1>1, <1>2 DEF Verdicts
<1>4. /\ 1 .. (m + 1) - 1 = 1 .. m
      /\ 1 .. m = (1 .. m - 1) \cup {m}
  BY <1>1, UpToNext DEF Counts
<1>5. CASE Restore
  <2>1. UNCHANGED <<blind, good, m, survivors, pending, ran, failed>> /\ pc = "restore" /\ pc' = "edit"
    BY <1>5 DEF Restore
  <2> QED BY <1>1, <1>2, <1>3, <2>1 DEF Verdicts
<1>6. CASE Edit
  <2>1. pc = "edit" /\ alu = {}
    BY <1>1, <1>3, <1>6 DEF Edit, Place
  <2>2. Applies(m)
    BY <2>1 DEF Applies
  <2>3. /\ UNCHANGED <<blind, good, m, survivors, pending, ran, failed>> /\ pc' = "make"
    BY <1>6, <2>2 DEF Edit
  <2> QED BY <1>1, <1>2, <1>3, <2>1, <2>3 DEF Verdicts
<1>7. CASE Make \/ MakeFails
  <2>1. /\ pc = "make" /\ alu = {m} /\ pc' = "judge" /\ alu' = alu
        /\ UNCHANGED <<blind, good, m, survivors, pending>>
    BY <1>1, <1>3, <1>7 DEF Make, MakeFails, Place
  <2>2. \/ ran' = ran \cup {m} /\ failed' = failed /\ (passed' <=> m \in blind)
        \/ ran' = ran /\ failed' = failed \cup {m} /\ ~passed'
    <3>1. CASE Make
      <4>1. (alu \subseteq blind) <=> m \in blind
        BY <2>1
      <4>2. ran' = ran \cup {m} /\ failed' = failed
        BY <2>1, <3>1 DEF Make
      <4>3. passed' = (alu \subseteq blind)
        BY <3>1 DEF Make
      <4> QED BY <4>1, <4>2, <4>3
    <3>2. CASE MakeFails
      BY <3>2 DEF MakeFails
    <3> QED BY <1>7, <3>1, <3>2
  <2>3. ran \cup failed = 1 .. m - 1
    BY <1>1, <1>2, <2>1 DEF Verdicts
  <2>4. ran' \cup failed' = 1 .. m
    BY <1>4, <2>2, <2>3
  <2>5. m \notin ran
    BY <1>1, <2>3 DEF Counts
  <2>6. passed' <=> m \in ran' \cap blind
    BY <2>2, <2>5
  <2>7. \A e \in 1 .. m - 1 : e \in ran' <=> e \in ran
    BY <1>1, <2>2 DEF Counts
  <2>8. survivors = 0 <=> \A e \in 1 .. m - 1 : e \notin ran' \cap blind
    BY <1>1, <1>2, <2>7 DEF Verdicts
  <2> QED BY <1>1, <1>2, <1>3, <2>1, <2>4, <2>6, <2>8 DEF Verdicts
<1>8. CASE Judge
  <2>1. /\ pc = "judge" /\ pc' = "restore" /\ m' = m + 1
        /\ UNCHANGED <<blind, good, pending, ran, failed, alu>>
        /\ survivors' = IF passed THEN survivors + 1 ELSE survivors
    BY <1>8 DEF Judge, Survived
  <2>2. ran' \cup failed' = 1 .. m' - 1
    BY <1>1, <1>2, <1>4, <2>1 DEF Verdicts
  <2>3. passed <=> m \in ran \cap blind
    BY <1>1, <1>2, <2>1 DEF Verdicts
  <2>4. survivors = 0 <=> \A e \in 1 .. m - 1 : e \notin ran \cap blind
    BY <1>1, <1>2 DEF Verdicts
  <2>5. 1 .. m' - 1 = (1 .. m - 1) \cup {m}
    BY <1>4, <2>1
  <2>6. survivors' = 0 <=> survivors = 0 /\ ~passed
    BY <1>1, <2>1 DEF Counts
  <2>7. survivors' = 0 <=> \A e \in 1 .. m' - 1 : e \notin ran' \cap blind'
    BY <2>1, <2>3, <2>4, <2>5, <2>6
  <2> QED BY <1>3, <2>1, <2>2, <2>7 DEF Verdicts
<1>9. CASE Report
  <2>1. /\ pc = "restore" /\ pc' = "exit_trap" /\ m = N + 1
        /\ UNCHANGED <<blind, good, m, survivors, pending, ran, failed>>
        /\ status' = 0 <=> survivors = 0
    BY <1>9 DEF Report, Verdict
  <2> QED BY <1>1, <1>2, <1>3, <2>1 DEF Verdicts
<1>10. CASE SignalTrap
  BY <1>3, <1>10 DEF SignalTrap
<1>11. CASE ExitTrap
  <2>1. /\ pc = "exit_trap" /\ pc' = "exited" /\ alu' = {}
        /\ UNCHANGED <<blind, m, survivors, pending, ran, failed, status>>
    BY <1>3, <1>11 DEF ExitTrap, PutBack
  <2> QED BY <1>1, <1>2, <1>3, <2>1 DEF Verdicts
<1>12. CASE Exited
  <2>1. UNCHANGED <<blind, alu, good, m, pc, passed, survivors, pending, ran, failed, status>>
    BY <1>12 DEF Exited, vars
  <2> QED BY <1>1, <1>2, <2>1 DEF Verdicts
<1> QED BY <1>2, <1>5, <1>6, <1>7, <1>8, <1>9, <1>10, <1>11, <1>12 DEF Next, Script

-----------------------------------------------------------------------------
(* The file once the copy is gone. *)

LEMMA LeftStep == IInv /\ Next => Left'
<1> SUFFICES ASSUME IInv, Next PROVE Left'
  OBVIOUS
<1>1. /\ Left /\ Place /\ Counts /\ good \in BOOLEAN /\ alu \subseteq Edits /\ since \in Int
      /\ pc \in {"restore", "edit", "make", "judge", "exit_trap", "exited"}
  BY CountsType DEF IInv, TypeOK
<1>2. CASE Restore
  <2>1. /\ pc = "restore" /\ pc' = "edit" /\ UNCHANGED <<good, m, survivors, status, since>>
        /\ ~good => alu' = alu
    BY <1>2 DEF Restore, Restored
  <2> QED BY <1>1, <2>1 DEF Left, Tried
<1>3. CASE Edit
  <2>1. pc = "edit" /\ UNCHANGED <<good, status, since>>
    BY <1>3 DEF Edit
  <2>2. CASE Applies(m)
    <3>1. alu' = alu \cup {m} /\ pc' = "make" /\ UNCHANGED <<m, survivors>>
      BY <1>3, <2>2 DEF Edit
    <3>2. Tried = m - 1 /\ Tried' = m
      BY <2>1, <3>1 DEF Tried
    <3>3. ASSUME ~good
          PROVE  /\ since \in 1 .. m + 1 /\ alu' \subseteq since .. m
                 /\ survivors = 0 => alu' = since .. m
      <4>1. since \in 1 .. m /\ alu \subseteq since .. m - 1 /\ (survivors = 0 => alu = since .. m - 1)
        BY <1>1, <3>2, <3>3 DEF Left, Counts
      <4>2. since .. m = (since .. m - 1) \cup {m}
        BY <1>1, <4>1 DEF Counts
      <4>3. since \in 1 .. m + 1
        BY <1>1, <4>1 DEF Counts
      <4> QED BY <3>1, <4>1, <4>2, <4>3
    <3>4. ASSUME ~good, NEW d \in alu', NEW e \in alu', d # e
          PROVE  Site[d] # Site[e]
      BY <1>1, <2>2, <3>1, <3>4 DEF Left, Applies
    <3> QED BY <1>1, <2>1, <3>1, <3>2, <3>3, <3>4 DEF Left
  <2>3. CASE ~Applies(m)
    <3>1. survivors' = survivors + 1 /\ m' = m + 1 /\ pc' = "restore" /\ alu' = alu
      BY <1>3, <2>3 DEF Edit, Skipped
    <3>2. Tried = m - 1 /\ Tried' = m /\ survivors' # 0
      BY <1>1, <2>1, <3>1 DEF Tried, Counts
    <3>3. ~good => since \in 1 .. m + 1 /\ alu \subseteq since .. m
      BY <1>1, <3>2 DEF Left, Counts
    <3> QED BY <1>1, <2>1, <3>1, <3>2, <3>3 DEF Left
  <2> QED BY <2>2, <2>3
<1>4. CASE Make \/ MakeFails
  <2>1. pc = "make" /\ pc' = "judge" /\ UNCHANGED <<alu, good, m, survivors, status, since>>
    BY <1>4 DEF Make, MakeFails
  <2> QED BY <1>1, <2>1 DEF Left, Tried
<1>5. CASE Judge
  <2>1. /\ pc = "judge" /\ pc' = "restore" /\ m' = m + 1 /\ UNCHANGED <<alu, good, status, since>>
        /\ survivors' = survivors \/ survivors' = survivors + 1
    BY <1>5 DEF Judge, Survived
  <2>2. Tried = m /\ Tried' = m
    BY <1>1, <2>1 DEF Tried, Counts
  <2>3. survivors' = 0 => survivors = 0
    BY <1>1, <2>1 DEF Counts
  <2> QED BY <1>1, <2>1, <2>2, <2>3 DEF Left
<1>6. CASE Report
  <2>1. /\ pc = "restore" /\ pc' = "exit_trap" /\ m = N + 1
        /\ UNCHANGED <<alu, good, m, survivors, since>>
        /\ status' = 0 <=> survivors = 0
    BY <1>6 DEF Report, Verdict
  <2>2. Tried' = Tried
    BY <2>1 DEF Tried
  <2> QED BY <1>1, <2>1, <2>2 DEF Left
<1>7. CASE PutBack /\ UNCHANGED <<m, survivors, status>> /\ (SignalTrap \/ ExitTrap)
  <2>1. ~good' /\ Tried' = Tried
    BY <1>7 DEF PutBack, SignalTrap, ExitTrap, Tried
  <2>2. pc' \in {"exit_trap", "exited"} => m' = N + 1 /\ (status' = 0 <=> survivors' = 0)
    BY <1>1, <1>7 DEF SignalTrap, ExitTrap, Left
  <2>3. CASE good
    <3>1. alu' = {} /\ since' = IF pc = "judge" THEN m + 1 ELSE m
      BY <1>7, <2>3 DEF PutBack
    <3>2. since' = Tried + 1
      BY <1>1, <1>7, <3>1 DEF SignalTrap, ExitTrap, Tried, Counts
    <3>3. Tried \in Nat
      BY <1>1 DEF Tried, Counts
    <3>4. since' \in 1 .. Tried + 1 /\ since' .. Tried = {}
      BY <3>2, <3>3
    <3> QED BY <2>1, <2>2, <3>1, <3>4 DEF Left
  <2>4. CASE ~good
    <3>1. alu' = alu /\ since' = since
      BY <1>7, <2>4 DEF PutBack
    <3> QED BY <1>1, <1>7, <2>1, <2>2, <2>4, <3>1 DEF Left
  <2> QED BY <2>3, <2>4
<1>8. CASE CtrlC
  <2>1. /\ UNCHANGED <<alu, good, status, since>>
        /\ pc \in {"restore", "edit", "make", "judge"} /\ pc' \in {"restore", "edit", "make", "judge"}
    BY <1>8 DEF CtrlC
  <2>2. CASE pc = "make" /\ pc' = "judge" /\ UNCHANGED <<m, survivors>>
    BY <1>1, <2>1, <2>2 DEF Left, Tried
  <2>3. CASE pc = "edit" /\ pc' = "restore" /\ survivors' = survivors + 1 /\ m' = m + 1
    <3>1. Tried = m - 1 /\ Tried' = m /\ survivors' # 0
      BY <1>1, <2>3 DEF Tried, Counts
    <3>2. ~good => since \in 1 .. m + 1 /\ alu \subseteq since .. m
      BY <1>1, <3>1 DEF Left, Counts
    <3> QED BY <1>1, <2>1, <2>3, <3>1, <3>2 DEF Left
  <2>4. CASE UNCHANGED <<pc, m, survivors>>
    BY <1>1, <2>1, <2>4 DEF Left, Tried
  <2> QED BY <1>8, <2>2, <2>3, <2>4 DEF CtrlC, Skipped
<1>9. CASE Term \/ Exited
  <2>1. UNCHANGED <<alu, good, m, pc, survivors, status, since>>
    BY <1>9 DEF Term, Exited, vars
  <2> QED BY <1>1, <2>1 DEF Left, Tried
<1>10. (SignalTrap \/ ExitTrap) => PutBack /\ UNCHANGED <<m, survivors, status>>
  BY DEF SignalTrap, ExitTrap
<1> QED BY <1>2, <1>3, <1>4, <1>5, <1>6, <1>7, <1>8, <1>9, <1>10 DEF Next, Script

LEMMA Inductive == IInv /\ [Next]_vars => IInv'
<1>1. ASSUME IInv, UNCHANGED vars PROVE IInv'
  <2>1. UNCHANGED <<blind, alu, good, m, pc, passed, survivors, signals, pending, ran,
                    failed, status, since>>
    BY <1>1 DEF vars
  <2>2. TypeOK'
    <3>1. good' \in BOOLEAN /\ passed' \in BOOLEAN /\ pending' \in BOOLEAN
      BY Zenon, <1>1, <2>1 DEF IInv, TypeOK
    <3> QED BY <1>1, <2>1, <3>1 DEF IInv, TypeOK
  <2>3. Place' /\ Verdicts' /\ Left'
    BY <1>1, <2>1 DEF IInv, Place, Verdicts, Undisturbed, Left, Tried
  <2> QED BY <2>2, <2>3 DEF IInv
<1> QED BY <1>1, TypeStep, PlaceStep, VerdictsStep, LeftStep DEF IInv

LEMMA Invariance == Spec => []IInv
BY InitInv, Inductive, PTL DEF Spec

-----------------------------------------------------------------------------
(* The results, for every number of edits and of signals. *)

(* Every variable of the script keeps its type. *)
THEOREM TypeCorrect == Spec => []TypeOK
<1>1. IInv => TypeOK
  BY DEF IInv
<1> QED BY <1>1, Invariance, PTL

(* While the good copy exists, no edit is tested with another in the file. *)
THEOREM EditsAlone == Spec => []EachEditAlone
<1>1. IInv => EachEditAlone
  BY DEF IInv, Place, EachEditAlone
<1> QED BY <1>1, Invariance, PTL

(* A run without a signal restores the file, and exits 0 exactly if every  *)
(* edit was tried and no bench that ran passed one.                        *)
THEOREM VerdictTrusted == Spec => []UndisturbedVerdict
<1>1. IInv => UndisturbedVerdict
  <2> SUFFICES ASSUME IInv, pc = "exited", Undisturbed
               PROVE  alu = {} /\ (status = 0 <=> ran \cup failed = Edits /\ ran \cap blind = {})
    BY DEF UndisturbedVerdict
  <2>1. alu = {} /\ m = N + 1 /\ (status = 0 <=> survivors = 0)
    BY DEF IInv, Verdicts
  <2>2. 1 .. m - 1 = Edits
    BY <2>1, EditsAssumption DEF Edits
  <2>3. /\ ran \cup failed = Edits
        /\ survivors = 0 <=> \A e \in Edits : e \notin ran \cap blind
    BY <2>2 DEF IInv, Verdicts
  <2> QED BY <2>1, <2>3
<1> QED BY <1>1, Invariance, PTL

(* Once a signal has removed the good copy, the file carries only edits    *)
(* tried since, no two of one text; and a run that reports every edit      *)
(* killed leaves in it each edit tried after the trap.                     *)
THEOREM WhatIsLeft == Spec => []LeftBehind
<1>1. IInv => LeftBehind
  <2> SUFFICES ASSUME IInv PROVE LeftBehind
    OBVIOUS
  <2>1. Left /\ Counts /\ Place
    BY CountsType DEF IInv
  <2>2. Tried \in Int /\ Tried <= N
    BY <2>1 DEF Tried, Place, Working, Counts
  <2>3. ASSUME ~good PROVE since .. Tried \subseteq since .. N
    BY <2>1, <2>2, <2>3 DEF Left, Counts
  <2>4. ASSUME pc = "exited", status = 0 PROVE alu = since .. N
    <3>1. ~good /\ m = N + 1 /\ survivors = 0
      BY <2>1, <2>4 DEF Left
    <3>2. Tried = N
      BY <2>1, <2>4, <3>1 DEF Tried, Counts
    <3> QED BY <2>1, <3>1, <3>2 DEF Left
  <2> QED BY <2>1, <2>3, <2>4 DEF LeftBehind, Left
<1> QED BY <1>1, Invariance, PTL
==============================================================================
