------------------------------ MODULE HtifProofs -------------------------------
(***************************************************************************)
(* Proofs about Htif for every text, every buffer size and every moment at *)
(* which the host looks: no command is lost, each write has one answer,    *)
(* and a run that ends with main's own code has written the whole text.    *)
(***************************************************************************)
EXTENDS Htif, SequenceTheorems, TLAPS

Before  == {"write_ready", "write_lo"}
Writing == {"write_hi", "write_wait"}
Exiting == {"exit_lo", "exit_hi"}

(* The host has a SYS_write to take. *)
Asked == pc \in Writing /\ lo = MagicAddr

(* What the program's place says of the two words.                         *)
Device ==
  /\ pc \in Writing => /\ hi = 0
                       /\ \/ lo = MagicAddr /\ answer = FALSE /\ fromhost = 0
                          \/ lo = 0 /\ answer = TRUE /\ fromhost = 0
                          \/ lo = 0 /\ answer = FALSE /\ fromhost = 1
  /\ pc \notin Writing => lo <= 255 /\ answer = FALSE /\ fromhost = 0
  /\ pc \in Before \cup {"write_result", "char_lo"} => tohostClear
  /\ pc = "char_hi" => hi = 0
  /\ pc \in Exiting => hi = 0 /\ lo \in {0, ExitWord}
  /\ path = "proxy" => pc \notin {"char_lo", "char_hi"} /\ (pc \in {"main", "drain"} => tohostClear)
  /\ path = "console" => pc \notin Before \cup Writing \cup {"write_result"}
  /\ torn => path = "console" /\ host # "running"

(* The screen shows the beginning of the text.                             *)
Prefix == Len(screen) <= k /\ \A i \in 1 .. Len(screen) : screen[i] = msg[i]

(* The buffer holds what the screen still lacks, until the host has        *)
(* written `magic` bytes of it.                                            *)
ProxyInv ==
  path = "proxy" =>
    /\ Prefix /\ host # "fault"
    /\ pc \in {"main"} \cup Before \/ Asked =>
         Len(screen) + Len(text) = k /\ \A i \in 1 .. Len(text) : text[i] = msg[Len(screen) + i]
    /\ pc \in Before \/ Asked => magic = Len(text)
    /\ (pc \in Writing /\ lo = 0) \/ pc = "write_result" => Len(screen) + Len(text) = k + magic
    /\ pc \in {"drain"} \cup Exiting =>
         exit_code = 5 \/ (exit_code = main_code /\ Len(screen) = Len(msg))
    /\ host = "exited" => status = exit_code /\ pc \in Exiting

(* The screen lacks at most the character that is in tohost. *)
ConsoleInv ==
  path = "console" /\ ~torn =>
    /\ Prefix /\ host # "fault"
    /\ pc \in {"char_lo", "char_hi"} => Len(screen) = k /\ k < Len(msg)
    /\ pc = "char_hi" => lo = msg[k + 1]
    /\ pc \in {"main", "drain"} =>
         \/ tohostClear /\ Len(screen) = k
         \/ hi = Putchar /\ k >= 1 /\ lo = msg[k] /\ Len(screen) = k - 1
    /\ pc \in {"drain"} \cup Exiting => k = Len(msg) /\ exit_code = main_code
    /\ pc \in Exiting => Len(screen) = k
    /\ host = "exited" => status = exit_code /\ pc \in Exiting

IInv == TypeOK /\ Device /\ ProxyInv /\ ConsoleInv

-----------------------------------------------------------------------------
LEMMA TextType ==
  ASSUME NEW t \in Texts
  PROVE  Len(t) \in Nat /\ \A i \in 1 .. Len(t) : t[i] \in 1 .. 255
<1>1. t \in Seq(1 .. 255)
  BY TextsAssumption
<1> QED BY <1>1, ElementOfSeq, LenProperties

LEMMA InitInv == Init => IInv
<1> SUFFICES ASSUME Init PROVE IInv
  OBVIOUS
<1> USE ReturnsAssumption, BufSizeAssumption DEF Init
<1>1. TypeOK
  <2>1. answer \in BOOLEAN /\ torn \in BOOLEAN
    BY Zenon
  <2>2. 0 \in 0 .. Len(msg)
    BY TextType
  <2>3. text \in Seq(1 .. 255) /\ Len(text) <= BufSize /\ screen \in Seq(0 .. 255)
    OBVIOUS
  <2> QED BY <2>1, <2>2, <2>3 DEF TypeOK, MagicAddr, NoStatus
<1>2. Device
  BY DEF Device, tohostClear, Writing, Before, Exiting
<1>3. ProxyInv
  BY DEF ProxyInv, Prefix, Asked, Writing, Before, Exiting
<1>4. ConsoleInv
  BY DEF ConsoleInv, Prefix, Exiting, tohostClear
<1> QED BY <1>1, <1>2, <1>3, <1>4 DEF IInv

(* Steps that only wait or move on. *)
LEMMA SpinInv == ASSUME IInv, SpinOnTohost PROVE IInv'
<1> USE DEF SpinOnTohost, IInv, program
<1>1. fromhost' = fromhost
  BY DEF Device, Writing
<1>2. TypeOK'
  BY DEF TypeOK
<1>3. Device'
  BY <1>1 DEF Device, tohostClear, ExitWord
<1>4. ProxyInv'
  BY DEF ProxyInv, Prefix, Asked
<1>5. ConsoleInv'
  BY DEF ConsoleInv, Prefix, tohostClear
<1> QED BY <1>2, <1>3, <1>4, <1>5

LEMMA PutcharInv == ASSUME IInv, PutcharReady \/ StoreCharLow \/ StoreCharHigh, host = "running" PROVE IInv'
<1>1. path = "console"
  BY PathsAssumption DEF IInv, Device, PutcharReady, StoreCharLow, StoreCharHigh, TypeOK
<1>2. CASE PutcharReady
  <2> USE <1>2 DEF PutcharReady, IInv, program, device
  <2>1. TypeOK'
    BY DEF TypeOK
  <2>2. Device'
    BY DEF Device, tohostClear, ExitWord, Writing, Before, Exiting
  <2>3. ProxyInv'
    BY <1>1 DEF ProxyInv
  <2>4. ConsoleInv'
    BY DEF ConsoleInv, Prefix, tohostClear, Exiting, Putchar
  <2> QED BY <2>1, <2>2, <2>3, <2>4
<1>3. CASE StoreCharLow
  <2> USE <1>3 DEF StoreCharLow, IInv, program
  <2>1. ~torn /\ k < Len(msg) /\ msg[k + 1] \in 1 .. 255
    <3>1. ~torn /\ k < Len(msg)
      BY <1>1 DEF Device, ConsoleInv
    <3>2. msg \in Texts /\ k \in 0 .. Len(msg)
      BY DEF TypeOK
    <3>3. Len(msg) \in Nat /\ \A i \in 1 .. Len(msg) : msg[i] \in 1 .. 255
      BY <3>2, TextType
    <3> QED BY <3>1, <3>2, <3>3
  <2>2. TypeOK'
    BY <2>1 DEF TypeOK, MagicAddr
  <2>3. Device'
    <3>1. lo' <= 255
      <4>1. lo' = msg[k + 1]
        OBVIOUS
      <4>2. lo' \in 1 .. 255
        BY ONLY <2>1, <4>1
      <4> QED BY ONLY <4>2
    <3>2. hi' = 0 /\ answer' = FALSE /\ fromhost' = 0 /\ pc' = "char_hi"
      BY DEF Device, tohostClear, Writing
    <3>3. path' = "console" /\ torn' = torn
      BY <1>1
    <3> QED BY ONLY <2>1, <3>1, <3>2, <3>3 DEF Device, tohostClear, Writing, Before, Exiting
  <2>4. ProxyInv'
    BY <1>1 DEF ProxyInv
  <2>5. ConsoleInv'
    BY <2>1 DEF ConsoleInv, Prefix, Exiting
  <2> QED BY <2>2, <2>3, <2>4, <2>5
<1>4. CASE StoreCharHigh
  <2> USE <1>4 DEF StoreCharHigh, IInv, program
  <2>1. ~torn /\ k < Len(msg) /\ lo = msg[k + 1]
    BY <1>1 DEF Device, ConsoleInv
  <2>2. TypeOK'
    BY <2>1 DEF TypeOK, Putchar
  <2>3. Device'
    BY <2>1, <1>1 DEF Device, tohostClear, Writing, Before, Exiting
  <2>4. ProxyInv'
    BY <1>1 DEF ProxyInv
  <2>5. ConsoleInv'
    BY <2>1 DEF ConsoleInv, Prefix, Exiting, TypeOK
  <2> QED BY <2>2, <2>3, <2>4, <2>5
<1> QED BY <1>2, <1>3, <1>4

-----------------------------------------------------------------------------
(* The numbers the arguments are about. *)
Numbers ==
  /\ k \in Nat /\ Len(msg) \in Nat /\ Len(text) \in Nat /\ Len(screen) \in Nat /\ magic \in Nat
  /\ k <= Len(msg) /\ Len(text) <= BufSize /\ BufSize \in Nat /\ magic <= BufSize

LEMMA NumbersType == IInv => Numbers
<1> SUFFICES ASSUME IInv PROVE Numbers
  OBVIOUS
<1>1. Len(msg) \in Nat
  BY TextType DEF IInv, TypeOK
<1>2. text \in Seq(1 .. 255) /\ screen \in Seq(0 .. 255)
  BY DEF IInv, TypeOK
<1>3. Len(text) \in Nat /\ Len(screen) \in Nat
  BY <1>2, LenProperties
<1>4. k \in 0 .. Len(msg) /\ magic \in 0 .. BufSize /\ Len(text) <= BufSize
  BY DEF IInv, TypeOK
<1> QED BY <1>1, <1>3, <1>4, BufSizeAssumption DEF Numbers

(* output.c: a character goes into the buffer. *)
LEMMA OutCharInv == ASSUME IInv, OutChar PROVE IInv'
<1> USE DEF OutChar, program, device
<1>1. Numbers /\ msg[k + 1] \in 1 .. 255
  <2>1. k < Len(msg) /\ msg \in Texts
    BY DEF IInv, TypeOK
  <2>2. k + 1 \in 1 .. Len(msg)
    BY <2>1, NumbersType DEF Numbers
  <2> QED BY <2>1, <2>2, TextType, NumbersType
<1>2. /\ text' \in Seq(1 .. 255) /\ Len(text') = Len(text) + 1
      /\ \A i \in 1 .. Len(text) : text'[i] = text[i]
      /\ text'[Len(text) + 1] = msg[k + 1]
  <2>1. text \in Seq(1 .. 255)
    BY DEF IInv, TypeOK
  <2> QED BY <1>1, <2>1, AppendProperties
<1>3. TypeOK'
  <2>1. Len(text') <= BufSize
    BY <1>1, <1>2 DEF Full, Numbers
  <2>2. k' \in 0 .. Len(msg')
    BY <1>1 DEF Numbers
  <2> QED BY <1>2, <2>1, <2>2 DEF TypeOK, IInv
<1>4. Device'
  BY DEF IInv, Device, tohostClear, ExitWord
<1>5. ProxyInv'
  <2>1. /\ Len(screen) + Len(text) = k /\ \A i \in 1 .. Len(text) : text[i] = msg[Len(screen) + i]
        /\ Prefix /\ host # "fault" /\ (host = "exited" => FALSE)
    BY DEF IInv, ProxyInv, Exiting
  <2>2. \A i \in 1 .. Len(text') : text'[i] = msg[Len(screen) + i]
    <3> SUFFICES ASSUME NEW i \in 1 .. Len(text') PROVE text'[i] = msg[Len(screen) + i]
      OBVIOUS
    <3>1. CASE i \in 1 .. Len(text)
      BY ONLY <1>2, <2>1, <3>1
    <3>2. CASE i = Len(text) + 1
      BY ONLY <1>1, <1>2, <2>1, <3>2 DEF Numbers
    <3> QED BY ONLY <1>1, <1>2, <3>1, <3>2, i \in 1 .. Len(text') DEF Numbers
  <2>3. Len(screen') + Len(text') = k' /\ Prefix'
    <3>1. screen' = screen /\ msg' = msg /\ k' = k + 1
      OBVIOUS
    <3>2. Prefix /\ Len(screen) + Len(text) = k /\ Len(text') = Len(text) + 1
      BY <1>2, <2>1
    <3>3. Len(screen) + Len(text') = k + 1
      BY ONLY <3>2, <1>1 DEF Numbers
    <3>4. Prefix'
      BY ONLY <3>1, <3>2, <1>1 DEF Numbers, Prefix
    <3> QED BY <3>1, <3>3, <3>4
  <2> QED BY <2>1, <2>2, <2>3 DEF ProxyInv, Before, Writing, Exiting, Asked
<1>6. ConsoleInv'
  BY DEF ConsoleInv
<1> QED BY <1>3, <1>4, <1>5, <1>6 DEF IInv

(* output.c: a write is asked for. *)
LEMMA AskInv ==
  ASSUME IInv, FlushStarts \/ WriteReady \/ StoreWriteLow \/ StoreWriteHigh
  PROVE  IInv'
<1>1. Numbers /\ path = "proxy" /\ torn = FALSE
  <2>1. path = "proxy"
    BY PathsAssumption
    DEF FlushStarts, WriteReady, StoreWriteLow, StoreWriteHigh, IInv, TypeOK, Device, Before, Writing
  <2> QED BY <2>1, NumbersType DEF IInv, Device, TypeOK
<1>2. CASE FlushStarts
  <2> USE <1>2 DEF FlushStarts, program, device
  <2>1. TypeOK'
    BY <1>1 DEF TypeOK, IInv, Numbers
  <2>2. Device'
    BY <1>1 DEF IInv, Device, tohostClear, Writing, Before, Exiting
  <2>3. ProxyInv'
    BY <1>1 DEF IInv, ProxyInv, Prefix, Asked, Writing, Before, Exiting
  <2>4. ConsoleInv'
    BY <1>1 DEF ConsoleInv
  <2> QED BY <2>1, <2>2, <2>3, <2>4 DEF IInv
<1>3. CASE WriteReady
  <2> USE <1>3 DEF WriteReady, program, device
  <2>1. TypeOK'
    BY DEF TypeOK, IInv
  <2>2. Device'
    BY <1>1 DEF IInv, Device, tohostClear, Writing, Before, Exiting
  <2>3. ProxyInv'
    BY <1>1 DEF IInv, ProxyInv, Prefix, Asked, Writing, Before, Exiting
  <2>4. ConsoleInv'
    BY <1>1 DEF ConsoleInv
  <2> QED BY <2>1, <2>2, <2>3, <2>4 DEF IInv
<1>4. CASE StoreWriteLow
  <2> USE <1>4 DEF StoreWriteLow, program
  <2>1. TypeOK'
    BY DEF TypeOK, IInv, MagicAddr
  <2>2. Device'
    BY <1>1 DEF IInv, Device, tohostClear, Writing, Before, Exiting
  <2>3. ProxyInv'
    BY <1>1 DEF IInv, ProxyInv, Prefix, Asked, Writing, Before, Exiting, MagicAddr
  <2>4. ConsoleInv'
    BY <1>1 DEF ConsoleInv
  <2> QED BY <2>1, <2>2, <2>3, <2>4 DEF IInv
<1>5. CASE StoreWriteHigh
  <2> USE <1>5 DEF StoreWriteHigh, program
  <2>1. TypeOK'
    BY DEF TypeOK, IInv
  <2>2. Device'
    BY <1>1 DEF IInv, Device, tohostClear, Writing, Before, Exiting
  <2>3. ProxyInv'
    BY <1>1 DEF IInv, ProxyInv, Prefix, Asked, Writing, Before, Exiting
  <2>4. ConsoleInv'
    BY <1>1 DEF ConsoleInv
  <2> QED BY <2>1, <2>2, <2>3, <2>4 DEF IInv
<1> QED BY <1>2, <1>3, <1>4, <1>5

(* output.c: the answer is taken, and what was written is checked.         *)
LEMMA AnswerInv == ASSUME IInv, TakeAnswer \/ CheckWritten PROVE IInv'
<1>1. Numbers /\ path = "proxy" /\ torn = FALSE
  <2>1. path = "proxy"
    BY PathsAssumption DEF TakeAnswer, CheckWritten, IInv, TypeOK, Device, Writing
  <2> QED BY <2>1, NumbersType DEF IInv, Device, TypeOK
<1>2. CASE TakeAnswer
  <2> USE <1>2 DEF TakeAnswer, program
  <2>1. TypeOK'
    BY DEF TypeOK, IInv
  <2>2. pc \in Writing /\ lo = 0 /\ hi = 0 /\ answer = FALSE
    BY DEF IInv, Device, Writing
  <2>3. Device'
    BY <1>1, <2>2 DEF Device, tohostClear, Writing, Before, Exiting
  <2>4. ProxyInv'
    BY <1>1, <2>2 DEF IInv, ProxyInv, Prefix, Asked, Writing, Before, Exiting
  <2>5. ConsoleInv'
    BY <1>1 DEF ConsoleInv
  <2> QED BY <2>1, <2>3, <2>4, <2>5 DEF IInv
<1>3. CASE CheckWritten
  <2> USE <1>3 DEF CheckWritten, program, device
  <2>1. TypeOK'
    <3>1. CASE Whole
      <4>1. text' \in Seq(1 .. 255) /\ Len(text') = 0
        BY <3>1
      <4> QED BY <1>1, <3>1, <4>1 DEF TypeOK, IInv, Numbers
    <3>2. CASE ~Whole
      BY <3>2 DEF TypeOK, IInv
    <3> QED BY <3>1, <3>2
  <2>2. lo = 0 /\ hi = 0 /\ answer = FALSE /\ fromhost = 0
    BY DEF IInv, Device, Writing, tohostClear
  <2>3. Device'
    BY <1>1, <2>2 DEF Device, tohostClear, Writing, Before, Exiting
  <2>4. Len(screen) + Len(text) = k + magic /\ Prefix /\ host # "fault" /\ host # "exited"
    BY <1>1 DEF IInv, ProxyInv, Exiting
  <2>5. ProxyInv'
    <3>1. CASE Whole
      <4>1. Len(screen) = k
        BY ONLY <1>1, <2>4, <3>1 DEF Numbers, Whole
      <4>2. text' = <<>> /\ pc' = "main"
        BY <3>1
      <4> QED BY <1>1, <2>4, <4>1, <4>2 DEF ProxyInv, Prefix, Asked, Writing, Before, Exiting, Numbers
    <3>2. CASE ~Whole
      BY <1>1, <2>4, <3>2 DEF ProxyInv, Prefix, Asked, Writing, Before, Exiting
    <3> QED BY <3>1, <3>2
  <2>6. ConsoleInv'
    BY <1>1 DEF ConsoleInv
  <2> QED BY <2>1, <2>3, <2>5, <2>6 DEF IInv
<1> QED BY <1>2, <1>3

-----------------------------------------------------------------------------
(* crt0.S and htif_exit. *)
LEMMA ReturnsInv == ASSUME IInv, MainReturns \/ Drained, host = "running" PROVE IInv'
<1>1. Numbers /\ torn = FALSE /\ path \in {"proxy", "console"}
  BY PathsAssumption, NumbersType DEF IInv, Device, TypeOK
<1>2. CASE MainReturns
  <2> USE <1>2 DEF MainReturns, program, device
  <2>1. TypeOK'
    BY ReturnsAssumption DEF TypeOK, IInv
  <2>2. Device'
    BY <1>1 DEF IInv, Device, tohostClear, Writing, Before, Exiting
  <2>3. ProxyInv'
    <3>1. Len(text) = 0
      OBVIOUS
    <3> QED BY <1>1, <3>1 DEF IInv, ProxyInv, Prefix, Asked, Writing, Before, Exiting, Numbers
  <2>4. ConsoleInv'
    BY <1>1 DEF IInv, ConsoleInv, Prefix, Exiting, tohostClear
  <2> QED BY <2>1, <2>2, <2>3, <2>4 DEF IInv
<1>3. CASE Drained
  <2> USE <1>3 DEF Drained, program, device
  <2>1. TypeOK'
    BY DEF TypeOK, IInv
  <2>2. Device'
    BY <1>1 DEF IInv, Device, tohostClear, Writing, Before, Exiting, ExitWord
  <2>3. ProxyInv'
    BY <1>1 DEF IInv, ProxyInv, Prefix, Asked, Writing, Before, Exiting
  <2>4. ConsoleInv'
    BY <1>1 DEF IInv, ConsoleInv, Prefix, Exiting, tohostClear, Putchar
  <2> QED BY <2>1, <2>2, <2>3, <2>4 DEF IInv
<1> QED BY <1>2, <1>3

LEMMA ExitInv == ASSUME IInv, StoreExitLow \/ StoreExitHigh, host = "running" PROVE IInv'
<1>1. torn = FALSE /\ path \in {"proxy", "console"} /\ pc \in Exiting
  BY PathsAssumption DEF IInv, Device, TypeOK, StoreExitLow, StoreExitHigh, Exiting
<1>2. exit_code \in 0 .. 6 /\ exit_code' = exit_code /\ hi = 0 /\ hi' = 0 /\ lo' \in {0, ExitWord}
  BY <1>1 DEF IInv, TypeOK, Device, StoreExitLow, StoreExitHigh
<1>3. ExitWord \in 0 .. 13 /\ ExitWord' = ExitWord
  BY <1>2 DEF ExitWord
<1>4. UNCHANGED <<path, msg, main_code, fromhost, answer, magic, text, k, host, status, screen, torn>>
      /\ pc' \in Exiting
  BY DEF StoreExitLow, StoreExitHigh, program, Exiting
<1>5. TypeOK'
  BY <1>2, <1>3, <1>4 DEF TypeOK, IInv, MagicAddr, Exiting
<1>6. Device'
  BY <1>1, <1>2, <1>3, <1>4 DEF IInv, Device, tohostClear, Writing, Before, Exiting
<1>7. ProxyInv'
  BY <1>1, <1>2, <1>4 DEF IInv, ProxyInv, Prefix, Asked, Writing, Before, Exiting
<1>8. ConsoleInv'
  BY <1>1, <1>2, <1>4 DEF IInv, ConsoleInv, Prefix, Exiting
<1> QED BY <1>5, <1>6, <1>7, <1>8 DEF IInv

-----------------------------------------------------------------------------
(* Spike. *)
LEMMA PutsCharInv == ASSUME IInv, HostPutsChar PROVE IInv'
<1> USE DEF HostPutsChar, Take, program
<1>1. torn = FALSE /\ path = "console" /\ pc \in {"main", "drain"} /\ host = "running"
  <2>1. pc \notin Writing \cup Before \cup {"write_result", "char_lo", "char_hi"} \cup Exiting
    BY DEF IInv, Device, tohostClear, Putchar
  <2>2. pc \in {"main", "drain"}
    BY <2>1 DEF IInv, TypeOK, Writing, Before, Exiting
  <2> QED BY <2>2, PathsAssumption DEF IInv, Device, TypeOK, tohostClear, Putchar
<1>2. Numbers /\ screen \in Seq(0 .. 255) /\ lo \in 0 .. 255
  <2>1. lo <= 255 /\ lo \in 0 .. 1024 /\ screen \in Seq(0 .. 255)
    BY <1>1 DEF IInv, TypeOK, Device, MagicAddr, Writing
  <2> QED BY ONLY <2>1, NumbersType, IInv
<1>3. /\ screen' \in Seq(0 .. 255) /\ Len(screen') = Len(screen) + 1
      /\ \A i \in 1 .. Len(screen) : screen'[i] = screen[i]
      /\ screen'[Len(screen) + 1] = lo
  BY <1>2, AppendProperties
<1>4. torn' = FALSE
  BY <1>1
<1>5. TypeOK'
  <2>1. /\ UNCHANGED <<path, msg, main_code, fromhost, answer, magic, text, k, pc, exit_code, host, status>>
        /\ lo' = 0 /\ hi' = 0 /\ torn' \in BOOLEAN
    BY <1>4
  <2> QED BY ONLY <1>3, <2>1, IInv DEF IInv, TypeOK, MagicAddr
<1>6. Device'
  BY <1>1, <1>4 DEF IInv, Device, tohostClear, Writing, Before, Exiting
<1>7. ProxyInv'
  BY <1>1 DEF ProxyInv
<1>8. ConsoleInv'
  <2>1. /\ k >= 1 /\ lo = msg[k] /\ Len(screen) = k - 1 /\ Prefix /\ host # "fault"
        /\ (pc = "drain" => k = Len(msg) /\ exit_code = main_code) /\ host # "exited"
    BY <1>1 DEF IInv, ConsoleInv, tohostClear, Putchar, Exiting
  <2>2. UNCHANGED <<path, msg, main_code, k, pc, exit_code, host>> /\ lo' = 0 /\ hi' = 0
    OBVIOUS
  <2>3. Len(screen') = k
    BY ONLY <1>2, <1>3, <2>1 DEF Numbers
  <2>4. \A i \in 1 .. Len(screen') : screen'[i] = msg[i]
    BY ONLY <1>2, <1>3, <2>1, <2>3 DEF Numbers, Prefix
  <2>5. Prefix'
    BY ONLY <2>2, <2>3, <2>4, <1>2 DEF Prefix, Numbers
  <2> QED BY <1>1, <2>1, <2>2, <2>3, <2>5 DEF ConsoleInv, Exiting, tohostClear
<1> QED BY <1>5, <1>6, <1>7, <1>8 DEF IInv

(* A command of device 0 that is not a SYS_write is the exit, or half a    *)
(* character's.                                                            *)
LEMMA StopInv == ASSUME IInv, HostExits \/ HostFaults PROVE IInv'
<1>1. /\ UNCHANGED <<path, msg, main_code, fromhost, answer, magic, text, k, pc, exit_code, screen>>
      /\ lo' = 0 /\ hi' = 0 /\ hi = 0 /\ lo # 0 /\ lo # MagicAddr /\ host = "running"
  BY DEF HostExits, HostFaults, Take, program, tohostClear, MagicAddr
<1>2. pc \in {"char_hi"} \cup Exiting \/ (path = "console" /\ pc \in {"main", "drain"})
  BY <1>1, PathsAssumption DEF IInv, Device, TypeOK, tohostClear, Writing, Before, Exiting
<1>3. torn = FALSE /\ torn' = (pc = "char_hi") /\ torn' \in BOOLEAN
  <2>1. torn = FALSE
    BY <1>1 DEF IInv, Device, TypeOK
  <2> QED BY <2>1, Zenon DEF HostExits, HostFaults, Take
<1>4. pc \in {"char_hi"} \cup Exiting
  BY <1>1, <1>2, <1>3 DEF IInv, ConsoleInv, tohostClear, Putchar
<1>5. pc \in Exiting => host' = "exited" /\ status' = exit_code
  <2> SUFFICES ASSUME pc \in Exiting PROVE host' = "exited" /\ status' = exit_code
    OBVIOUS
  <2>1. lo = 2 * exit_code + 1 /\ exit_code \in 0 .. 6
    BY <1>1 DEF IInv, Device, TypeOK, ExitWord
  <2>2. lo % 2 = 1 /\ lo \div 2 = exit_code
    BY ONLY <2>1
  <2> QED BY <2>2 DEF HostExits, HostFaults
<1>6. TypeOK'
  <2>1. lo \div 2 \in Int
    BY DEF IInv, TypeOK
  <2> QED BY <1>1, <1>3, <2>1 DEF IInv, TypeOK, HostExits, HostFaults, MagicAddr
<1>7. host' # "running"
  BY DEF HostExits, HostFaults
<1>8. Device'
  BY <1>1, <1>3, <1>4, <1>7, PathsAssumption
  DEF IInv, Device, TypeOK, tohostClear, Writing, Before, Exiting
<1>9. ProxyInv'
  <2>1. path = "proxy" => pc \in Exiting
    BY <1>4 DEF IInv, Device
  <2> QED BY <1>1, <1>5, <2>1 DEF IInv, ProxyInv, Prefix, Asked, Before, Writing, Exiting
<1>10. ConsoleInv'
  BY <1>1, <1>3, <1>4, <1>5 DEF IInv, ConsoleInv, Prefix, Exiting
<1> QED BY <1>6, <1>8, <1>9, <1>10 DEF IInv

(* The host writes some of the bytes that were asked for. *)
LEMMA WritesInv == ASSUME IInv, HostWrites PROVE IInv'
<1>1. /\ UNCHANGED <<path, msg, main_code, fromhost, text, k, pc, exit_code, host, status>>
      /\ lo' = 0 /\ hi' = 0 /\ lo = MagicAddr /\ host = "running" /\ answer' = TRUE
  BY DEF HostWrites, Take, program
<1>2. /\ pc \in Writing /\ Asked /\ path = "proxy" /\ torn = FALSE /\ fromhost = 0
      /\ Numbers
  <2>1. pc \in Writing /\ fromhost = 0
    BY <1>1 DEF IInv, Device, MagicAddr
  <2> QED BY <1>1, <2>1, PathsAssumption, NumbersType DEF IInv, Device, TypeOK, Asked
<1>3. torn' = FALSE
  BY <1>2 DEF HostWrites, Take, Writing
<1>4. /\ Len(screen) + Len(text) = k /\ Prefix /\ magic = Len(text)
      /\ \A i \in 1 .. Len(text) : text[i] = msg[Len(screen) + i]
  BY <1>2 DEF IInv, ProxyInv
<1>5. PICK n \in 0 .. magic : screen' = screen \o SubSeq(text, 1, n) /\ magic' = n
  BY DEF HostWrites
<1> DEFINE w == SubSeq(text, 1, n)
<1>6. w \in Seq(0 .. 255) /\ Len(w) = n /\ \A i \in 1 .. n : w[i] = text[i]
  <2>1. text \in Seq(1 .. 255) /\ Len(text) \in Nat /\ n \in 0 .. Len(text)
    BY <1>2, <1>4, <1>5 DEF IInv, TypeOK, Numbers
  <2>2. \A i \in 1 .. n : text[i] \in 0 .. 255
    <3> SUFFICES ASSUME NEW i \in 1 .. n PROVE text[i] \in 0 .. 255
      OBVIOUS
    <3>1. i \in 1 .. Len(text)
      BY <2>1
    <3>2. text[i] \in 1 .. 255
      BY ONLY <2>1, <3>1, ElementOfSeq
    <3> QED BY ONLY <3>2
  <2> QED BY ONLY <2>1, <2>2, SubSeqProperties
<1> HIDE DEF w
<1>7. screen \in Seq(0 .. 255)
  BY DEF IInv, TypeOK
<1>8. /\ screen' \in Seq(0 .. 255) /\ Len(screen') = Len(screen) + n
      /\ \A i \in 1 .. Len(screen) + n :
           screen'[i] = IF i <= Len(screen) THEN screen[i] ELSE text[i - Len(screen)]
  <2>1. screen' = screen \o w
    BY <1>5 DEF w
  <2>2. /\ screen' \in Seq(0 .. 255) /\ Len(screen') = Len(screen) + n
        /\ \A i \in 1 .. Len(screen) + n :
             screen'[i] = IF i <= Len(screen) THEN screen[i] ELSE w[i - Len(screen)]
    <3>1. /\ screen \o w \in Seq(0 .. 255) /\ Len(screen \o w) = Len(screen) + Len(w)
          /\ \A i \in 1 .. Len(screen) + Len(w) :
               (screen \o w)[i] = IF i <= Len(screen) THEN screen[i] ELSE w[i - Len(screen)]
      BY ONLY <1>6, <1>7, ConcatProperties
    <3>2. Len(w) = n
      BY <1>6
    <3> QED BY ONLY <2>1, <3>1, <3>2, Zenon
  <2>3. \A i \in 1 .. Len(screen) + n : ~(i <= Len(screen)) => i - Len(screen) \in 1 .. n
    BY ONLY <1>2, <1>5 DEF Numbers
  <2> QED BY ONLY <1>6, <2>2, <2>3
<1>9. TypeOK'
  <2>1. magic' \in 0 .. BufSize
    BY <1>2, <1>5 DEF Numbers
  <2>2. screen' \in Seq(0 .. 255) /\ answer' \in BOOLEAN /\ torn' \in BOOLEAN
    BY ONLY <1>1, <1>3, <1>8, Zenon
  <2> QED BY ONLY <1>1, <2>1, <2>2, IInv DEF IInv, TypeOK, MagicAddr
<1>10. Device'
  BY ONLY <1>1, <1>2, <1>3 DEF Device, tohostClear, Writing, Before, Exiting
<1>11. ProxyInv'
  <2>1. n \in Nat /\ n <= Len(text)
    BY ONLY <1>2, <1>4, <1>5 DEF Numbers
  <2>2. Len(screen') <= k /\ Len(screen') + Len(text) = k + n
    <3>1. Len(screen') = Len(screen) + n /\ Len(screen) + Len(text) = k
      BY <1>4, <1>8
    <3> QED BY ONLY <1>2, <2>1, <3>1 DEF Numbers
  <2>3. \A i \in 1 .. Len(screen') : screen'[i] = msg[i]
    <3> SUFFICES ASSUME NEW i \in 1 .. Len(screen) + n PROVE screen'[i] = msg[i]
      BY <1>8
    <3>1. CASE i <= Len(screen)
      BY ONLY <1>2, <1>4, <1>8, <3>1, i \in 1 .. Len(screen) + n DEF Numbers, Prefix
    <3>2. CASE ~(i <= Len(screen))
      <4>1. i - Len(screen) \in 1 .. Len(text) /\ Len(screen) + (i - Len(screen)) = i
        BY ONLY <1>2, <2>1, <3>2, i \in 1 .. Len(screen) + n DEF Numbers
      <4> QED BY ONLY <1>4, <1>8, <3>2, <4>1, i \in 1 .. Len(screen) + n
    <3> QED BY <3>1, <3>2
  <2>4. Prefix'
    BY ONLY <1>1, <2>2, <2>3 DEF Prefix
  <2>5. host' # "fault" /\ host' # "exited" /\ ~Asked'
    BY <1>1 DEF Asked, MagicAddr
  <2> QED BY ONLY <1>1, <1>2, <1>5, <2>2, <2>4, <2>5 DEF ProxyInv, Writing, Before, Exiting
<1>12. ConsoleInv'
  BY <1>1, <1>2 DEF ConsoleInv
<1> QED BY <1>9, <1>10, <1>11, <1>12 DEF IInv

LEMMA AnswersInv == ASSUME IInv, HostAnswers PROVE IInv'
<1> USE DEF HostAnswers, program
<1>1. pc \in Writing /\ lo = 0 /\ hi = 0 /\ fromhost' = 1 /\ answer' = FALSE
  BY DEF IInv, Device
<1>2. TypeOK'
  BY DEF IInv, TypeOK
<1>3. Device'
  BY <1>1 DEF IInv, Device, tohostClear, Writing, Before, Exiting
<1>4. ProxyInv'
  BY <1>1 DEF IInv, ProxyInv, Prefix, Asked
<1>5. ConsoleInv'
  BY <1>1 DEF IInv, ConsoleInv, Prefix, tohostClear
<1> QED BY <1>2, <1>3, <1>4, <1>5 DEF IInv

LEMMA NextInv == IInv /\ [Next]_vars => IInv'
<1> SUFFICES ASSUME IInv, [Next]_vars PROVE IInv'
  OBVIOUS
<1>1. CASE UNCHANGED vars
  BY <1>1 DEF vars, program, device, IInv, TypeOK, Device, ProxyInv, ConsoleInv, Prefix, Asked,
              tohostClear, ExitWord
<1>2. CASE Program
  BY <1>2, SpinInv, PutcharInv, OutCharInv, AskInv, AnswerInv, ReturnsInv, ExitInv DEF Program
<1>3. CASE HostTakes
  BY <1>3, PutsCharInv, StopInv, WritesInv DEF HostTakes
<1>4. CASE HostAnswers
  BY <1>4, AnswersInv
<1>5. CASE Stopped
  BY <1>1, <1>5 DEF Stopped
<1> QED BY <1>1, <1>2, <1>3, <1>4, <1>5 DEF Next

LEMMA Invariant == Spec => []IInv
<1> QED BY InitInv, NextInv, PTL DEF Spec

-----------------------------------------------------------------------------
(* What the invariant says to a reader.                                    *)

(* Every reachable state of both output paths is well typed, torn commands *)
(* included.                                                               *)
THEOREM TypeCorrect == Spec => []TypeOK
<1>1. IInv => TypeOK
  BY DEF IInv
<1> QED BY <1>1, Invariant, PTL

(* Each SYS_write of output.c is asked for once and answered once, whatever *)
(* the host does between two stores.                                       *)
THEOREM OneAnswer == Spec => []OneAnswerPerWrite
<1>1. IInv => OneAnswerPerWrite
  <2> SUFFICES ASSUME IInv PROVE OneAnswerPerWrite
    OBVIOUS
  <2>1. CASE pc \in Writing
    BY <2>1 DEF IInv, Device, OneAnswerPerWrite, Writing, MagicAddr
  <2>2. CASE pc \notin Writing
    BY <2>2 DEF IInv, Device, OneAnswerPerWrite, MagicAddr
  <2> QED BY <2>1, <2>2
<1> QED BY <1>1, Invariant, PTL

(* A screen that shows a prefix is that part of the text. *)
LEMMA PrefixIsSubSeq ==
  ASSUME IInv, Prefix
  PROVE  /\ screen = SubSeq(msg, 1, Len(screen))
         /\ Len(screen) = Len(msg) => screen = msg
<1>1. msg \in Texts /\ screen \in Seq(0 .. 255)
  BY DEF IInv, TypeOK
<1>2. msg \in Seq(1 .. 255) /\ Numbers
  BY <1>1, TextsAssumption, NumbersType
<1>3. Len(screen) \in Nat /\ Len(screen) <= Len(msg)
  BY <1>2 DEF Prefix, Numbers
<1> DEFINE s == SubSeq(msg, 1, Len(screen))
<1>4. \A i \in 1 .. Len(screen) : msg[i] \in 0 .. 255
  <2> SUFFICES ASSUME NEW i \in 1 .. Len(screen) PROVE msg[i] \in 0 .. 255
    OBVIOUS
  <2>1. i \in 1 .. Len(msg)
    BY ONLY <1>2, <1>3, i \in 1 .. Len(screen) DEF Numbers
  <2>2. msg[i] \in 1 .. 255
    BY ONLY <1>2, <2>1, ElementOfSeq
  <2> QED BY ONLY <2>2
<1>5. s \in Seq(0 .. 255) /\ Len(s) = Len(screen) /\ \A i \in 1 .. Len(screen) : s[i] = msg[i]
  BY ONLY <1>3, <1>4, SubSeqProperties
<1> HIDE DEF s
<1>6. \A i \in 1 .. Len(screen) : screen[i] = s[i]
  BY <1>5 DEF Prefix
<1>7. screen = s
  BY ONLY <1>1, <1>5, <1>6, SeqEqual
<1>8. Len(screen) = Len(msg) => s = msg
  BY <1>2, SubSeqFull DEF s
<1> QED BY <1>7, <1>8 DEF s

(* Through output.c, a run that ends with main's code has written the      *)
(* whole text, and at any moment each character at most once and in order, *)
(* for every buffer size and every number of bytes the host writes.        *)
THEOREM ProxyWhole == Spec => []ProxyOutputWhole
<1>1. IInv => ProxyOutputWhole
  <2> SUFFICES ASSUME IInv, path = "proxy" PROVE ProxyOutputWhole
    BY DEF ProxyOutputWhole
  <2>1. Prefix /\ host # "fault" /\ ~torn
    BY DEF IInv, ProxyInv, Device
  <2>2. ASSUME host = "exited", status # 5 PROVE status = main_code /\ Len(screen) = Len(msg)
    BY <2>2 DEF IInv, ProxyInv
  <2>3. Len(screen) <= k
    BY <2>1 DEF Prefix
  <2> QED BY <2>1, <2>2, <2>3, PrefixIsSubSeq DEF ProxyOutputWhole
<1> QED BY <1>1, Invariant, PTL

(* Character by character, output is only lost in a run in which the host  *)
(* looked between the two stores of one character (htif.c:14).             *)
THEOREM UntornWhole == Spec => []UntornConsoleWhole
<1>1. IInv => UntornConsoleWhole
  <2> SUFFICES ASSUME IInv, path = "console", ~torn PROVE UntornConsoleWhole
    BY DEF UntornConsoleWhole
  <2>1. Prefix /\ host # "fault"
    BY DEF IInv, ConsoleInv
  <2>2. ASSUME host = "exited" PROVE status = main_code /\ Len(screen) = Len(msg)
    BY <2>2 DEF IInv, ConsoleInv
  <2> QED BY <2>1, <2>2, PrefixIsSubSeq DEF UntornConsoleWhole
<1> QED BY <1>1, Invariant, PTL

(* No store of the program replaces a command that the host has not taken. *)
THEOREM CommandsKept == Spec => NoCommandOverwritten
<1>1. IInv /\ [Next]_vars =>
        [pc # "char_hi" /\ ~tohostClear => <<lo', hi'>> \in {<<lo, hi>>, <<0, 0>>}]_vars
  <2> SUFFICES ASSUME IInv, Next, pc # "char_hi", ~tohostClear
               PROVE  <<lo', hi'>> \in {<<lo, hi>>, <<0, 0>>}
    BY DEF vars, program, device
  <2>1. CASE HostTakes
    BY <2>1 DEF HostTakes, HostPutsChar, HostExits, HostWrites, HostFaults, Take
  <2>2. CASE HostAnswers \/ Stopped
    BY <2>2 DEF HostAnswers, Stopped, vars, device
  <2>3. CASE /\ Program
             /\ \/ SpinOnTohost \/ OutChar \/ FlushStarts \/ TakeAnswer \/ CheckWritten
                \/ MainReturns
    BY <2>3 DEF SpinOnTohost, OutChar, FlushStarts, TakeAnswer, CheckWritten, MainReturns, device
  <2>4. CASE PutcharReady \/ StoreCharLow \/ StoreCharHigh \/ WriteReady \/ StoreWriteLow \/ Drained
    BY <2>4 DEF PutcharReady, StoreCharLow, StoreCharHigh, WriteReady, StoreWriteLow, Drained,
                IInv, Device, Before
  <2>5. CASE StoreWriteHigh
    BY <2>5 DEF StoreWriteHigh, IInv, Device, Writing
  <2>6. CASE StoreExitLow \/ StoreExitHigh
    BY <2>6 DEF StoreExitLow, StoreExitHigh, IInv, Device, Exiting, tohostClear
  <2> QED BY <2>1, <2>2, <2>3, <2>4, <2>5, <2>6 DEF Next, Program
<1> QED BY <1>1, Invariant, PTL DEF Spec, NoCommandOverwritten

(* output.c never touches its buffer while the host may read it. *)
THEOREM BufferHeld == Spec => BufferHeldForHost
<1>1. IInv /\ [Next]_vars => [lo = MagicAddr \/ answer \/ fromhost # 0 => text' = text]_vars
  <2> SUFFICES ASSUME IInv, Next, lo = MagicAddr \/ answer \/ fromhost # 0
               PROVE  text' = text
    BY DEF vars
  <2>1. pc \in Writing
    BY DEF IInv, Device, MagicAddr
  <2>2. ~OutChar /\ ~CheckWritten
    BY <2>1 DEF OutChar, CheckWritten, Writing
  <2>3. CASE Program
    BY <2>2, <2>3
    DEF Program, SpinOnTohost, PutcharReady, StoreCharLow, StoreCharHigh, FlushStarts, WriteReady,
        StoreWriteLow, StoreWriteHigh, TakeAnswer, MainReturns, Drained, StoreExitLow, StoreExitHigh
  <2>4. CASE HostTakes
    BY <2>4 DEF HostTakes, HostPutsChar, HostExits, HostWrites, HostFaults, Take
  <2>5. CASE HostAnswers \/ Stopped
    BY <2>5 DEF HostAnswers, Stopped, vars
  <2> QED BY <2>3, <2>4, <2>5 DEF Next
<1> QED BY <1>1, Invariant, PTL DEF Spec, BufferHeldForHost
================================================================================
