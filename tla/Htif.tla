-------------------------------- MODULE Htif ---------------------------------
(***************************************************************************)
(* Two ways a program's output leaves Spike through tohost and fromhost:   *)
(*   "console"  one command per character (bench/rv32/htif.c), as the CRC  *)
(*              reference prints;                                          *)
(*   "proxy"    a buffer per SYS_write (bench/decoder/output.c), as the    *)
(*              decoder harness prints.                                    *)
(* Both end in htif_exit. The host is Spike's side of the interface: it    *)
(* looks at tohost between any two instructions of the program, so a       *)
(* 64-bit store, two words on RV32 with the low one first, is two steps.   *)
(* Stores that put back a value already there are kept: they are where     *)
(* the other side may have changed it.                                     *)
(***************************************************************************)
EXTENDS Integers, Sequences

CONSTANTS
  Paths,     \* which of the two the program uses
  Texts,     \* what the program prints: sequences of character codes
  Returns,   \* what main returns
  BufSize    \* sizeof text, 4,096 in output.c

ASSUME PathsAssumption   == Paths \subseteq {"console", "proxy"}
ASSUME TextsAssumption   == Texts \subseteq Seq(1 .. 255)
ASSUME ReturnsAssumption == Returns \subseteq 0 .. 6
ASSUME BufSizeAssumption == BufSize \in Nat \ {0}

VARIABLES
  path, msg, main_code,    \* the program: how, what, and main's return value
  lo, hi,                  \* tohost: the low word, and the device and command
  fromhost,                \* 1 when the host has answered
  answer,                  \* the host still owes an answer
  magic,                   \* magic_mem: the bytes asked for, then the result
  text,                    \* output.c's buffer; used is its length
  k,                       \* characters of msg put so far
  pc, exit_code,           \* the program
  host, status,            \* "running", "exited" or "fault"; the exit status
  screen,                  \* the characters the host has written
  torn                     \* the host took a half-stored command

program == <<path, msg, main_code>>
device  == <<lo, hi, fromhost, answer>>
vars    == <<program, device, magic, text, k, pc, exit_code, host, status, screen, torn>>

MagicAddr == 1024          \* the address of magic_mem, 64-byte aligned
Putchar   == 257           \* device 1, command 1
NoStatus  == -1

Init ==
  /\ path \in Paths /\ msg \in Texts /\ main_code \in Returns
  /\ lo = 0 /\ hi = 0 /\ fromhost = 0 /\ answer = FALSE /\ magic = 0
  /\ text = <<>> /\ k = 0 /\ pc = "main" /\ exit_code = 0
  /\ host = "running" /\ status = NoStatus /\ screen = <<>> /\ torn = FALSE

tohostClear == lo = 0 /\ hi = 0

-----------------------------------------------------------------------------
(* htif.c: htif_putchar. *)

(* while (tohost != 0) fromhost = 0; *)
SpinOnTohost ==
  /\ pc \in {"main", "drain"} /\ (path = "console" \/ pc = "drain")
  /\ (pc = "main" => k < Len(msg))
  /\ ~tohostClear
  /\ fromhost' = 0
  /\ UNCHANGED <<program, lo, hi, answer, magic, text, k, pc, exit_code, host, status,
                 screen, torn>>

\* Mutant: htif_send does not wait.
PutcharReady_NotWaiting ==
  /\ pc = "main" /\ path = "console" /\ k < Len(msg)
  /\ pc' = "char_lo"
  /\ UNCHANGED <<program, device, magic, text, k, exit_code, host, status, screen, torn>>

PutcharReady ==
  /\ pc = "main" /\ path = "console" /\ k < Len(msg)
  /\ tohostClear
  /\ pc' = "char_lo"
  /\ UNCHANGED <<program, device, magic, text, k, exit_code, host, status, screen, torn>>

StoreCharLow ==
  /\ pc = "char_lo"
  /\ lo' = msg[k + 1] /\ pc' = "char_hi"
  /\ UNCHANGED <<program, hi, fromhost, answer, magic, text, k, exit_code, host, status,
                 screen, torn>>

StoreCharHigh ==
  /\ pc = "char_hi"
  /\ hi' = Putchar /\ k' = k + 1 /\ pc' = "main"
  /\ UNCHANGED <<program, lo, fromhost, answer, magic, text, exit_code, host, status,
                 screen, torn>>

-----------------------------------------------------------------------------
(* output.c: out_char, out_flush, sys_write. *)

\* Mutant: the test comes one character late.
Full_Late == Len(text) = BufSize + 1

Full == Len(text) = BufSize

OutChar ==
  /\ pc = "main" /\ path = "proxy" /\ k < Len(msg) /\ ~Full
  /\ text' = Append(text, msg[k + 1]) /\ k' = k + 1
  /\ UNCHANGED <<program, device, magic, pc, exit_code, host, status, screen, torn>>

(* out_flush, because the buffer is full or because main calls it last.    *)
FlushStarts ==
  /\ pc = "main" /\ path = "proxy"
  /\ \/ k < Len(msg) /\ Full
     \/ k = Len(msg) /\ text # <<>>
  /\ magic' = Len(text) /\ pc' = "write_ready"
  /\ UNCHANGED <<program, device, text, k, exit_code, host, status, screen, torn>>

WriteReady ==
  /\ pc = "write_ready" /\ tohostClear
  /\ pc' = "write_lo"
  /\ UNCHANGED <<program, device, magic, text, k, exit_code, host, status, screen, torn>>

StoreWriteLow ==
  /\ pc = "write_lo"
  /\ lo' = MagicAddr /\ pc' = "write_hi"
  /\ UNCHANGED <<program, hi, fromhost, answer, magic, text, k, exit_code, host, status,
                 screen, torn>>

StoreWriteHigh ==
  /\ pc = "write_hi"
  /\ hi' = 0 /\ pc' = "write_wait"
  /\ UNCHANGED <<program, lo, fromhost, answer, magic, text, k, exit_code, host, status,
                 screen, torn>>

\* Mutants: sys_write does not wait for the answer; or leaves it there.
TakeAnswer_NotWaiting ==
  /\ pc = "write_wait"
  /\ fromhost' = 0 /\ pc' = "write_result"
  /\ UNCHANGED <<program, lo, hi, answer, magic, text, k, exit_code, host, status,
                 screen, torn>>
TakeAnswer_Left ==
  /\ pc = "write_wait" /\ fromhost # 0
  /\ pc' = "write_result"
  /\ UNCHANGED <<program, device, magic, text, k, exit_code, host, status, screen, torn>>

(* while (fromhost == 0); then fromhost = 0. *)
TakeAnswer ==
  /\ pc = "write_wait" /\ fromhost # 0
  /\ fromhost' = 0 /\ pc' = "write_result"
  /\ UNCHANGED <<program, lo, hi, answer, magic, text, k, exit_code, host, status,
                 screen, torn>>

\* Mutant: the number of bytes written is ignored.
Whole_Assumed == TRUE

Whole == magic = Len(text)

(* out_flush compares the bytes written with the bytes asked for. *)
CheckWritten ==
  /\ pc = "write_result"
  /\ IF Whole
       THEN text' = <<>> /\ pc' = "main" /\ UNCHANGED exit_code
       ELSE exit_code' = 5 /\ pc' = "drain" /\ UNCHANGED text
  /\ UNCHANGED <<program, device, magic, k, host, status, screen, torn>>

-----------------------------------------------------------------------------
(* crt0.S calls htif_exit with main's return value. *)

MainReturns ==
  /\ pc = "main" /\ k = Len(msg) /\ text = <<>>
  /\ exit_code' = main_code /\ pc' = "drain"
  /\ UNCHANGED <<program, device, magic, text, k, host, status, screen, torn>>

\* Mutant: htif_exit without its drain loop.
Drained_NotWaiting ==
  /\ pc = "drain"
  /\ pc' = "exit_lo"
  /\ UNCHANGED <<program, device, magic, text, k, exit_code, host, status, screen, torn>>

Drained ==
  /\ pc = "drain" /\ tohostClear
  /\ pc' = "exit_lo"
  /\ UNCHANGED <<program, device, magic, text, k, exit_code, host, status, screen, torn>>

\* Mutant: the command's low bit is not set.
ExitWord_Even == 2 * exit_code

ExitWord == 2 * exit_code + 1

(* while (1) tohost = (code << 1) | 1; *)
StoreExitLow ==
  /\ pc = "exit_lo"
  /\ lo' = ExitWord /\ pc' = "exit_hi"
  /\ UNCHANGED <<program, hi, fromhost, answer, magic, text, k, exit_code, host, status,
                 screen, torn>>

StoreExitHigh ==
  /\ pc = "exit_hi"
  /\ hi' = 0 /\ pc' = "exit_lo"
  /\ UNCHANGED <<program, lo, fromhost, answer, magic, text, k, exit_code, host, status,
                 screen, torn>>

Program ==
  /\ host = "running"
  /\ \/ SpinOnTohost \/ PutcharReady \/ StoreCharLow \/ StoreCharHigh
     \/ OutChar \/ FlushStarts \/ WriteReady \/ StoreWriteLow \/ StoreWriteHigh
     \/ TakeAnswer \/ CheckWritten
     \/ MainReturns \/ Drained \/ StoreExitLow \/ StoreExitHigh

-----------------------------------------------------------------------------
(* Spike's side. A command is taken and tohost cleared in one step.        *)

Take == host = "running" /\ ~tohostClear /\ lo' = 0 /\ hi' = 0
        /\ torn' = (torn \/ pc = "char_hi")
        /\ UNCHANGED <<program, fromhost, text, k, pc, exit_code>>

HostPutsChar ==
  /\ hi = Putchar
  /\ Take
  /\ screen' = Append(screen, lo)
  /\ UNCHANGED <<answer, magic, host, status>>

(* Device 0, odd payload: the program is over. *)
HostExits ==
  /\ hi = 0 /\ lo % 2 = 1
  /\ Take
  /\ host' = "exited" /\ status' = lo \div 2
  /\ UNCHANGED <<answer, magic, screen>>

(* Device 0, the address of magic_mem: SYS_write. The host may write fewer *)
(* bytes than asked for, or none.                                          *)
HostWrites ==
  /\ hi = 0 /\ lo = MagicAddr
  /\ Take
  /\ \E n \in 0 .. magic :
       /\ screen' = screen \o SubSeq(text, 1, n)
       /\ magic' = n
  /\ answer' = TRUE
  /\ UNCHANGED <<host, status>>

(* Device 0, any other even payload: Spike reads a parameter block at a    *)
(* character's code, where there is no memory.                             *)
HostFaults ==
  /\ hi = 0 /\ lo % 2 = 0 /\ lo # MagicAddr
  /\ Take
  /\ host' = "fault"
  /\ UNCHANGED <<answer, magic, status, screen>>

HostTakes == HostPutsChar \/ HostExits \/ HostWrites \/ HostFaults

HostAnswers ==
  /\ host = "running" /\ answer /\ fromhost = 0
  /\ fromhost' = 1 /\ answer' = FALSE
  /\ UNCHANGED <<program, lo, hi, magic, text, k, pc, exit_code, host, status, screen, torn>>

Stopped == host # "running" /\ UNCHANGED vars

Next == Program \/ HostTakes \/ HostAnswers \/ Stopped

Spec == Init /\ [][Next]_vars

(* The hart keeps executing, and Spike keeps polling between instructions. *)
FairSpec == Spec /\ WF_vars(Program) /\ WF_vars(HostTakes) /\ WF_vars(HostAnswers)

-----------------------------------------------------------------------------
(* Types. *)
TypeOK ==
  /\ path \in Paths /\ msg \in Texts /\ main_code \in Returns
  /\ lo \in 0 .. MagicAddr /\ hi \in {0, Putchar}
  /\ fromhost \in {0, 1} /\ answer \in BOOLEAN
  /\ magic \in 0 .. BufSize
  /\ text \in Seq(1 .. 255) /\ Len(text) <= BufSize
  /\ k \in 0 .. Len(msg)
  /\ pc \in {"main", "char_lo", "char_hi", "write_ready", "write_lo", "write_hi",
             "write_wait", "write_result", "drain", "exit_lo", "exit_hi"}
  /\ exit_code \in 0 .. 6
  /\ host \in {"running", "exited", "fault"} /\ status \in Int
  /\ screen \in Seq(0 .. 255) /\ torn \in BOOLEAN

(* A command the host has not taken is never stored over, except that a    *)
(* character's command word completes it. This is the bug that             *)
(* bench/rv32/README.md records: the exit overwrote the last putchar.      *)
NoCommandOverwritten ==
  [][pc # "char_hi" /\ ~tohostClear => <<lo', hi'>> \in {<<lo, hi>>, <<0, 0>>}]_vars

(* output.c does not touch its buffer while the host may still read it.    *)
BufferHeldForHost ==
  [][lo = MagicAddr \/ answer \/ fromhost # 0 => text' = text]_vars

(* A SYS_write is asked for once and answered once, and no answer to an    *)
(* earlier write is taken for this one's.                                  *)
OneAnswerPerWrite ==
  /\ answer => pc \in {"write_hi", "write_wait"} /\ fromhost = 0
  /\ fromhost # 0 => pc \in {"write_hi", "write_wait"} /\ ~answer
  /\ lo = MagicAddr => fromhost = 0 /\ ~answer

(* On the proxy path the host has written a prefix of what the program     *)
(* printed, each character once and in order, at every moment; and the run *)
(* only ends with main's own code if that prefix is all of it.             *)
ProxyOutputWhole ==
  path = "proxy" =>
    /\ Len(screen) <= k /\ screen = SubSeq(msg, 1, Len(screen))
    /\ host # "fault" /\ ~torn
    /\ host = "exited" /\ status # 5 => screen = msg /\ status = main_code

(* On the console path the same holds as long as the host never looked     *)
(* between the two stores of a character.                                  *)
UntornConsoleWhole ==
  path = "console" /\ ~torn =>
    /\ host # "fault"
    /\ screen = SubSeq(msg, 1, Len(screen))
    /\ host = "exited" => screen = msg /\ status = main_code

(* Every run ends: the program exits, or the host stops it. *)
Ends == <>(host # "running")

-----------------------------------------------------------------------------
(* htif.c, of the fix in htif_exit: "A reference result whose last byte    *)
(* depends on a race is not a reference result."  So an exit reported with *)
(* main's code should mean that the host has all the characters, and no    *)
(* other code should be reported.                                          *)
ConsoleOutputWhole ==
  path = "console" /\ host # "running" => screen = msg /\ status = main_code
==============================================================================
