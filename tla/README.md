# A TLA+ project for hdl-lab

hdl-lab builds a benchmark for tracker-protocol decoders on RISC-V: a generator writes a stimulus, a
bare-metal harness feeds it to a decoder inside a measured window and prints the decoder's records in
a canonical order, and scripts prove that the benches around it can fail. This directory models the
parts of it that are easy to get wrong and hard to test, checks them with TLC, and proves the most
important results with TLAPS.

## The system

| Part | State it keeps | Operations | Made correct by |
|---|---|---|---|
| Harness `bench/decoder/harness.c` | the walk over the stimulus, the connections' state, the record buffer, the sort's counts and index, the output | `check`, `main`'s loops, `put_record` | accepts what `unpack()` accepts; loses no record silently; output in canonical order |
| Record buffer `records.h` | `rec_next`, `rec_limit`, `rec_full` | `rec_open`, the field writers, `rec_close` | records lie end to end below the limit |
| Test decoder `stub.c` | each connection's protocol and bytes seen | `decoder_chunk`, `decoder_end` | one record per chunk and per connection |
| Output `output.c`, `htif.c`, `crt0.S` | a 4,096-byte buffer, `tohost`, `fromhost` | `out_char`, `out_flush`, `sys_write`, `htif_putchar`, `htif_exit` | every character once, in order, before the exit |
| Prediction `expect.py`, container `container.py` | none | `stub_records`, `pack`, `unpack` | the reference the harness is held to |
| `scripts/mutate-alu.sh` | `rtl/04_alu.sv` and its good copy | `mutate`, the trap | each fault is tried alone; the file comes back |
| `bench/decoder/mutate.py` and the Makefile's builds | a source file and what was read of it; build directories named by a hash; a stimulus directory of three files | `source_fault`, `stimulus_faults`, `run`, `hashes` | each fault tried alone, against the build and stimulus it names, and put back |
| Generator `bench/stimulus` | the random state, each connection's stream | `generate`, `_chunks`, `_interleave` | each connection's bytes, in order, in every interleaving |
| Encoders `common.py`, `gt06.py`, `jt808.py`, and their reader `check.py` | none | frames, fields, escaping, checksums | what is read back is exactly what was written, faults included |
| Evidence `bench/evidence` | a reader index over one stream | `gt06_decode`, `jt808_decode`, `frames_of`, checksums | which frames a broken one costs; the corpus counters see the faults that were put in |
| RTL `rtl/`, CRC reference, builds, captures | registers; build directories; result directories | combinational and clocked blocks; `make`; `capture.sh` | equal to the golden model; no stale or overwritten result |

They interact through data more than through calls: the generator's `pack()` writes what the harness
links in; the harness calls the decoder, which appends to a buffer that the harness reads back once
the window is closed; the harness's text leaves through two words that Spike polls; `expect.py`
predicts that text from the same stimulus. The hard behaviour is at those seams: memory that runs out
in the middle of a window, two walks over one buffer that must agree, a host that looks at a 64-bit
word between its two stores, a signal between two steps of a script that has a broken source file in
place, a build directory found again, a framer that has lost its place. `PROJECT.json` lists each of these hazards at its line.

## Modules

| Module | Models | Kind |
|---|---|---|
| `Records` | the layout of a field: what `records.h` writes, what `harness.c` measures | operators |
| `Harness` | `main()` running `stub.c` over the record buffer | state machine, safety |
| `CanonicalOutput` | what a run promises its reader | abstract specification |
| `Expect`, `ExpectProofs` | `unpack()` and `stub_records()`; the refinement | operators, properties, proofs |
| `MCHarness` | the stimuli and memory limits for TLC | model |
| `HarnessProofs` | invariants of `Harness` for all images; its counts and its sort | proofs |
| `Formatter`, `MCFormatter`, `FormatterProofs` | `put_record()` over arbitrary records | state machine, model, proofs |
| `Htif`, `MCHtif`, `HtifProofs` | both output paths against Spike | state machine, model, proofs |
| `MutateAlu`, `MCMutateAlu`, `MutateAluProofs` | `mutate-alu.sh` with signals | state machine, model, proofs |
| `Traffic` | `traffic.py`, what `generate.py` writes about it, how `check.py` reads that | state machine, operators |
| `Delivery` | what a stimulus promises the decoder that reads it | abstract specification |
| `TrafficProperties`, `MCTraffic`, `TrafficProofs` | the rules, the parameter files for TLC; turns, rules, delivery and `check.py`'s agreement for every file | properties, model, proofs |
| `Bytes` | byte strings: Python's slices and conversions, XOR | operators |
| `Encoders` | `common.py`, `gt06.py`, `jt808.py`: fields to frames, and the range of each field | operators |
| `Segments` | `traffic.py` where it makes one segment: a frame with its fault, and its account | operators |
| `Reader` | `check.py`, the corpus counters of `checksums.py`, the CRC of `crc_oracle.py` | operators |
| `Framers` | `framing.py` over a stream made of such segments | state machine |
| `FramersProperties`, `MCFraming`, `FramersProofs` | what encoders, readers and framers agree on; frames of every type and fault; four of these for every stream | properties, model, proofs |
| `Mutate` | `mutate.py`, the builds and stimulus directories it works on, signals, restarts | state machine |
| `MutateProperties`, `MCMutate`, `MutateProofs` | each fault alone, the right build, an end to every run | properties, model, proofs |

`MCHarness`, `MCTraffic`, `MCFraming` and `MCMutate` give the constants values. `Harness` uses `Records`,
and `Expect` composes it with `pack()`, `unpack()` and the prediction; `Framers` composes the generator's
side (`Segments` over `Encoders`) with the two that read it (`Reader` and the framers), none of which
shares a definition with it beyond `Bytes`.

### Harness

One action is one iteration of a loop of `main()`, or the straight code between two loops: nothing runs
concurrently with the hart, so no finer step could be seen. `pc` names the loop. `buf` maps the word a
closed record starts at to its parts; `rec_next`, `rec_full`, `count`, `index`, `start`, `total` and
`at` are the C variables. Addresses are numbers from the stimulus's first byte, so the alignment
arithmetic and every comparison with `MEM_TOP` are the code's own. A record's words are its fields'
`span`s; a field's copied bytes are represented by the address they were copied from, which is enough
to tell any two apart. `check()`'s header tests are the guard `TableOK`; a chunk header read where
`pack()` put none reads as zero.

When a hex field's header does not state its length (more than 65,535 digits), `put_record` parses the
field's own bytes as headers. `MisreadRecord` stands for that: the record is refused, or a garbled line
is printed. `Formatter` models the parse itself.

`CanonicalOutput` is the promise: a log of records per connection, each starting where the one before
it ended, and a publication of all the logs one after another, only if nothing was lost. Only a record
wider than the format can state may be published differently from its log. `Expect` maps the harness to
it: the log is what the buffer holds of a connection, and publishing is printing the `end` line.

### Formatter

`put_record()` over any words: the head checks, the parse that collects field pointers into `f`, the
insertion sort one shift at a time, and the printing loop. A word is seen as its three parts. `IsWritten`
says of a record's words that the writers of `records.h` could have left them: there are places at which
fields start, each as its writer stores it, each ending where the next starts or the record ends.

### Htif

The program and the host take turns at any point between two stores. A 64-bit store to `tohost` is two
steps, low word first (decisions/0014 reads that order off the image). `HostWrites` may write any
number of the bytes asked for. `torn` remembers that the host took a half-stored command.

### MutateAlu

`alu` is the set of edits that the file carries, `good` says that the temporary copy still exists.
Each command of the script is a step. A signal may come at any of them; the trap waits until the foreground
command has ended and runs before the next one, after which the script goes on. Ctrl-C also kills the
foreground command. `since` is a history variable: the first edit tried after the copy was removed. `make` either runs the bench, or ends before it.

### Traffic

One action is one turn of a loop of `generate()`: a connection made, a frame dealt, a frame filled in
with the garbage before it, a chunk cut, a chunk put in order. A draw of the generator is a choice from
the values it can return, except `_fault`'s, whose one number is kept: rule R4 is about how many values
of it select each fault. The loop in `prng.below(n)`, which throws away what is not below the largest
multiple of `n` within 2^64 (`Draws`), is not stepped through: it returns if that `Limit` is positive, and for
`n` past 2^64 it is 0. Only the sum of a weight table and the range of `garbage.length` have no
upper bound in `validate()`, so only the draws below those carry the guard `Returns`; where it fails,
`Spin` leaves the generator in the stage `"spins"`. A frame is its length, the length it would have whole, its length field and
its fault; a byte is its place in its connection's stream, so a chunk is a range. `validate()` is an
action too, and the runs give it files that it must refuse.

`ReadBack`, `LinePasses` and `CheckPasses` are `check.py`: its loop puts each stream together again from
the chunks, with their sizes, and it walks the intent log over them. `IsSplit` is the manifest's count of split frames.

`Delivery` is the promise to the decoder: each connection's bytes in order, none missing, none twice,
all of them in the end. `Traffic` implements it in all three interleavings.

### Encoders, readers and framers

`Traffic` needs a byte to be its place only; here a byte is its value. `Encoders` holds the encoders,
byte for byte, and what fields are drawn from as sets of records; a draw is a member. `Segments` makes
one segment from a choice (a type, its fields, a fault, what the fault drew) with the account that goes
into `intent.jsonl`. `Reader` is what reads a segment without the encoders' code: `check.py` with its own
CRC, its own unescaping and its own item walk, and the counters of `checksums.py`. A `need()` that
fails, an exception and an index past the end are all one refusal.

`Framers` sends segments (`Send`), then takes frames from the whole stream, one `decode` a step (`Return`),
until one returns nothing or raises, which is `frames_of`. `IsDrawn` says of a segment that the generator
can draw it; `MaySend` only says which of these a run tries. `gt06_decode` and `jt808_decode` keep every
branch of the ports: the length read from whatever stands where a frame should start, the search for
0D 0A, the skip to a frame start, the absolute slice length of a sentence (`fixed` is
`sentence_length_fixed`). `Lost` is `coverage()`'s way of counting.

### Mutate

One action is one system call that changes a file, or one command of a recipe. A source file is the
sequence of the faults written into it, or `Cut` between `open(path, "w")` and the write. A build
directory is named by what its hash covers, and holds the stimulus that was copied there and the image
that was linked, which a later `make` reuses if they are not older: so `Copy` and `Compile` may each
keep what they find. `GenerateStep` cuts and writes the three files of a stimulus in the code's order,
and `KillGenerator` stops between any two. What a fault does to a run is a choice of its result, a hang
included. `SigInt` follows Python: inside the `try` the `finally` still runs, elsewhere the script ends.
`SigTerm` ends it anywhere. `Again` starts it on whatever was left.

## Runs

| Run | Shows | Bounds, and why they are enough |
|---|---|---|
| `harness` | 11 properties of a run on any small stimulus; `BufferTiled` says too that the sort's counts and index fit behind the records | every sequence of up to two chunks whose lengths put the last record within a word of each of the buffer's limits; up to four chunks for order; three connections; memory limits around the 4,096-byte minimum; 1, 32,768 and 65,535 bytes for the header's 16 bits; one fault at a time in every part of a stimulus |
| `traffic` | the streams follow the rules, every order is kept, `check.py` agrees; with draws below 2^64 the generator ends | one frame with every fault over lengths that put its field at 0 and at its limit, rates that sum to the denominator (6 for 1,000,000); up to 4 frames on 2 connections with garbage, dealt at random; 3 connections of 6 or 12 bytes cut into every mix of chunks of 4 to 6 bytes, in each interleaving; 7 files to refuse; `Draws` = 8 for 2^64, with 6 files that `validate()` lets through although a draw passes it |
| `harness_wide` | **violated**: `RefusesOnlyForeignRecords` | the same images |
| `formatter` | the parse stays in the record, the sort is stable, writers' records are printed | `MAX_FIELDS` = 3 for 48, so full and over-full records occur; 10 kinds of word; records of up to 4 words, and every record of up to 3 written fields |
| `htif` | no command lost, one answer per write, whole output or no success | texts of up to 5 characters over a buffer of 2, so it is flushed full, half full and empty; an odd and an even character |
| `htif_console` | **violated**: `ConsoleOutputWhole` | texts of up to 2 characters |
| `mutate_alu` | each edit alone, a right verdict, the file put back after an undisturbed run, and what a signal leaves in it | 4 edits, two of which replace one text; up to 2 signals; benches blind to none, one or two edits |
| `mutate_alu_ctrl_c` | **violated**: `RestoredOnEveryExit` | one signal |
| `mutate_alu_bench` | **violated**: `KilledByTheBench` | no signal |
| `framing` | both readers agree with the encoders on every segment; a framer in step returns the frame; what a cut frame costs, exactly; where GT06 comes back into step | one frame of each type with every fault it can carry, over plain field values and values whose bytes are stops, delimiters, introducers and parentheses, in both alphabets and versions, cut at its first bytes, its middle, its last byte and inside every escape, followed by a plain frame; long streams of up to `MaxLong` = 6 segments, whole, cut, of a wrong length, or garbage whose bytes are a length that ends two frames later; fields of 32 bits stop at 2^31 - 1 |
| `fault_injection` | each fault alone, the build and stimulus that are named, an end to every run | one fault that still applies where it was left and one that does not, one for each kind of check; two corrupted stimuli; `MaxRuns` = 2 and `MaxSignals` = 1, so a second run meets whatever one signal or a killed generator left |
| `mutate_restore` | **violated**: `RestoredWhateverHappens` | one run, one signal |

Every property of a passing run has a mutant in `PROJECT.json`: a plausible bug in the code that TLC
finds by that property.

### What the violated runs say

* **`records.h:69`** A chunk of 32,768 bytes has 65,536 hex digits; the count is shifted out of its
  word. `traffic.py` allows chunks of up to 65,535 bytes. The formatter can then refuse the record, or
  print a wrong line. `OutputAsExpected` therefore holds for narrow chunks only.
* **`htif.c:14`** The console path's command word is stored after the character. A host that looks in
  between takes the character for another command. `UntornConsoleWhole` shows that this is the only way
  in which console output is lost.
* **`mutate-alu.sh:24`** The trap does not exit. After Ctrl-C the copy is gone and the script goes on
  to edit the file.
* **`mutate-alu.sh:46`** No PASS line counts as a kill, so a bench that never ran kills everything.
* **`mutate.py:104`** The restoring is a `finally`. SIGTERM ends Python without it, and Ctrl-C in the
  `finally` itself can leave the file empty. A fault that removed its own text is then noticed by the next
  run's assertion; one that still applies is not, and `FaultAlone` shows how far it goes: the next run
  tries its own faults on top of it.

### What the passing runs say that the code does not

* A JT808 binary frame cut short, met in step, costs every whole frame from there to the next cut binary
  frame, and a sentence cut short, met in step, every one up to the end of the next whole sentence; other cuts
  in between change nothing (`PairingLosesRuns`, which gives finding 8 of the evidence exactly, and
  `RunsLost` proves it for every stream). Checksums and garbage never matter to it.
* `coverage()` strikes a returned frame off for the first whole frame that equals it, wherever it came from.
  Garbage behind a cut frame can complete it, and the frame so made can equal a later one that is itself
  swallowed, which is then not counted as lost. So "does not come out" and "is counted as lost" are the same only where no frame
  is such an impostor (`NoImpostor`, true of every state of the run).
* GT06 loses less, but not always one frame: rule R16 keeps sync bytes out of garbage, and the port takes
  any bytes for a frame start. A garbage run whose third and fourth bytes are a length costs every frame
  up to the stop that this length points at (`RealignsAtFrameEnds` bounds it).
* With Traccar's sentence length, no sentence ever comes out (`NoSentenceUncorrected`): only one at the very
  start of a buffer would, and there stands a connection's first binary frame.
* `validate()` lets through files whose weights sum to more than 2^64, or whose `garbage.length` spans more.
  `prng.below()` then has the limit 0 and loops for ever (`traffic.py:92-122`, `prng.py:33-37`). `Finishes` is
  claimed within `WithinDraws` only, and `NeverSpins` proves that nothing else makes a draw fail to return.
* A signalled `mutate-alu.sh` that still exits 0 has left in the file every edit it tried after the trap
  removed the copy: the later ones were judged on top of the earlier, and one of a text already replaced
  would have counted as a survivor (`LeftBehind`, proved as `WhatIsLeft`).
* The corpus counter of wrong lengths also counts frames whose version flag lies (`AccountsAgree` excepts
  them): they are read with the other header.

### Fairness

`Harness` and `Formatter`: weak fairness of the next step, one hart that keeps executing. `Htif`: weak
fairness of the program, of the host taking a command and of the host answering; Spike polls between
instructions for as long as the run lasts (decisions/0014 cites `sim.cc:202-219`). `MutateAlu`: weak
fairness of the script; signals have none. `Mutate`: weak fairness of the script's own steps, a hang
included: `LIMIT` ends what hangs, and an interpreter between two calls goes on. Signals, the generator
and a new start have no fairness. `Framers` states only safety. `Traffic`: weak fairness of the next step, one thread that
never waits. A draw under a positive limit is such a step: `next64` mixes a counter one to one and so goes through
every 64-bit value, among them one below the limit. No run assumes strong fairness.

## Proofs

`HarnessProofs` proves, for every set of images, every `MaxConnections` up to 65,536 and without bound
on the number or length of chunks:

* `TypeCorrect`, `RecordsTile` (`BufferTiled`), `PassesCorrect` (`PassesStayOnRecords`),
  `WalksAgree` (`WindowWalkAgrees`), `RecordsFinal` (`RecordsAreFinal`).

The inductive invariant is `IInv == TypeOK /\ WalkInv /\ Tiled /\ SortFits /\ PassesStayOnRecords /\ OutInv`;
`BufferTiled` is `Tiled` and `SortFits`.
None of the properties is inductive alone. That a record's length fits 16 bits needs the chunk's length
to, which in the window is known only because the walk is at a header that `check()` saw: so `WalkInv`
carries where each walk will be after the chunks that are left. `ReserveExact` shows that what
`rec_open` reserves is what the writers use, `CloseTiles` that closing a record extends the tiling, and
`OnRecord` that a pass which steps from a record by its length lands on a record.

`EndComplete` (`EndMeansComplete`) needs that invariant, and
`CountInv`: unless one was lost, the buffer holds one record for each decoder call so far; the walk has
counted the records below `r`, which the tiling makes one more at each step; a line has been printed
for each of them. The place of a record in `index` is not needed for the counts. It is for `SortCorrect`
(`SortedStably`): `SortInv` says of each of the two passes and of the sums between them what `count` holds
of a connection, which makes the place of a record the number of records that come before it, those of
earlier connections and those of its own at lower addresses; and no two records have as many.

`ExpectProofs` is about both walks at once, the harness's and the script's:

* `OutputCanonical` (`ImplementsCanonicalOutput`): the harness implements `CanonicalOutput`, step by step.
  `SimInv` says that a connection's log ends where its next chunk starts, and that each printed line is that
  of its place in `index`, which by `SortInv` is a place in the logs laid end to end.
* `CheckUnpackAgree` (`CheckAgreesWithUnpack`): `ReadInv` says how many chunks `check()` has walked over,
  that they are sound, what they sum to, and of a refusal that `unpack()` refuses as well.
* `OutputExpected` (`OutputAsExpected`): `TellInv` tells what the buffer holds from the file alone. Each
  connection's records are its chunks in the order of the file, then its end, and the bytes that a record
  counts are the sum of its connection's chunks before.

They rest on two assumptions. `IsPacked` says that `pack()` writes the chunks end to end from the table to
the end of the file; a fault changes what a chunk says of itself, not where it is. `GarbledAssumption` says
that a garbled line is none that the formatter makes of a record, which is what the word stands for.

`FormatterProofs` proves `TypeCorrect`, `FieldsTile` (`FieldsTileRecord`), `PrintsInOrder`
(`PrintedInOrder`) and `WrittenPrinted` (`WrittenIsPrinted`) for every record and every size of `f`. While the sort shifts, `f` holds one field
twice and lacks `x`; so the invariant speaks of `Filled`, which is `f` with `x` put back at `j + 1`.
A shift then makes two fields of `Filled` trade places, which changes neither the words they cover
(`LaidSwap`) nor, but for the hole, their order. That fields with equal ids keep theirs follows because
whatever the sort has not reached was written after all that it has. For `WrittenPrinted`, `AtField` says
that the parse is at the start of one of the fields that the writers laid out, or at the record's end, with
no more in `f` than the fields before. That the loops end stays with TLC.

`HtifProofs` proves `TypeCorrect`, `OneAnswer`, `ProxyWhole`, `UntornWhole`, `CommandsKept` and
`BufferHeld` for every text, buffer size, main code and number of bytes the host takes. `Device` says
for each place of the program what the two words and the answer can hold. `ProxyInv` and `ConsoleInv` say
which part of the text is on the screen and which is in the buffer, or in `tohost`, there; a host that
looks between two stores of a character sets `torn`, and `ConsoleInv` then says no more.

`MutateProofs` proves `NamesHonoured` (`RunsWhatItNames`) and `FaultsAlone` (`FaultAlone`) for any faults,
stimuli, signals and restarts.
A kept build is what makes it hard: `BuildsNamed` says that whatever a build directory still holds is of
the inputs in its name, `Directories` that the stimulus `coverage-1` is as the generator left it at some
one of its writes, and `MakeInv` how far the `make` that runs has come. `FaultAlone` counts the
faults of all files, and is not inductive: what a `finally` puts back is what was read before the edit,
an earlier run's leavings included. `AloneInv` counts them with that put back: the sources then hold no
fault but those that signals left, whether the file is at this moment cut, changed or whole.

`MutateAluProofs` proves, for any number of edits and signals and any testbench, `TypeCorrect`,
`EditsAlone` (`EachEditAlone`), `VerdictTrusted` (`UndisturbedVerdict`) and `WhatIsLeft`
(`LeftBehind`), from `IInv == TypeOK /\ Place /\ Verdicts /\ Left`: where the script is decides what the
file carries, and what has been counted so far. `Left` says it of the time without the copy: the file carries only
edits tried since the trap, no two of one text, and all of them while no survivor is counted.

`TrafficProofs` proves five results for every parameter file: any number of connections, any streams, any
chunks. The first is `TurnsAlwaysKept` (`TurnsKept`). `TurnsKept` says nothing of the queue `active`, so it is not
inductive. `Queue` adds that the queue holds each connection with chunks left exactly once;
`RoundRobin` that those further back have had no fewer turns; `Sequential` that the queue ascends and
nobody behind its head has started. `HeadServed` and `Places` reduce one turn of the loop, with its
`append`, `pop` and `remove`, to what happens to the places of the queue.

`RulesKept` (`StreamsAsRuled`) is in two halves. `_fault` compares one draw with the faults' rates laid end
to end, so how many draws select a fault is a difference of two sums (`FaultTakes`), and its rate exactly.
For the streams, `SInv` says what the counts sum to while frames are dealt, that each segment is as `_fill`
makes it (`WellMade`), and that garbage only ever goes in together with the frame behind it (`Made`). A
length field has 8 bits (GT06) or 10 (JT808); `NumbersAssumption` asks for a limit of 7 at least, so that
one that cannot grow by 4 can shrink by 4.

`NeverSpins` says that within `WithinDraws` every draw of a file that `validate()` let through returns; `SInv`
carries it, as the reason why the stage `"spins"` was reached. That the generator then ends is left to TLC.

`StreamsDelivered` maps every step to one of `Delivery` or a stutter, in all three interleavings. `DInv`
adds `ChunksInv`, that a connection's chunks lie end to end from the start of its stream, and `ReadInv`,
that what `check.py` puts together from the chunks handed over so far is that many first bytes of the
stream. `Delivery`'s liveness is left to TLC.

`ReaderAgrees` (`CheckAgrees`) follows from `DInv` once everything is written. What is read back is the
whole stream, so each line's offset finds its segment; the chunks' ends ascend, so `bisect_right` finds the
end of the chunk that holds the frame's first byte, and the frame is split exactly if that is not its last.

`FramersProofs` proves `Realigns` (`RealignsAtFrameEnds`), for GT06 streams of any number of segments with
any bytes and any fault. The invariant, `RInv`, adds to the property that the framer's place is the stream's
start or the end of an uncut frame, and that when it waits no such end lies behind it. Three facts about the model
carry the step. Whatever a frame's fields, its content is at most 32 bytes and its last two are 0D 0A
(`Gt06WholeIs`, through every encoder, the CRC included: a field is drawn in its range, so each byte is
one). The stream is the segments laid end to end, so each segment's end is the sum of the lengths up to it
(`StreamIs`, `FrameEndsAre`). And a decode that returns a slice stopped at a 0D 0A, where `NoStrayStop` says that
a frame ends (`Realigned`); the first byte of the stream is a frame's, since a connection opens with one.

`SentencesLost` (`NoSentenceUncorrected`) is about JT808 streams. `SInv` says that nothing returned so far reads
as a sentence does, with 41 last and nowhere before (`SentenceData`). A slice of the uncorrected length reaches
past its own 41, unless it starts at the stream's first byte, where `Session` puts a delimiter; an unescaped
frame starts with its delimiter, which is no introducer, whatever the loop makes of the rest (`UnescapedIs`
shows that the loop has a result, from its end backwards). `WholeSentenceIs` shows that every sentence the
generator sends has that form, and the decoder alone on it returns it, so its loss is one that `coverage()` counts.

`InStepReturned` (`InStepComesOut`) is about both ports. Its invariant, `CInv`, says that every segment is as
its account says (`Made`) and that what was returned last is what a decode of the stream at some place returns; that
place is then the one where the frame begins (`Gt06Decodes`, `Jt808Decodes`), and the frame's own bytes decide the rest:
a length that leads to its own stop (`Gt06InStep`), a first parenthesis (`SentenceInStep`), or a first
delimiter (`BinaryInStep`, both in `Jt808InStep`). For the last, escaping has to leave no delimiter between the frame's two
(`NoneInside`), and both unescaping loops, the port's and `check.py`'s, have to take it back: an escape's second byte
is never a delimiter nor an introducer, and the three tables agree pair by pair (`TablesAgree`), so what is left to
undo after each byte is the escape of a shorter body (`UnescapedFrame`, `DestuffIs`).

`RunsLost` (`PairingLosesRuns`) says which frames a cut one costs on a JT808 stream of any length. Such a
stream has the framer's bytes at its frames' ends alone (`MarksAre`), so each decode is decided by the phase.
`PInv` adds to `CInv` where the framer is after n segments (`Place`): in step, with none of its bytes left in segment n,
or behind the first byte of an uncut binary frame, which it has taken for the end of an earlier one; and that
of the uncut frames up to there it has returned those that were in step (`Accounted`). It is this second
place that the property does not mention and that makes it inductive. A decode then leads to another such
place or waits (`Decodes`): it returns the next frame (`TakesWhole`), or opens where a cut one does
(`TakesCut`) or at the end of the frame it stands in (`FromSwapped`), and closes at the first later frame of the right kind
(`ClosesLater`, `ClosingPlace`), past segments that keep the phase (`NotClosing`). The half about `coverage()` follows, because a
returned frame that starts where an uncut one does is what that one is alone (`OutAsAlone`).

The proofs assume only the named assumptions of the modules: the shape of an image and of the
constants (`ImagesAssumption`, `MaxConnectionsAssumption`, `EditsAssumption`, `SiteAssumption`,
`SignalAssumption`, `NumbersAssumption`, `ParamsAssumption`, `MaxFieldsAssumption`,
`CandidatesAssumption`, `TextsAssumption`, `PathsAssumption`, `BufSizeAssumption`, `ReturnsAssumption`,
`FaultsAssumption`, `BoundsAssumption`, `GarbledAssumption`, `ConnsAssumption`), which TLC evaluates in the runs.

Sums, sorts and walks over data are proved about through a concrete predicate each: a least number that
does not satisfy it (`NatMin`) leads to a contradiction, and the recursive function behind a community fold
is given by its own equation. The library's induction theorems, which take an operator, are not used.

Model-checked only: of `Framers`, `AccountsAgree`, which says of every type of frame that each reader gets back
the fields and the check the encoder wrote, for devices whose last digit is wrong on purpose: a round trip
through recursions over data (two implementations of one CRC, the numerals, the lists of a batch), and a
comparison with the other choices of the instance; and liveness, `Delivery`'s included, which is out of the
prover's reach.
`MutateAlu`'s `TypeOK` is only
proved: no run checks it.

## Not modelled

* Harness: `instret()` and the trap handler, the numerals and the wording of the output, crt0's clearing
  of `.bss`; the sum of the payload modulo 2^32, which needs a stimulus of more than 4 GB;
  `format_test.c`, whose records `MCFormatter` covers.
* Generator: the numbers of `prng.py` and the calendar of a clock (a draw is a choice from the values it
  can return, if it does), the device clocks of rule R5, the statistics and the command line.
* `mutate.py`: whether a fault is in truth caught, which is what running it is for; a generator that runs
  beside the script; a `make` that outlives a script killed alone; the link script's layout.
* Evidence: the printed tables, the constructed cases and the self-test by broken variants of
  `framing.py`; the vendors' examples and the scan of Traccar's sources in `checksums.py`.
* `bench/rv32`'s C program and its Makefile: fixed data, measurements and reports.
* `rtl/` and its benches: small exercises, each with a golden model of its own.
* `capture.sh`, which copies one command's output; the tests; the documents. The reference decoder of
  `bench/SPEC.md` does not exist yet.

## Plan

Written first because everything measured passes through it: `Records`, `Harness`, `CanonicalOutput`,
`Expect`; then `Formatter`, `Htif`, `MutateAlu`, `Traffic`; then what the stimulus's bytes mean to its
readers, `Encoders` to `Framers`, and the fault injection, `Mutate`; and the proofs.
What is left, in this order:

1. `Rtl`: the ripple adder and the ALU against arithmetic at small widths; the sequential blocks.
2. The reference decoder, once it is written, against `Encoders`.
