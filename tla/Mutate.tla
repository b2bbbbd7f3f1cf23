--------------------------------- MODULE Mutate --------------------------------
(***************************************************************************)
(* bench/decoder/mutate.py: it breaks the harness one fault at a time, has *)
(* make build and run it, and puts the source back. With it, what it works *)
(* on: the builds of bench/decoder/Makefile, each in a directory named by  *)
(* a hash of its inputs; and the coverage stimulus's directory, whose      *)
(* three files generate.py has written one after another, or has begun to. *)
(* SIGINT (Ctrl-C) and SIGTERM may come at any point, and the script may   *)
(* be started again on what an earlier run left.                           *)
(*                                                                         *)
(* Contents are abstract. A source file is the sequence of the faults that *)
(* were written into it, or Cut: opened to be written, and not yet         *)
(* written. A file of a stimulus is "cut" or has a version; a manifest     *)
(* names the version that it was written with. A hash is what it covers.   *)
(***************************************************************************)
EXTENDS Integers, Sequences, SequencesExt

CONSTANTS
  SOURCE_FAULTS,   \* a sequence of [name, file, check, blocked]: check is the decoder it is run
                   \* with, or "same-decoder"; blocked, the faults that take away its text
  StimulusFaults,  \* a sequence of the versions that corrupt a stimulus
  MaxRuns,         \* how often the script may be started
  MaxSignals       \* how many signals may come

Files == {SOURCE_FAULTS[k].file : k \in DOMAIN SOURCE_FAULTS}
Cases == Len(SOURCE_FAULTS) + Len(StimulusFaults)

ASSUME FaultsAssumption ==
  /\ SOURCE_FAULTS \in Seq([name : STRING, file : STRING, blocked : SUBSET STRING,
                            check : {"stub", "format_test", "same-decoder"}])
  /\ StimulusFaults \in Seq(STRING \ {"old", "new", "cut", "second", "none"})
ASSUME BoundsAssumption == MaxRuns \in Nat /\ MaxSignals \in Nat

VARIABLES
  gen,       \* how many of the generator's steps are left
  dirs,      \* the stimulus directories: the version of each file
  src,       \* the source files
  builds,    \* the build directories, by what their name is a hash of
  pc,
  n,         \* the case
  original,  \* what source_fault has read
  make,      \* the make that runs: its stimulus directory and its build directory's name
  status,    \* the exit status of the case
  caught,    \* how many cases had a true status
  dying,     \* is a KeyboardInterrupt on its way up
  runs,
  signals    \* the signals that came, each with where the script was, and if in a source case

world  == <<gen, dirs, src, builds>>
script == <<n, original, make, status, caught, dying, runs, signals>>
vars   == <<world, pc, script>>

Cut    == <<"cut">>
None   == 2   \* the status of a run that hung
NoMake == [stim |-> "none", id |-> <<>>]

--------------------------------------------------------------------------------
(* generate.py's main(), where it writes: each file is opened, which cuts  *)
(* it, and then written.                                                   *)

\* Mutant: the manifest is written before the intent log.
WRITES_ManifestEarly == <<"stimulus", "manifest", "intent">>

WRITES == <<"stimulus", "intent", "manifest">>

Version(v) == [stimulus |-> v, intent |-> v, manifest |-> v]

GenerateStep ==
  /\ pc = "idle" /\ gen > 0
  /\ LET file == WRITES[Len(WRITES) - (gen - 1) \div 2] IN
       dirs' = [dirs EXCEPT !["coverage-1"][file] = IF gen % 2 = 0 THEN "cut" ELSE "new"]
  /\ gen' = gen - 1
  /\ UNCHANGED <<src, builds, pc, script>>

KillGenerator ==
  /\ pc = "idle" /\ gen > 0
  /\ gen' = 0
  /\ UNCHANGED <<dirs, src, builds, pc, script>>

--------------------------------------------------------------------------------
(* main() and source_fault, up to the make. *)

IsSource == n <= Len(SOURCE_FAULTS)
Fault    == SOURCE_FAULTS[n]

Start ==
  /\ pc = "idle" /\ gen = 0 /\ runs < MaxRuns
  /\ pc' = "case" /\ runs' = runs + 1
  /\ UNCHANGED <<world, n, original, make, status, caught, dying, signals>>

(* Is the text to change in the file, once? *)
Applies == src[Fault.file] # Cut /\ ~\E k \in DOMAIN src[Fault.file] : src[Fault.file][k] \in Fault.blocked

(* The file is read, and the assertion that it holds the text made; then,  *)
(* in the try, it is opened to be written, which cuts it.                  *)
OpenSource ==
  /\ pc = "case" /\ n <= Cases /\ IsSource
  /\ IF Applies
       THEN /\ original' = src[Fault.file]
            /\ src' = [src EXCEPT ![Fault.file] = Cut]
            /\ pc' = "opened"
       ELSE pc' = "died" /\ UNCHANGED <<original, src>>
  /\ UNCHANGED <<gen, dirs, builds, n, make, status, caught, dying, runs, signals>>

WriteFault ==
  /\ pc = "opened"
  /\ src' = [src EXCEPT ![Fault.file] = Append(original, Fault.name)]
  /\ pc' = "make"
  /\ UNCHANGED <<gen, dirs, builds, script>>

\* Mutant: a corrupted stimulus keeps the manifest that it was copied with.
Corrupted_OldManifest(v) == [Version("new") EXCEPT !.stimulus = v]

(* A copy of the stimulus, corrupted, with a manifest that names it. *)
Corrupted(v) == [Version("new") EXCEPT !.stimulus = v, !.manifest = v]

(* stimulus_faults: generate.py writes a stimulus of its own in a          *)
(* temporary directory, or the script ends; each case corrupts a copy.     *)
WriteStimulus ==
  /\ pc = "case" /\ n <= Cases /\ ~IsSource
  /\ \/ /\ dirs' = [dirs EXCEPT !["tmp"] = Corrupted(StimulusFaults[n - Len(SOURCE_FAULTS)])]
        /\ pc' = "make"
     \/ n = Len(SOURCE_FAULTS) + 1 /\ pc' = "died" /\ dirs' = dirs
  /\ UNCHANGED <<gen, src, builds, script>>

--------------------------------------------------------------------------------
(* The Makefile, from the build directory's name to the run. *)

\* Mutant: the hash does not cover the stimulus's bytes.
CONFIG_ID_NoStimulus(decoder, stim) == <<src, decoder>>

(* CONFIG_ID: the decoder's name, and the bytes of every input. *)
CONFIG_ID(decoder, stim) == <<src, decoder, dirs[stim].stimulus>>

Unbuilt == [stimulus |-> "none", image |-> <<>>]
Build   == builds[make.id]

(* A make begins: its build directory may be there, and hold a build. *)
Begin(decoder, stim) ==
  /\ make' = [stim |-> stim, id |-> CONFIG_ID(decoder, stim)]
  /\ builds' = [id \in DOMAIN builds \cup {CONFIG_ID(decoder, stim)} |->
                  IF id \in DOMAIN builds THEN builds[id] ELSE Unbuilt]
  /\ pc' = "copy"
  /\ UNCHANGED <<gen, dirs, src, n, original, status, caught, dying, runs, signals>>

Hashing == IsSource /\ Fault.check = "same-decoder"

(* make run STIM=, make expect DECODER=, or the first of the two hashes. *)
BeginMake ==
  /\ pc = "make"
  /\ \/ ~IsSource /\ Begin("stub", "tmp")
     \/ Hashing /\ Begin("stub", "coverage-1")
     \/ IsSource /\ ~Hashing /\ Begin(Fault.check, "coverage-1")

(* The stimulus is copied, unless a copy is there that is not older. *)
Copy ==
  /\ pc = "copy"
  /\ \/ builds' = [builds EXCEPT ![make.id].stimulus = dirs[make.stim].stimulus]
     \/ Build.stimulus # "none" /\ builds' = builds
  /\ pc' = "compile"
  /\ UNCHANGED <<gen, dirs, src, script>>

AfterBuild == IF ~Hashing THEN "manifest" ELSE IF make.stim = "coverage-1" THEN "second" ELSE "compare"

(* A case's make ends with a status. *)
Ends(with) == status' = with /\ pc' = "ran"

(* The image is linked, unless one is there that is newer than its inputs. *)
Compile ==
  /\ pc = "compile"
  /\ \/ builds' = [builds EXCEPT ![make.id].image = <<src, Build.stimulus>>]
     \/ Build.image # <<>> /\ builds' = builds
  /\ pc' = AfterBuild
  /\ UNCHANGED <<gen, dirs, src, script>>

(* The build fails. hashes() then returns an empty string. *)
CompileFails ==
  /\ pc = "compile"
  /\ builds' = [builds EXCEPT ![make.id].image = <<>>]
  /\ IF Hashing THEN pc' = AfterBuild /\ status' = status ELSE Ends(1)
  /\ UNCHANGED <<gen, dirs, src, n, original, make, caught, dying, runs, signals>>

SecondHashes == pc = "second" /\ Begin("stub", "coverage-2")

(* same_decoder: the two stimuli must give two images and one decoder      *)
(* image. Whether the fault moves the decoder is not modelled; an empty    *)
(* string cannot be split.                                                 *)
Compare ==
  /\ pc = "compare"
  /\ LET one == builds[CONFIG_ID("stub", "coverage-1")].image
         two == Build.image
     IN \E moved \in BOOLEAN :
          Ends(IF moved \/ one = two \/ <<>> \in {one, two} THEN 1 ELSE 0)
  /\ UNCHANGED <<world, n, original, make, caught, dying, runs, signals>>

(* expect.py manifest: what is linked is what the directory's manifest     *)
(* names, or the run is refused.                                           *)
CheckManifest ==
  /\ pc = "manifest"
  /\ IF Build.stimulus = dirs[make.stim].manifest /\ Build.stimulus # "cut"
       THEN pc' = "spike" /\ status' = status
       ELSE Ends(1)
  /\ UNCHANGED <<world, n, original, make, caught, dying, runs, signals>>

(* Spike runs it, and make expect holds the output to expect.py: something *)
(* fails, or nothing does, or the image never ends.                        *)
Spike ==
  /\ pc = "spike"
  /\ \/ \E with \in {0, 1} : Ends(with)
     \/ pc' = "hung" /\ status' = status
  /\ UNCHANGED <<world, n, original, make, caught, dying, runs, signals>>

\* Mutant: a case that hung is tried again.
AfterLimit_Retry == "make"

AfterLimit == "ran"

(* After LIMIT seconds, what hangs is killed, and the status is None. *)
Limit ==
  /\ pc = "hung"
  /\ status' = None
  /\ pc' = AfterLimit
  /\ UNCHANGED <<world, n, original, make, caught, dying, runs, signals>>

--------------------------------------------------------------------------------
(* The end of a case, and of the script. *)

(* A fault is caught if its status is true: neither 0 nor None. *)
NextCase ==
  /\ pc' = "case" /\ n' = n + 1
  /\ caught' = caught + (IF status = 1 THEN 1 ELSE 0)
  /\ original' = <<>> /\ make' = NoMake /\ status' = 0

\* Mutant: after a hang the source is left as it is.
Restores_NotHung == IsSource /\ status # None

Restores == IsSource

Ran ==
  /\ pc = "ran"
  /\ IF Restores THEN pc' = "restore" /\ UNCHANGED <<n, caught, original, make, status>>
                 ELSE NextCase
  /\ UNCHANGED <<world, dying, runs, signals>>

(* The finally of source_fault. *)
OpenRestore ==
  /\ pc = "restore"
  /\ src' = [src EXCEPT ![Fault.file] = Cut]
  /\ pc' = "restoring"
  /\ UNCHANGED <<gen, dirs, builds, script>>

WriteOriginal ==
  /\ pc = "restoring"
  /\ src' = [src EXCEPT ![Fault.file] = original]
  /\ IF dying THEN pc' = "died" /\ UNCHANGED <<n, caught, original, make, status>>
              ELSE NextCase
  /\ UNCHANGED <<gen, dirs, builds, dying, runs, signals>>

Finish ==
  /\ pc = "case" /\ n > Cases
  /\ pc' = IF caught = Cases THEN "exit 0" ELSE "exit 1"
  /\ UNCHANGED <<world, script>>

--------------------------------------------------------------------------------
(* Signals, and the runs. *)

Building == {"make", "copy", "compile", "second", "compare", "manifest", "spike", "hung", "ran"}
Running  == pc \notin {"idle", "exit 0", "exit 1", "died"}

\* Mutant: the try begins after the fault is written.
InTry_Late == IsSource /\ pc \in Building

InTry == IsSource /\ pc \in Building \union {"opened"}

(* Ctrl-C reaches the script and its make, which deletes the target it is  *)
(* making. Inside the try the finally still runs; in the finally itself    *)
(* the interrupt ends it.                                                  *)
SigInt ==
  /\ Running /\ Len(signals) < MaxSignals
  /\ signals' = Append(signals, <<"INT", pc, IsSource>>)
  /\ dying' = TRUE
  /\ pc' = IF InTry THEN "restore" ELSE "died"
  /\ UNCHANGED <<world, n, original, make, status, caught, runs>>

(* SIGTERM ends Python at once: no finally runs. *)
SigTerm ==
  /\ Running /\ Len(signals) < MaxSignals
  /\ signals' = Append(signals, <<"TERM", pc, IsSource>>)
  /\ pc' = "died"
  /\ UNCHANGED <<world, n, original, make, status, caught, dying, runs>>

(* The engineer looks at the result, and may start the script again. *)
Again ==
  /\ pc \in {"exit 0", "exit 1", "died"} /\ runs < MaxRuns
  /\ pc' = "idle" /\ n' = 1 /\ original' = <<>> /\ make' = NoMake
  /\ status' = 0 /\ caught' = 0 /\ dying' = FALSE
  /\ UNCHANGED <<world, runs, signals>>

Done == pc \in {"exit 0", "exit 1", "died"} /\ runs = MaxRuns /\ UNCHANGED vars

Init ==
  /\ gen = 2 * Len(WRITES)
  /\ dirs = [k \in {"coverage-1", "coverage-2", "tmp"} |->
               IF k = "coverage-2" THEN Version("second") ELSE Version("old")]
  /\ src = [f \in Files |-> <<>>]
  /\ builds = <<>>
  /\ pc = "idle" /\ n = 1 /\ original = <<>> /\ make = NoMake
  /\ status = 0 /\ caught = 0 /\ dying = FALSE /\ runs = 0 /\ signals = <<>>

Script ==
  \/ OpenSource \/ WriteFault \/ WriteStimulus \/ BeginMake \/ Copy \/ Compile \/ CompileFails
  \/ SecondHashes \/ Compare \/ CheckManifest \/ Spike \/ Limit \/ Ran \/ OpenRestore
  \/ WriteOriginal \/ Finish

Next == GenerateStep \/ KillGenerator \/ Start \/ Script \/ SigInt \/ SigTerm \/ Again \/ Done

Spec     == Init /\ [][Next]_vars
FairSpec == Spec /\ WF_vars(Script)
================================================================================
