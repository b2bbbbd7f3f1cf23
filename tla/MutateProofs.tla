------------------------------ MODULE MutateProofs ------------------------------
(***************************************************************************)
(* Proofs about Mutate for any faults, any number of runs and any number   *)
(* of signals: what Spike runs is what its build directory is called, and  *)
(* a stimulus that one run of the generator wrote whole; and each fault is *)
(* tried alone, but for what signals have left.                            *)
(***************************************************************************)
EXTENDS MutateProperties, FiniteSetTheorems, NaturalsInduction, WellFoundedInduction, TLAPS

Stimuli  == {"coverage-1", "coverage-2", "tmp"}
Made     == {"copy", "compile", "manifest", "spike"}
Copied   == {"compile", "manifest", "spike"}

(* The coverage stimulus's directory when g of the generator's steps are left. *)
After(g) ==
  [stimulus |-> IF g = 6 THEN "old" ELSE IF g = 5 THEN "cut" ELSE "new",
   intent   |-> IF g > 3 THEN "old" ELSE IF g = 3 THEN "cut" ELSE "new",
   manifest |-> IF g > 1 THEN "old" ELSE IF g = 1 THEN "cut" ELSE "new"]

(* The coverage stimulus is as the generator left it at some step; the     *)
(* corrupted one is named by its manifest.                                 *)
Directories ==
  /\ dirs = [k \in Stimuli |-> dirs[k]]
  /\ gen \in 0 .. 6
  /\ \E g \in 0 .. 6 : dirs["coverage-1"] = After(g) /\ (gen # 0 => g = gen)
  /\ dirs["coverage-2"] = Version("second")
  /\ dirs["tmp"].stimulus # "none" /\ dirs["tmp"].stimulus = dirs["tmp"].manifest

(* Whatever a build directory holds is of the inputs in its name. *)
Named(id, b) ==
  /\ b = [stimulus |-> b.stimulus, image |-> b.image]
  /\ b.stimulus \in {"none", id[3]} /\ b.image \in {<<>>, <<id[1], id[3]>>}

BuildsNamed ==
  /\ builds = [id \in DOMAIN builds |-> builds[id]]
  /\ \A id \in DOMAIN builds : Named(id, builds[id])

(* The make that runs: its name is still what it was a hash of, and how    *)
(* far it has come.                                                        *)
MakeInv ==
  /\ pc \in Made =>
       /\ make.stim \in Stimuli /\ make.id \in DOMAIN builds
       /\ make.id[1] = src /\ make.id[3] = dirs[make.stim].stimulus
       /\ ~IsSource => make.stim = "tmp"
  /\ pc \in Copied => Build.stimulus = make.id[3]
  /\ pc \in {"manifest", "spike"} => Build.image # <<>>
  /\ pc = "spike" => Build.stimulus = dirs[make.stim].manifest /\ Build.stimulus # "cut"
  /\ pc = "second" => IsSource

IInv == n \in Nat /\ Directories /\ BuildsNamed /\ MakeInv

-----------------------------------------------------------------------------
LEMMA InitInv == Init => IInv
<1> SUFFICES ASSUME Init PROVE IInv
  OBVIOUS
<1>1. gen = 6 /\ pc = "idle" /\ builds = <<>> /\ n \in Nat
  BY DEF Init, WRITES
<1>2. /\ dirs = [k \in Stimuli |-> dirs[k]]
      /\ dirs["coverage-1"] = Version("old") /\ dirs["tmp"] = Version("old")
      /\ dirs["coverage-2"] = Version("second")
  BY DEF Init, Stimuli
<1>3. Version("old") = After(6)
  BY DEF Version, After
<1>4. Directories
  BY <1>1, <1>2, <1>3 DEF Directories, Version
<1>5. BuildsNamed
  BY <1>1 DEF BuildsNamed
<1>6. MakeInv
  BY <1>1 DEF MakeInv, Made, Copied
<1> QED BY <1>1, <1>4, <1>5, <1>6 DEF IInv

-----------------------------------------------------------------------------
(* A step that touches neither the builds nor the stimuli, and at which no *)
(* build is under way afterwards.                                          *)
LEMMA Quiet ==
  ASSUME IInv, n' \in Nat, UNCHANGED <<gen, dirs, builds>>, pc' \notin Made \cup {"second"}
  PROVE  IInv'
<1>1. Directories'
  BY DEF IInv, Directories
<1>2. BuildsNamed'
  BY DEF IInv, BuildsNamed, Named
<1>3. MakeInv'
  BY DEF MakeInv, Made, Copied
<1> QED BY <1>1, <1>2, <1>3 DEF IInv

(* The generator's steps go through After(6) ... After(0), and a kill      *)
(* leaves what it finds.                                                   *)
LEMMA GenerateInv == ASSUME IInv, GenerateStep PROVE IInv'
<1> USE DEF GenerateStep
<1>1. gen \in 1 .. 6 /\ dirs["coverage-1"] = After(gen)
  BY DEF IInv, Directories
<1>2. dirs'["coverage-1"] = After(gen')
  <2> DEFINE file == WRITES[Len(WRITES) - (gen - 1) \div 2]
  <2>1. dirs'["coverage-1"] = [dirs["coverage-1"] EXCEPT ![file] = IF gen % 2 = 0 THEN "cut" ELSE "new"]
    BY DEF IInv, Directories, Stimuli
  <2>2. CASE gen = 6
    <3>1. file = "stimulus"
      BY <2>2 DEF WRITES
    <3> QED BY <2>1, <2>2, <3>1, <1>1 DEF After
  <2>3. CASE gen = 5
    <3>1. file = "stimulus"
      BY <2>3 DEF WRITES
    <3> QED BY <2>1, <2>3, <3>1, <1>1 DEF After
  <2>4. CASE gen = 4
    <3>1. file = "intent"
      BY <2>4 DEF WRITES
    <3> QED BY <2>1, <2>4, <3>1, <1>1 DEF After
  <2>5. CASE gen = 3
    <3>1. file = "intent"
      BY <2>5 DEF WRITES
    <3> QED BY <2>1, <2>5, <3>1, <1>1 DEF After
  <2>6. CASE gen = 2
    <3>1. file = "manifest"
      BY <2>6 DEF WRITES
    <3> QED BY <2>1, <2>6, <3>1, <1>1 DEF After
  <2>7. CASE gen = 1
    <3>1. file = "manifest"
      BY <2>7 DEF WRITES
    <3> QED BY <2>1, <2>7, <3>1, <1>1 DEF After
  <2> QED BY <1>1, <2>2, <2>3, <2>4, <2>5, <2>6, <2>7
<1>3. Directories'
  <2>1. gen' \in 0 .. 6
    BY <1>1
  <2>2. /\ dirs' = [k \in Stimuli |-> dirs'[k]]
        /\ dirs'["coverage-2"] = dirs["coverage-2"] /\ dirs'["tmp"] = dirs["tmp"]
    BY DEF IInv, Directories, Stimuli
  <2> QED BY <1>2, <2>1, <2>2 DEF IInv, Directories, Version
<1>4. BuildsNamed'
  BY DEF IInv, BuildsNamed, Named
<1>5. MakeInv'
  BY DEF MakeInv, Made, Copied
<1> QED BY <1>3, <1>4, <1>5 DEF IInv, script

LEMMA KillInv == ASSUME IInv, KillGenerator PROVE IInv'
<1>1. Directories'
  BY DEF KillGenerator, IInv, Directories
<1>2. BuildsNamed'
  BY DEF KillGenerator, IInv, BuildsNamed, Named
<1>3. MakeInv'
  BY DEF KillGenerator, MakeInv, Made, Copied
<1> QED BY <1>1, <1>2, <1>3 DEF IInv, KillGenerator, script

(* A corrupted stimulus comes with a manifest that names it. *)
LEMMA StimulusInv == ASSUME IInv, WriteStimulus PROVE IInv'
<1>1. CASE pc' = "died"
  <2>1. UNCHANGED <<gen, dirs, builds, n>>
    BY <1>1 DEF WriteStimulus, script
  <2> QED BY <2>1, <1>1, Quiet DEF Made, IInv
<1>2. CASE pc' = "make"
  <2> DEFINE v == StimulusFaults[n - Len(SOURCE_FAULTS)]
  <2>1. /\ dirs' = [dirs EXCEPT !["tmp"] = Corrupted(v)] /\ v # "none"
    <3>1. n - Len(SOURCE_FAULTS) \in DOMAIN StimulusFaults
      BY <1>2, FaultsAssumption DEF WriteStimulus, IsSource, Cases, IInv
    <3> QED BY <1>2, <3>1, FaultsAssumption DEF WriteStimulus
  <2>2. Directories'
    BY <2>1 DEF WriteStimulus, IInv, Directories, Stimuli, Corrupted, Version
  <2>3. BuildsNamed'
    BY DEF WriteStimulus, IInv, BuildsNamed, Named
  <2>4. MakeInv'
    BY <1>2 DEF MakeInv, Made, Copied
  <2> QED BY <2>2, <2>3, <2>4 DEF IInv, WriteStimulus, script
<1> QED BY <1>1, <1>2 DEF WriteStimulus

-----------------------------------------------------------------------------
(* A make that begins finds its build directory as its name says, or makes *)
(* it empty.                                                               *)
LEMMA BeginInv ==
  ASSUME IInv, NEW decoder, NEW stim \in Stimuli, Begin(decoder, stim), ~IsSource => stim = "tmp"
  PROVE  IInv'
<1> DEFINE name == CONFIG_ID(decoder, stim)
<1>1. name = <<src, decoder, dirs[stim].stimulus>> /\ make' = [stim |-> stim, id |-> name]
  BY DEF Begin, CONFIG_ID
<1>2. builds' = [id \in DOMAIN builds \cup {name} |->
                   IF id \in DOMAIN builds THEN builds[id] ELSE Unbuilt]
  BY DEF Begin
<1> HIDE DEF name
<1>3. pc' = "copy" /\ UNCHANGED <<gen, dirs, src, n>>
  BY DEF Begin
<1>4. Directories'
  BY <1>3 DEF IInv, Directories
<1>5. BuildsNamed'
  <2>1. Named(name, Unbuilt)
    BY DEF Named, Unbuilt
  <2> QED BY <1>2, <2>1 DEF IInv, BuildsNamed, Named
<1>6. MakeInv'
  <2>1. make'.id[1] = src' /\ make'.id[3] = dirs'[make'.stim].stimulus
    BY <1>1, <1>3
  <2>2. make'.stim \in Stimuli /\ make'.id \in DOMAIN builds'
    BY <1>1, <1>2
  <2>3. ~IsSource' => make'.stim = "tmp"
    BY <1>1, <1>3 DEF IsSource
  <2> QED BY <1>3, <2>1, <2>2, <2>3 DEF MakeInv, Made, Copied
<1> QED BY <1>3, <1>4, <1>5, <1>6 DEF IInv

(* The copy is of the stimulus in the directory's name, or was already. *)
LEMMA CopyInv == ASSUME IInv, Copy PROVE IInv'
<1>1. /\ make.id \in DOMAIN builds /\ make.id[3] = dirs[make.stim].stimulus
      /\ make.stim \in Stimuli /\ Named(make.id, builds[make.id])
  BY DEF Copy, IInv, MakeInv, BuildsNamed, Made
<1>2. pc' = "compile" /\ UNCHANGED <<gen, dirs, src, n, make>>
  BY DEF Copy, script
<1>3. builds' = [builds EXCEPT ![make.id].stimulus = make.id[3]]
  <2>1. CASE builds' = [builds EXCEPT ![make.id].stimulus = dirs[make.stim].stimulus]
    BY <2>1, <1>1
  <2>2. CASE Build.stimulus # "none" /\ builds' = builds
    <3>1. builds[make.id].stimulus = make.id[3]
      BY <2>2, <1>1 DEF Build, Named
    <3>2. builds[make.id] = [builds[make.id] EXCEPT !.stimulus = make.id[3]]
      BY <3>1, <1>1 DEF Named
    <3> QED BY <2>2, <3>2, <1>1 DEF IInv, BuildsNamed
  <2> QED BY <2>1, <2>2 DEF Copy
<1>4. Directories'
  BY <1>2 DEF IInv, Directories
<1>5. Build'.stimulus = make.id[3] /\ DOMAIN builds' = DOMAIN builds
  BY <1>1, <1>2, <1>3 DEF Build, Named, IInv, BuildsNamed
<1>6. BuildsNamed'
  <2>1. Named(make.id, builds'[make.id])
    BY <1>1, <1>3 DEF Named
  <2>2. \A id \in DOMAIN builds : id # make.id => builds'[id] = builds[id]
    BY <1>3
  <2>3. builds' = [id \in DOMAIN builds' |-> builds'[id]]
    BY <1>3, <1>5
  <2> QED BY <2>1, <2>2, <2>3, <1>5 DEF IInv, BuildsNamed, Named
<1>7. MakeInv'
  <2>1. ~IsSource' => make.stim = "tmp"
    BY <1>2 DEF IInv, MakeInv, Made, IsSource, Copy
  <2>2. make.id[1] = src
    BY DEF IInv, MakeInv, Made, Copy
  <2> QED BY <1>1, <1>2, <1>5, <2>1, <2>2 DEF MakeInv, Made, Copied
<1> QED BY <1>2, <1>4, <1>6, <1>7 DEF IInv

(* What the link leaves in the build directory: an image or none, of the   *)
(* inputs in the directory's name.                                         *)
LEMMA LinkInv ==
  ASSUME IInv, pc = "compile", NEW image \in {<<>>, <<make.id[1], make.id[3]>>},
         builds' = [builds EXCEPT ![make.id].image = image],
         UNCHANGED <<gen, dirs, src, n, make>>, pc' = "manifest" => image # <<>>,
         pc' \notin {"copy", "compile", "spike"}, pc' = "second" => IsSource
  PROVE  IInv'
<1>1. /\ make.id \in DOMAIN builds /\ make.id[3] = dirs[make.stim].stimulus /\ make.id[1] = src
      /\ make.stim \in Stimuli /\ Named(make.id, builds[make.id]) /\ Build.stimulus = make.id[3]
      /\ ~IsSource => make.stim = "tmp"
  BY DEF IInv, MakeInv, BuildsNamed, Made, Copied
<1>2. Directories'
  BY DEF IInv, Directories
<1>3. /\ Build'.stimulus = make.id[3] /\ Build'.image = image
      /\ DOMAIN builds' = DOMAIN builds
  BY <1>1 DEF Build, Named, IInv, BuildsNamed
<1>4. BuildsNamed'
  <2>1. Named(make.id, builds'[make.id])
    BY <1>1 DEF Named
  <2>2. \A id \in DOMAIN builds : id # make.id => builds'[id] = builds[id]
    OBVIOUS
  <2>3. builds' = [id \in DOMAIN builds' |-> builds'[id]]
    BY <1>3
  <2> QED BY <2>1, <2>2, <2>3, <1>3 DEF IInv, BuildsNamed, Named
<1>5. MakeInv'
  BY <1>1, <1>3 DEF MakeInv, Made, Copied, IsSource
<1> QED BY <1>2, <1>4, <1>5 DEF IInv

LEMMA CompileInv == ASSUME IInv, Compile PROVE IInv'
<1>1. /\ pc = "compile" /\ make.id \in DOMAIN builds /\ Named(make.id, builds[make.id])
      /\ Build.stimulus = make.id[3] /\ make.id[1] = src
  BY DEF Compile, IInv, MakeInv, BuildsNamed, Made, Copied
<1>2. builds' = [builds EXCEPT ![make.id].image = <<make.id[1], make.id[3]>>]
  <2>1. CASE builds' = [builds EXCEPT ![make.id].image = <<src, Build.stimulus>>]
    BY <2>1, <1>1
  <2>2. CASE Build.image # <<>> /\ builds' = builds
    <3>1. builds[make.id].image = <<make.id[1], make.id[3]>>
      BY <2>2, <1>1 DEF Build, Named
    <3>2. builds[make.id] = [builds[make.id] EXCEPT !.image = <<make.id[1], make.id[3]>>]
      BY <3>1, <1>1 DEF Named
    <3> QED BY <2>2, <3>2, <1>1 DEF IInv, BuildsNamed
  <2> QED BY <2>1, <2>2 DEF Compile
<1>3. UNCHANGED <<gen, dirs, src, n, make>>
  BY DEF Compile, script
<1>4. pc' \in {"manifest", "second", "compare"} /\ (pc' = "second" => IsSource)
  BY DEF Compile, AfterBuild, Hashing
<1>5. <<make.id[1], make.id[3]>> # <<>>
  OBVIOUS
<1> QED BY <1>1, <1>2, <1>3, <1>4, <1>5, LinkInv

LEMMA CompileFailsInv == ASSUME IInv, CompileFails PROVE IInv'
<1>1. pc = "compile" /\ builds' = [builds EXCEPT ![make.id].image = <<>>]
  BY DEF CompileFails
<1>2. UNCHANGED <<gen, dirs, src, n, make>>
  BY DEF CompileFails
<1>3. pc' \in {"second", "compare", "ran"} /\ (pc' = "second" => IsSource)
  BY DEF CompileFails, AfterBuild, Hashing, Ends
<1> QED BY <1>1, <1>2, <1>3, LinkInv

(* Only what the manifest names goes on to Spike. *)
LEMMA CheckInv == ASSUME IInv, CheckManifest PROVE IInv'
<1>1. UNCHANGED <<gen, dirs, src, builds, n, make>>
  BY DEF CheckManifest, world
<1>2. CASE Build.stimulus = dirs[make.stim].manifest /\ Build.stimulus # "cut"
  <2>1. pc = "manifest" /\ pc' = "spike"
    BY <1>2 DEF CheckManifest
  <2>2. Directories' /\ BuildsNamed' /\ n' \in Nat
    BY <1>1 DEF IInv, Directories, BuildsNamed, Named
  <2>3. MakeInv'
    BY <1>1, <1>2, <2>1 DEF IInv, MakeInv, Made, Copied, Build, IsSource
  <2> QED BY <2>2, <2>3 DEF IInv
<1>3. CASE ~(Build.stimulus = dirs[make.stim].manifest /\ Build.stimulus # "cut")
  <2>1. pc' = "ran"
    BY <1>3 DEF CheckManifest, Ends
  <2> QED BY <1>1, <2>1, Quiet DEF Made, IInv
<1> QED BY <1>2, <1>3

(* The other steps of the script begin no build and touch no build. *)
LEMMA SourceInv ==
  ASSUME IInv, OpenSource \/ WriteFault \/ OpenRestore \/ WriteOriginal \/ Ran \/ Finish
  PROVE  IInv'
<1>1. UNCHANGED <<gen, dirs, builds>>
  BY DEF OpenSource, WriteFault, OpenRestore, WriteOriginal, Ran, Finish, world
<1>2. n' \in Nat
  <2>1. n \in Nat
    BY DEF IInv
  <2>2. CASE OpenSource \/ WriteFault \/ OpenRestore \/ Finish
    BY <2>1, <2>2 DEF OpenSource, WriteFault, OpenRestore, Finish, script
  <2>3. CASE WriteOriginal \/ Ran
    BY <2>1, <2>3 DEF WriteOriginal, Ran, NextCase
  <2> QED BY <2>2, <2>3
<1>3. pc' \notin Made \cup {"second"}
  BY DEF OpenSource, WriteFault, OpenRestore, WriteOriginal, Ran, Finish, NextCase, Made
<1> QED BY <1>1, <1>2, <1>3, Quiet

LEMMA EndsInv == ASSUME IInv, Compare \/ Spike \/ Limit PROVE IInv'
<1>1. UNCHANGED <<gen, dirs, builds, n>>
  BY DEF Compare, Spike, Limit, world
<1>2. pc' \notin Made \cup {"second"}
  BY DEF Compare, Spike, Limit, Ends, AfterLimit, Made
<1> QED BY <1>1, <1>2, Quiet DEF IInv

LEMMA OutsideInv == ASSUME IInv, Start \/ SigInt \/ SigTerm \/ Again PROVE IInv'
<1>1. UNCHANGED <<gen, dirs, builds>> /\ n' \in Nat
  <2>1. n \in Nat
    BY DEF IInv
  <2>2. CASE Start
    BY <2>1, <2>2 DEF Start, world
  <2>3. CASE SigInt \/ SigTerm
    BY <2>1, <2>3 DEF SigInt, SigTerm, world
  <2>4. CASE Again
    BY <2>4 DEF Again, world
  <2> QED BY <2>2, <2>3, <2>4
<1>2. pc' \notin Made \cup {"second"}
  BY DEF Start, SigInt, SigTerm, Again, Made
<1> QED BY <1>1, <1>2, Quiet

LEMMA BeginMakeInv == ASSUME IInv, BeginMake \/ SecondHashes PROVE IInv'
<1>1. CASE ~IsSource /\ Begin("stub", "tmp")
  BY <1>1, BeginInv DEF Stimuli
<1>2. CASE Hashing /\ Begin("stub", "coverage-1")
  BY <1>2, BeginInv DEF Stimuli, Hashing
<1>3. CASE IsSource /\ Begin(Fault.check, "coverage-1")
  BY <1>3, BeginInv DEF Stimuli
<1>4. CASE SecondHashes
  <2>1. IsSource /\ Begin("stub", "coverage-2")
    BY <1>4 DEF SecondHashes, IInv, MakeInv
  <2> QED BY <2>1, BeginInv DEF Stimuli
<1> QED BY <1>1, <1>2, <1>3, <1>4 DEF BeginMake

LEMMA NextInv == IInv /\ [Next]_vars => IInv'
<1> SUFFICES ASSUME IInv, [Next]_vars PROVE IInv'
  OBVIOUS
<1>1. CASE UNCHANGED vars
  BY <1>1 DEF vars, world, script, IInv, Directories, BuildsNamed, Named, MakeInv, Build, IsSource
<1>2. CASE GenerateStep
  BY <1>2, GenerateInv
<1>3. CASE KillGenerator
  BY <1>3, KillInv
<1>4. CASE Start \/ SigInt \/ SigTerm \/ Again
  BY <1>4, OutsideInv
<1>5. CASE OpenSource \/ WriteFault \/ OpenRestore \/ WriteOriginal \/ Ran \/ Finish
  BY <1>5, SourceInv
<1>6. CASE WriteStimulus
  BY <1>6, StimulusInv
<1>7. CASE BeginMake \/ SecondHashes
  BY <1>7, BeginMakeInv
<1>8. CASE Copy
  BY <1>8, CopyInv
<1>9. CASE Compile
  BY <1>9, CompileInv
<1>10. CASE CompileFails
  BY <1>10, CompileFailsInv
<1>11. CASE CheckManifest
  BY <1>11, CheckInv
<1>12. CASE Compare \/ Spike \/ Limit
  BY <1>12, EndsInv
<1>13. CASE Done
  BY <1>1, <1>13 DEF Done
<1> QED BY <1>1, <1>2, <1>3, <1>4, <1>5, <1>6, <1>7, <1>8, <1>9, <1>10, <1>11, <1>12, <1>13
        DEF Next, Script

(* At Spike the directory holds what its name says, and a coverage         *)
(* stimulus whose first and last file are of one version is whole.         *)
LEMMA InvNames == IInv => RunsWhatItNames
<1> SUFFICES ASSUME IInv PROVE RunsWhatItNames
  OBVIOUS
<1>1. ASSUME pc \in {"manifest", "spike"} PROVE Build.image = <<src, dirs[make.stim].stimulus>>
  <2>1. /\ make.id \in DOMAIN builds /\ Build.image # <<>>
        /\ make.id[1] = src /\ make.id[3] = dirs[make.stim].stimulus
    BY <1>1 DEF IInv, MakeInv, Made
  <2> QED BY <2>1 DEF IInv, BuildsNamed, Named, Build
<1>2. ASSUME pc = "spike", make.stim = "coverage-1"
      PROVE  \E v \in {"old", "new"} : dirs["coverage-1"] = Version(v)
  <2>1. /\ dirs["coverage-1"].stimulus = dirs["coverage-1"].manifest
        /\ dirs["coverage-1"].stimulus # "cut"
    BY <1>2 DEF IInv, MakeInv, Made, Copied
  <2>2. PICK g \in 0 .. 6 : dirs["coverage-1"] = After(g)
    BY DEF IInv, Directories
  <2>3. g = 6 \/ g = 0
    BY <2>1, <2>2 DEF After
  <2>4. After(6) = Version("old") /\ After(0) = Version("new")
    BY DEF After, Version
  <2> QED BY <2>2, <2>3, <2>4
<1>3. ASSUME pc = "manifest", ~IsSource PROVE Build.stimulus = dirs["tmp"].manifest
  BY <1>3 DEF IInv, MakeInv, Directories, Made, Copied
<1> QED BY <1>1, <1>2, <1>3 DEF RunsWhatItNames

(* What Spike runs is what its build directory and its stimulus directory  *)
(* are called, for any faults, runs and signals (the Makefile's CONFIG_ID, *)
(* and expect.py's check of the manifest before each run).                 *)
THEOREM NamesHonoured == Spec => []RunsWhatItNames
<1>1. Init => IInv
  BY InitInv
<1>2. IInv /\ [Next]_vars => IInv'
  BY NextInv
<1>3. IInv => RunsWhatItNames
  BY InvNames
<1> QED BY <1>1, <1>2, <1>3, PTL DEF Spec

-----------------------------------------------------------------------------
(* Every set of naturals that is not empty has a least element.            *)
LEMMA NatMin ==
  ASSUME NEW T \in SUBSET Nat, T # {}
  PROVE  \E x \in T : \A y \in T : x <= y
<1> DEFINE R == {ss \in Nat \X Nat : ss[1] < ss[2]}
<1>1. R = OpToRel(<, Nat)
  BY DEF OpToRel
<1>2. IsWellFoundedOn(R, Nat)
  BY <1>1, NatLessThanWellFounded, Zenon
<1>3. PICK x \in T : \A y \in T : <<y, x>> \notin R
  BY <1>2, WFMin
<1>4. \A y \in T : x <= y
  <2> SUFFICES ASSUME NEW y \in T PROVE x <= y
    OBVIOUS
  <2>1. <<y, x>> \notin R
    BY <1>3
  <2> QED BY <2>1
<1> QED BY <1>4

(* How many faults, or cuts, the sources s hold. *)
FaultsIn(s) == MapThenSumSet(LAMBDA f : Len(s[f]), Files)

Names   == {"cut"} \cup {SOURCE_FAULTS[k].name : k \in DOMAIN SOURCE_FAULTS}
Sources == [Files -> Seq(Names)]

Pick(t) == CHOOSE x \in t : TRUE

(* g holds the faults in every set of files, and in those of at most m.    *)
Sums(g, s) ==
  g = [t \in SUBSET Files |-> IF t = {} THEN 0 ELSE Len(s[Pick(t)]) + g[t \ {Pick(t)}]]
SumsUpTo(g, s, m) ==
  g = [t \in {t \in SUBSET Files : Cardinality(t) <= m} |->
         IF t = {} THEN 0 ELSE Len(s[Pick(t)]) + g[t \ {Pick(t)}]]

LEMMA FaultsInIs == ASSUME NEW s PROVE FaultsIn(s) = (CHOOSE g : Sums(g, s))[Files]
BY DEF FaultsIn, MapThenSumSet, MapThenFoldSet, Sums, Pick

LEMMA FilesFinite == IsFiniteSet(Files)
<1>1. Files = {SOURCE_FAULTS[k].file : k \in 1 .. Len(SOURCE_FAULTS)} /\ Len(SOURCE_FAULTS) \in Nat
  BY FaultsAssumption DEF Files
<1> DEFINE g == [k \in 1 .. Len(SOURCE_FAULTS) |-> SOURCE_FAULTS[k].file]
<1>2. g \in Surjection(1 .. Len(SOURCE_FAULTS), Files)
  BY <1>1 DEF Surjection
<1>3. IsFiniteSet(1 .. Len(SOURCE_FAULTS))
  <2>1. 1 \in Int /\ Len(SOURCE_FAULTS) \in Int
    BY <1>1
  <2> QED BY ONLY <2>1, FS_Interval
<1> QED BY <1>2, <1>3, FS_Surjection

LEMMA SubsetFinite ==
  ASSUME NEW t \in SUBSET Files
  PROVE  /\ IsFiniteSet(t) /\ Cardinality(t) \in Nat /\ Cardinality(t) <= Cardinality(Files)
         /\ t # {} => /\ Pick(t) \in t /\ t \ {Pick(t)} \in SUBSET Files
                      /\ Cardinality(t) # 0 /\ Cardinality(t \ {Pick(t)}) = Cardinality(t) - 1
<1>1. IsFiniteSet(t) /\ Cardinality(t) \in Nat /\ Cardinality(t) <= Cardinality(Files)
  BY FilesFinite, FS_Subset, FS_CardinalityType
<1>2. ASSUME t # {}
      PROVE  /\ Pick(t) \in t /\ t \ {Pick(t)} \in SUBSET Files
             /\ Cardinality(t) # 0 /\ Cardinality(t \ {Pick(t)}) = Cardinality(t) - 1
  <2>1. Pick(t) \in t
    BY <1>2 DEF Pick
  <2> QED BY <1>1, <1>2, <2>1, FS_RemoveElement, FS_EmptySet
<1> QED BY <1>1, <1>2

LEMMA SubsetSize ==
  \A t \in SUBSET Files :
    IsFiniteSet(t) /\ Cardinality(t) \in Nat /\ Cardinality(t) <= Cardinality(Files)
BY SubsetFinite

LEMMA SumsExist == ASSUME NEW s PROVE \E g : Sums(g, s)
<1> DEFINE Bad == {m \in Nat : ~ \E g : SumsUpTo(g, s, m)}
           D(m) == {t \in SUBSET Files : Cardinality(t) <= m}
<1>1. Bad = {}
  <2> SUFFICES ASSUME Bad # {} PROVE FALSE
    OBVIOUS
  <2>1. PICK m \in Bad : \A y \in Bad : m <= y
    <3>1. Bad \in SUBSET Nat
      OBVIOUS
    <3> HIDE DEF Bad
    <3> QED BY <3>1, NatMin
  <2>2. m \in Nat /\ ~ \E g : SumsUpTo(g, s, m)
    OBVIOUS
  <2>3. m # 0
    <3> SUFFICES ASSUME m = 0 PROVE FALSE
      OBVIOUS
    <3>1. \A t \in D(0) : t = {}
      <4> SUFFICES ASSUME NEW t \in SUBSET Files, Cardinality(t) <= 0 PROVE t = {}
        OBVIOUS
      <4>1. Cardinality(t) = 0 /\ IsFiniteSet(t)
        <5>1. Cardinality(t) \in Nat /\ IsFiniteSet(t)
          BY SubsetSize
        <5> QED BY <5>1
      <4> QED BY <4>1, FS_EmptySet
    <3> DEFINE g == [t \in D(0) |-> 0]
    <3>2. \A t \in D(0) : g[t] = IF t = {} THEN 0 ELSE Len(s[Pick(t)]) + g[t \ {Pick(t)}]
      BY <3>1
    <3>3. g = [t \in D(0) |-> g[t]]
      OBVIOUS
    <3>4. SumsUpTo(g, s, 0)
      <4> HIDE DEF g
      <4> QED BY <3>2, <3>3 DEF SumsUpTo
    <3> QED BY <2>2, <3>4
  <2>4. m - 1 \in Nat /\ ~(m <= m - 1)
    BY <2>2, <2>3
  <2>5. m - 1 \notin Bad
    <3> HIDE DEF Bad
    <3> QED BY <2>1, <2>4
  <2>6. PICK g : SumsUpTo(g, s, m - 1)
    BY <2>4, <2>5
  <2> DEFINE f == [t \in D(m) |-> IF t = {} THEN 0 ELSE Len(s[Pick(t)]) + g[t \ {Pick(t)}]]
  <2>7. \A t \in D(m - 1) : t \in D(m) /\ g[t] = IF t = {} THEN 0 ELSE Len(s[Pick(t)]) + g[t \ {Pick(t)}]
    <3> SUFFICES ASSUME NEW t \in D(m - 1)
                 PROVE  t \in D(m) /\ g[t] = IF t = {} THEN 0 ELSE Len(s[Pick(t)]) + g[t \ {Pick(t)}]
      OBVIOUS
    <3>1. Cardinality(t) <= m
      <4>1. Cardinality(t) \in Nat /\ Cardinality(t) <= m - 1
        BY SubsetSize
      <4> QED BY <4>1, <2>2
    <3> QED BY <2>6, <3>1 DEF SumsUpTo
  <2>8. \A t \in D(m - 1) : f[t] = g[t]
    BY <2>7
  <2>9. \A t \in D(m) : f[t] = IF t = {} THEN 0 ELSE Len(s[Pick(t)]) + f[t \ {Pick(t)}]
    <3> SUFFICES ASSUME NEW t \in D(m), t # {} PROVE f[t] = Len(s[Pick(t)]) + f[t \ {Pick(t)}]
      OBVIOUS
    <3>1. /\ Cardinality(t) \in Nat /\ t \ {Pick(t)} \in SUBSET Files
          /\ Cardinality(t \ {Pick(t)}) = Cardinality(t) - 1
      BY SubsetFinite
    <3>2. Cardinality(t \ {Pick(t)}) <= m - 1
      BY <2>2, <3>1
    <3>3. t \ {Pick(t)} \in D(m - 1)
      BY <3>1, <3>2
    <3>4. f[t] = Len(s[Pick(t)]) + g[t \ {Pick(t)}]
      OBVIOUS
    <3> HIDE DEF f, D
    <3> QED BY <2>8, <3>3, <3>4
  <2>10. f = [t \in D(m) |-> f[t]]
    OBVIOUS
  <2>11. SumsUpTo(f, s, m)
    <3> HIDE DEF f
    <3> QED BY <2>9, <2>10 DEF SumsUpTo
  <2> QED BY <2>2, <2>11
<1>2. Cardinality(Files) \in Nat
  BY FilesFinite, FS_CardinalityType
<1>3. PICK g : SumsUpTo(g, s, Cardinality(Files))
  BY <1>1, <1>2
<1>4. {t \in SUBSET Files : Cardinality(t) <= Cardinality(Files)} = SUBSET Files
  BY SubsetFinite
<1>5. Sums(g, s)
  BY <1>3, <1>4 DEF Sums, SumsUpTo
<1> QED BY <1>5

LEMMA SumsAt ==
  ASSUME NEW s, NEW g, Sums(g, s), NEW t \in SUBSET Files
  PROVE  g[t] = IF t = {} THEN 0 ELSE Len(s[Pick(t)]) + g[t \ {Pick(t)}]
BY DEF Sums

(* Two sources that differ in one file differ by its faults. *)
LEMMA FaultsExcept ==
  ASSUME NEW s \in Sources, NEW f \in Files, NEW v \in Seq(Names)
  PROVE  /\ FaultsIn(s) \in Nat /\ FaultsIn([s EXCEPT ![f] = v]) \in Nat
         /\ FaultsIn([s EXCEPT ![f] = v]) + Len(s[f]) = FaultsIn(s) + Len(v)
<1> DEFINE u == [s EXCEPT ![f] = v]
<1>1. PICK g : Sums(g, s) /\ FaultsIn(s) = g[Files]
  BY SumsExist, FaultsInIs
<1>2. PICK h : Sums(h, u) /\ FaultsIn(u) = h[Files]
  BY SumsExist, FaultsInIs
<1>3. /\ \A x \in Files : Len(s[x]) \in Nat /\ Len(u[x]) \in Nat /\ (x # f => u[x] = s[x])
      /\ u[f] = v /\ Len(v) \in Nat
  <2>1. \A x \in Files : s[x] \in Seq(Names) /\ u[x] \in Seq(Names) /\ (x # f => u[x] = s[x])
    BY DEF Sources
  <2>2. u[f] = v
    BY DEF Sources
  <2> QED BY <2>1, <2>2
<1> HIDE DEF u
<1> DEFINE Good(t) == /\ g[t] \in Nat /\ h[t] \in Nat
                      /\ f \in t => h[t] + Len(s[f]) = g[t] + Len(v)
                      /\ f \notin t => h[t] = g[t]
           Bad == {Cardinality(t) : t \in {t \in SUBSET Files : ~Good(t)}}
<1>4. Bad = {}
  <2> SUFFICES ASSUME Bad # {} PROVE FALSE
    OBVIOUS
  <2>1. Bad \in SUBSET Nat
    BY SubsetFinite
  <2>2. PICK m \in Bad : \A y \in Bad : m <= y
    <3> HIDE DEF Bad
    <3> QED BY <2>1, NatMin
  <2>3. PICK t \in SUBSET Files : ~Good(t) /\ m = Cardinality(t)
    OBVIOUS
  <2>4. /\ g[t] = IF t = {} THEN 0 ELSE Len(s[Pick(t)]) + g[t \ {Pick(t)}]
        /\ h[t] = IF t = {} THEN 0 ELSE Len(u[Pick(t)]) + h[t \ {Pick(t)}]
    <3>1. g[t] = IF t = {} THEN 0 ELSE Len(s[Pick(t)]) + g[t \ {Pick(t)}]
      BY <1>1 DEF Sums
    <3>2. h[t] = IF t = {} THEN 0 ELSE Len(u[Pick(t)]) + h[t \ {Pick(t)}]
      BY <1>2 DEF Sums
    <3> QED BY <3>1, <3>2
  <2>5. t # {}
    BY <2>3, <2>4
  <2>6. /\ Pick(t) \in t /\ t \ {Pick(t)} \in SUBSET Files /\ m \in Nat
        /\ Cardinality(t \ {Pick(t)}) = m - 1
    BY <2>3, <2>5, SubsetFinite
  <2>7. m - 1 \notin Bad
    <3>1. ~(m <= m - 1)
      BY <2>6
    <3> HIDE DEF Bad
    <3> QED BY <2>2, <3>1
  <2>8. Good(t \ {Pick(t)})
    BY <2>6, <2>7
  <2> DEFINE x == Pick(t)
             w == t \ {Pick(t)}
  <2>9. /\ g[t] = Len(s[x]) + g[w] /\ h[t] = Len(u[x]) + h[w]
        /\ g[w] \in Nat /\ h[w] \in Nat /\ Len(s[x]) \in Nat /\ Len(u[x]) \in Nat
    BY <2>4, <2>5, <2>6, <2>8, <1>3
  <2>10. CASE x = f
    <3>1. h[w] = g[w] /\ f \in t /\ u[x] = v
      BY <2>6, <2>8, <2>10, <1>3
    <3> HIDE DEF x, w
    <3>2. Good(t)
      BY <2>9, <2>10, <3>1
    <3> QED BY <2>3, <3>2
  <2>11. CASE x # f
    <3>1. /\ f \in t <=> f \in w
          /\ Len(u[x]) = Len(s[x])
          /\ f \in w => h[w] + Len(s[f]) = g[w] + Len(v)
          /\ f \notin w => h[w] = g[w]
      BY <2>6, <2>8, <2>11, <1>3
    <3>2. Len(s[f]) \in Nat
      BY <1>3
    <3> HIDE DEF x, w
    <3>3. g[t] \in Nat /\ h[t] \in Nat
      BY <2>9
    <3>4. f \notin t => h[t] = g[t]
      BY <2>9, <3>1
    <3>5. ASSUME f \in t PROVE h[t] + Len(s[f]) = g[t] + Len(v)
      <4> DEFINE a == Len(s[f])
                 b == Len(v)
                 d == Len(s[x])
      <4>1. h[w] + a = g[w] + b /\ g[t] = d + g[w] /\ h[t] = d + h[w]
        BY <2>9, <3>1, <3>5
      <4>2. a \in Nat /\ b \in Nat /\ d \in Nat /\ g[w] \in Nat /\ h[w] \in Nat
        BY <2>9, <3>2, <1>3
      <4> HIDE DEF a, b, d
      <4>3. \A i, j \in Nat : i + a = j + b => (d + i) + a = (d + j) + b
        BY <4>2
      <4>4. (d + h[w]) + a = (d + g[w]) + b
        BY <4>1, <4>2, <4>3
      <4>5. h[t] + a = g[t] + b
        BY <4>1, <4>4
      <4> QED BY <4>5 DEF a, b
    <3>6. Good(t)
      BY <3>3, <3>4, <3>5
    <3> QED BY <2>3, <3>6
  <2> QED BY <2>10, <2>11
<1>5. Good(Files)
  <2>1. Cardinality(Files) \notin Bad
    BY <1>4
  <2> QED BY <2>1
<1> QED BY <1>1, <1>2, <1>5 DEF u

LEMMA FaultsType == ASSUME NEW s \in Sources PROVE FaultsIn(s) \in Nat
<1>1. CASE Files = {}
  <2>1. PICK g : Sums(g, s) /\ FaultsIn(s) = g[Files]
    BY SumsExist, FaultsInIs
  <2>2. g[{}] = 0
    BY <2>1 DEF Sums
  <2> QED BY <1>1, <2>1, <2>2
<1>2. ASSUME NEW f \in Files PROVE FaultsIn(s) \in Nat
  <2>1. <<>> \in Seq(Names)
    OBVIOUS
  <2> QED BY <1>2, <2>1, FaultsExcept
<1> QED BY <1>1, <1>2

LEMMA NoFaults ==
  ASSUME NEW s \in Sources, \A f \in Files : s[f] = <<>>
  PROVE  FaultsIn(s) = 0
<1>1. PICK g : Sums(g, s) /\ FaultsIn(s) = g[Files]
  BY SumsExist, FaultsInIs
<1> DEFINE Bad == {Cardinality(t) : t \in {t \in SUBSET Files : g[t] # 0}}
<1>2. Bad = {}
  <2> SUFFICES ASSUME Bad # {} PROVE FALSE
    OBVIOUS
  <2>1. Bad \in SUBSET Nat
    BY SubsetFinite
  <2>2. PICK m \in Bad : \A y \in Bad : m <= y
    <3> HIDE DEF Bad
    <3> QED BY <2>1, NatMin
  <2>3. PICK t \in SUBSET Files : g[t] # 0 /\ m = Cardinality(t)
    OBVIOUS
  <2>4. g[t] = IF t = {} THEN 0 ELSE Len(s[Pick(t)]) + g[t \ {Pick(t)}]
    BY <1>1, SumsAt
  <2>5. t # {}
    BY <2>3, <2>4
  <2>6. /\ Pick(t) \in t /\ t \ {Pick(t)} \in SUBSET Files /\ m \in Nat
        /\ Cardinality(t \ {Pick(t)}) = m - 1
    BY <2>3, <2>5, SubsetFinite
  <2>7. m - 1 \notin Bad
    <3>1. ~(m <= m - 1)
      BY <2>6
    <3> HIDE DEF Bad
    <3> QED BY <2>2, <3>1
  <2>8. g[t \ {Pick(t)}] = 0
    BY <2>6, <2>7
  <2>9. Len(s[Pick(t)]) = 0
    BY <2>6
  <2> QED BY <2>3, <2>4, <2>5, <2>8, <2>9
<1>3. g[Files] = 0
  <2>1. Cardinality(Files) \notin Bad
    BY <1>2
  <2> QED BY <2>1
<1> QED BY <1>1, <1>3

-----------------------------------------------------------------------------
(* The signals that may have left a fault. *)
Places == {"idle", "case", "opened", "make", "copy", "compile", "second", "compare", "manifest",
           "spike", "hung", "ran", "restore", "restoring", "exit 0", "exit 1", "died"}
Signal == {"INT", "TERM"} \X Places \X BOOLEAN
LeftBy(s) == Cardinality({k \in DOMAIN s : Leaves(s[k])})

LEMMA SomeSignal == <<"INT", "case", TRUE>> \in Signal
<1>1. "case" \in Places
  BY DEF Places
<1>2. "INT" \in {"INT", "TERM"} /\ TRUE \in BOOLEAN
  OBVIOUS
<1> QED BY <1>1, <1>2 DEF Signal

LEMMA LeftGrows ==
  ASSUME NEW s \in Seq(Signal), NEW signal \in Signal
  PROVE  /\ LeftBy(s) \in Nat /\ LeftBy(Append(s, signal)) \in Nat
         /\ LeftBy(Append(s, signal)) = LeftBy(s) + (IF Leaves(signal) THEN 1 ELSE 0)
<1> DEFINE S(t) == {k \in DOMAIN t : Leaves(t[k])}
           m == Len(s) + 1
           t == Append(s, signal)
<1>1. /\ Len(s) \in Nat /\ DOMAIN s = 1 .. Len(s) /\ DOMAIN t = 1 .. m
      /\ t[m] = signal /\ \A k \in 1 .. Len(s) : t[k] = s[k]
  OBVIOUS
<1>2. IsFiniteSet(S(s)) /\ m \notin S(s)
  <2>1. IsFiniteSet(1 .. Len(s))
    <3>1. 1 \in Int /\ Len(s) \in Int
      BY <1>1
    <3> QED BY ONLY <3>1, FS_Interval
  <2>2. S(s) \subseteq 1 .. Len(s)
    BY <1>1
  <2>3. m \notin 1 .. Len(s)
    BY <1>1
  <2> QED BY <2>1, <2>2, <2>3, FS_Subset
<1>3. DOMAIN t = DOMAIN s \cup {m}
  BY <1>1
<1>4. S(t) = IF Leaves(signal) THEN S(s) \cup {m} ELSE S(s)
  <2> HIDE DEF t, m
  <2> QED BY <1>1, <1>3
<1>5. LeftBy(s) = Cardinality(S(s)) /\ LeftBy(t) = Cardinality(S(t))
  BY DEF LeftBy
<1> HIDE DEF S, t, m
<1>6. Cardinality(S(s)) \in Nat /\ Cardinality(S(s) \cup {m}) = Cardinality(S(s)) + 1
  BY <1>2, FS_AddElement, FS_CardinalityType
<1> QED BY <1>4, <1>5, <1>6 DEF t

-----------------------------------------------------------------------------
(* A fault is in its file, or the file is being written. *)
Held == (pc \in Building /\ IsSource) \/ pc \in Editing

SourceTypes ==
  /\ n \in Nat \ {0} /\ pc \in Places
  /\ src \in Sources /\ original \in Seq(Names) /\ signals \in Seq(Signal)

(* The case's file is cut or holds its fault, on top of what was read; the *)
(* sources with that put back hold no fault but those that signals left.   *)
Tried ==
  Held => /\ IsSource /\ src[Fault.file] \in {Cut, Append(original, Fault.name)}
          /\ pc \in Building => src[Fault.file] = Append(original, Fault.name)
          /\ FaultsIn([src EXCEPT ![Fault.file] = original]) <= LeftBy(signals)

Untouched == ~Held => FaultsIn(src) <= LeftBy(signals)

AloneInv == SourceTypes /\ Tried /\ Untouched

LEMMA FaultTypes ==
  ASSUME n \in Nat \ {0}, IsSource
  PROVE  Fault.file \in Files /\ Fault.name \in Names
<1>1. n \in DOMAIN SOURCE_FAULTS
  BY FaultsAssumption DEF IsSource
<1> QED BY <1>1 DEF Fault, Files, Names

LEMMA CutType == Cut \in Seq(Names) /\ Len(Cut) = 1
BY DEF Cut, Names

LEMMA HeldBound ==
  ASSUME AloneInv, Held
  PROVE  FaultsIn(src) <= LeftBy(signals) + 1 /\ FaultsIn(src) \in Nat /\ LeftBy(signals) \in Nat
<1>1. src \in Sources /\ original \in Seq(Names) /\ Fault.file \in Files /\ Fault.name \in Names
  BY FaultTypes DEF AloneInv, SourceTypes, Tried
<1> DEFINE o == FaultsIn([src EXCEPT ![Fault.file] = original])
           a == Len(src[Fault.file])
           b == Len(original)
           u == FaultsIn(src)
           left == LeftBy(signals)
<1>2. u \in Nat /\ o \in Nat /\ o + a = u + b
  BY <1>1, FaultsExcept
<1>3. a \in Nat /\ b \in Nat /\ a <= b + 1
  <2>1. Len(Append(original, Fault.name)) = b + 1 /\ b \in Nat
    BY <1>1
  <2>2. Len(Cut) = 1
    BY CutType
  <2>3. src[Fault.file] \in {Cut, Append(original, Fault.name)}
    BY DEF AloneInv, Tried
  <2>4. a = 1 \/ a = b + 1
    BY <2>1, <2>2, <2>3
  <2> HIDE DEF a, b
  <2> QED BY <2>1, <2>4
<1>4. left \in Nat
  <2>1. signals \in Seq(Signal)
    BY DEF AloneInv, SourceTypes
  <2> QED BY <2>1, SomeSignal, LeftGrows
<1>5. o <= left
  BY DEF AloneInv, Tried
<1> HIDE DEF o, a, b, u, left
<1>6. u <= left + 1
  BY <1>2, <1>3, <1>4, <1>5
<1> QED BY <1>2, <1>4, <1>6 DEF u, left

LEMMA LeftType == ASSUME AloneInv PROVE LeftBy(signals) \in Nat
<1>1. signals \in Seq(Signal)
  BY DEF AloneInv, SourceTypes
<1> QED BY <1>1, SomeSignal, LeftGrows

LEMMA AloneInit == Init => AloneInv
<1> SUFFICES ASSUME Init PROVE AloneInv
  OBVIOUS
<1>1. n = 1 /\ pc = "idle" /\ original = <<>> /\ signals = <<>>
  BY DEF Init
<1>2. src \in Sources /\ \A f \in Files : src[f] = <<>>
  BY DEF Init, Sources
<1>3. SourceTypes
  <2>1. n \in Nat \ {0} /\ original \in Seq(Names) /\ signals \in Seq(Signal)
    BY <1>1
  <2>2. pc \in Places
    BY <1>1 DEF Places
  <2> QED BY <1>2, <2>1, <2>2 DEF SourceTypes
<1>4. ~Held
  BY <1>1 DEF Held, Building, Editing
<1>5. FaultsIn(src) = 0
  BY <1>2, NoFaults
<1>6. LeftBy(signals) \in Nat
  <2>1. signals \in Seq(Signal)
    BY <1>1
  <2> QED BY <2>1, SomeSignal, LeftGrows
<1> QED BY <1>3, <1>4, <1>5, <1>6 DEF AloneInv, Tried, Untouched

(* A step that neither touches a file nor a signal, nor moves between a    *)
(* case's edit and the rest.                                               *)
LEMMA AloneQuiet ==
  ASSUME AloneInv, UNCHANGED <<src, signals>>, ~Held, ~Held',
         n' \in Nat \ {0}, pc' \in Places, original' \in Seq(Names)
  PROVE  AloneInv'
BY DEF AloneInv, SourceTypes, Tried, Untouched

LEMMA AloneMakes ==
  ASSUME AloneInv, UNCHANGED <<src, signals, n, original>>, pc \in Building, pc' \in Building
  PROVE  AloneInv'
<1>1. IsSource' = IsSource /\ Fault' = Fault
  BY DEF IsSource, Fault
<1>2. Held' = Held
  BY <1>1 DEF Held, Editing, Building
<1>3. pc' \in Places
  BY DEF Building, Places
<1>4. SourceTypes'
  BY <1>3 DEF AloneInv, SourceTypes
<1>5. Tried'
  BY <1>1, <1>2 DEF AloneInv, Tried
<1>6. Untouched'
  BY <1>2 DEF AloneInv, Untouched
<1> QED BY <1>4, <1>5, <1>6 DEF AloneInv

LEMMA AloneGenerate == ASSUME AloneInv, GenerateStep \/ KillGenerator PROVE AloneInv'
<1>1. UNCHANGED <<src, pc, n, original, signals>>
  BY DEF GenerateStep, KillGenerator, script
<1> QED BY <1>1 DEF AloneInv, SourceTypes, Tried, Untouched, Held, IsSource, Fault

LEMMA AloneOutside == ASSUME AloneInv, Start \/ WriteStimulus \/ Finish \/ Again PROVE AloneInv'
<1>1. UNCHANGED <<src, signals>> /\ n' \in Nat \ {0} /\ original' \in Seq(Names)
  <2>1. n \in Nat \ {0} /\ original \in Seq(Names)
    BY DEF AloneInv, SourceTypes
  <2>2. CASE Start \/ WriteStimulus \/ Finish
    BY <2>1, <2>2 DEF Start, WriteStimulus, Finish, world, script
  <2>3. CASE Again
    <3>1. UNCHANGED <<src, signals>> /\ n' = 1 /\ original' = <<>>
      BY <2>3 DEF Again, world
    <3> QED BY <3>1
  <2> QED BY <2>2, <2>3
<1>2. ~Held /\ ~Held' /\ pc' \in Places
  <2>1. CASE Start
    BY <2>1 DEF Start, Held, Building, Editing, Places
  <2>2. CASE WriteStimulus
    BY <2>2 DEF WriteStimulus, script, Held, Building, Editing, IsSource, Places
  <2>3. CASE Finish
    BY <2>3 DEF Finish, Held, Building, Editing, Places
  <2>4. CASE Again
    BY <2>4 DEF Again, Held, Building, Editing, Places
  <2> QED BY <2>1, <2>2, <2>3, <2>4
<1> QED BY <1>1, <1>2, AloneQuiet

LEMMA AloneOpen == ASSUME AloneInv, OpenSource PROVE AloneInv'
<1>1. pc = "case" /\ IsSource /\ UNCHANGED <<n, signals>> /\ IsSource' /\ Fault' = Fault
  BY DEF OpenSource, IsSource, Fault
<1>2. ~Held /\ FaultsIn(src) <= LeftBy(signals) /\ src \in Sources
  BY <1>1 DEF Held, Building, Editing, AloneInv, Untouched, SourceTypes
<1>3. CASE ~Applies
  <2>1. pc' = "died" /\ UNCHANGED <<src, original>>
    BY <1>3 DEF OpenSource
  <2>2. ~Held' /\ pc' \in Places
    BY <2>1 DEF Held, Building, Editing, Places
  <2>3. n \in Nat \ {0} /\ original \in Seq(Names)
    BY DEF AloneInv, SourceTypes
  <2> QED BY <1>1, <1>2, <2>1, <2>2, <2>3, AloneQuiet
<1>4. CASE Applies
  <2>1. /\ pc' = "opened" /\ original' = src[Fault.file]
        /\ src' = [src EXCEPT ![Fault.file] = Cut]
    BY <1>4 DEF OpenSource
  <2>2. Fault.file \in Files
    BY <1>1, FaultTypes DEF AloneInv, SourceTypes
  <2>3. original' \in Seq(Names) /\ src' \in Sources
    BY <1>2, <2>1, <2>2, CutType DEF Sources
  <2>4. src'[Fault.file] = Cut /\ [src' EXCEPT ![Fault.file] = original'] = src
    BY <1>2, <2>1, <2>2 DEF Sources
  <2>5. SourceTypes'
    BY <1>1, <2>1, <2>3 DEF AloneInv, SourceTypes, Places
  <2>6. Tried'
    BY <1>1, <1>2, <2>1, <2>4 DEF Tried, Building
  <2>7. Held'
    BY <2>1 DEF Held, Editing
  <2> QED BY <2>5, <2>6, <2>7 DEF AloneInv, Untouched
<1> QED BY <1>3, <1>4

(* What the file holds within its case changes nothing else. *)
LEMMA AloneWrites ==
  ASSUME AloneInv, Held, Held', UNCHANGED <<n, original, signals>>, pc' \in Places,
         NEW v \in {Cut, Append(original, Fault.name)}, src' = [src EXCEPT ![Fault.file] = v],
         pc' \in Building => v = Append(original, Fault.name)
  PROVE  AloneInv'
<1>1. IsSource /\ IsSource' /\ Fault' = Fault
  BY DEF AloneInv, Tried, IsSource, Fault
<1>2. src \in Sources /\ original \in Seq(Names) /\ Fault.file \in Files /\ Fault.name \in Names
  BY <1>1, FaultTypes DEF AloneInv, SourceTypes
<1>3. v \in Seq(Names)
  BY <1>2, CutType
<1>4. src' \in Sources /\ src'[Fault.file] = v
      /\ [src' EXCEPT ![Fault.file] = original] = [src EXCEPT ![Fault.file] = original]
  BY <1>2, <1>3 DEF Sources
<1>5. SourceTypes'
  BY <1>4 DEF AloneInv, SourceTypes
<1>6. Tried'
  BY <1>1, <1>4 DEF AloneInv, Tried
<1> QED BY <1>5, <1>6 DEF AloneInv, Untouched

LEMMA AloneEdits == ASSUME AloneInv, WriteFault \/ OpenRestore PROVE AloneInv'
<1>1. CASE WriteFault
  <2>1. pc = "opened" /\ pc' = "make" /\ UNCHANGED <<n, original, signals>>
        /\ src' = [src EXCEPT ![Fault.file] = Append(original, Fault.name)]
    BY <1>1 DEF WriteFault, script
  <2>2. Held
    BY <2>1 DEF Held, Editing
  <2>3. IsSource'
    BY <2>1, <2>2 DEF AloneInv, Tried, IsSource
  <2>4. Held'
    BY <2>1, <2>3 DEF Held, Building
  <2> QED BY <2>1, <2>2, <2>4, AloneWrites DEF Places
<1>2. CASE OpenRestore
  <2>1. pc = "restore" /\ pc' = "restoring" /\ UNCHANGED <<n, original, signals>>
        /\ src' = [src EXCEPT ![Fault.file] = Cut]
    BY <1>2 DEF OpenRestore, script
  <2>2. Held /\ Held' /\ pc' \notin Building
    BY <2>1 DEF Held, Editing, Building
  <2> QED BY <2>1, <2>2, AloneWrites DEF Places
<1> QED BY <1>1, <1>2

LEMMA AloneBuilds ==
  ASSUME AloneInv,
         BeginMake \/ Copy \/ Compile \/ CompileFails \/ SecondHashes \/ Compare
           \/ CheckManifest \/ Spike \/ Limit
  PROVE  AloneInv'
<1>1. CASE BeginMake \/ SecondHashes
  <2>1. PICK decoder, stim : Begin(decoder, stim)
    BY <1>1 DEF BeginMake, SecondHashes
  <2>2. UNCHANGED <<src, signals, n, original>> /\ pc' = "copy"
    BY <2>1 DEF Begin
  <2>3. pc \in {"make", "second"}
    BY <1>1 DEF BeginMake, SecondHashes
  <2> QED BY <2>2, <2>3, AloneMakes DEF Building
<1>2. CASE Copy \/ Compile \/ CompileFails
  <2>1. UNCHANGED <<src, signals, n, original>>
    BY <1>2 DEF Copy, Compile, CompileFails, script
  <2>2. pc \in {"copy", "compile"} /\ pc' \in {"compile", "manifest", "second", "compare", "ran"}
    BY <1>2 DEF Copy, Compile, CompileFails, AfterBuild, Ends
  <2> QED BY <2>1, <2>2, AloneMakes DEF Building
<1>3. CASE Compare \/ CheckManifest \/ Spike \/ Limit
  <2>1. UNCHANGED <<src, signals, n, original>>
    BY <1>3 DEF Compare, CheckManifest, Spike, Limit, world
  <2>2. pc \in {"compare", "manifest", "spike", "hung"} /\ pc' \in {"spike", "hung", "ran"}
    BY <1>3 DEF Compare, CheckManifest, Spike, Limit, AfterLimit, Ends
  <2> QED BY <2>1, <2>2, AloneMakes DEF Building
<1> QED BY <1>1, <1>2, <1>3

LEMMA AloneRan == ASSUME AloneInv, Ran PROVE AloneInv'
<1>1. pc = "ran" /\ UNCHANGED <<src, signals>>
  BY DEF Ran, world
<1>2. CASE IsSource
  <2>1. pc' = "restore" /\ UNCHANGED <<n, original>>
    BY <1>2 DEF Ran, Restores
  <2>2. Held /\ Held' /\ pc' \notin Building /\ IsSource' /\ Fault' = Fault
    BY <1>1, <1>2, <2>1 DEF Held, Editing, Building, IsSource, Fault
  <2>3. SourceTypes'
    BY <1>1, <2>1 DEF AloneInv, SourceTypes, Places
  <2>4. Tried'
    BY <1>1, <2>1, <2>2 DEF AloneInv, Tried
  <2> QED BY <2>2, <2>3, <2>4 DEF AloneInv, Untouched
<1>3. CASE ~IsSource
  <2>1. pc' = "case" /\ n' = n + 1 /\ original' = <<>>
    BY <1>3 DEF Ran, Restores, NextCase
  <2>2. ~Held /\ ~Held'
    BY <1>1, <1>3, <2>1 DEF Held, Editing, Building
  <2>3. n' \in Nat \ {0}
    BY <2>1 DEF AloneInv, SourceTypes
  <2>4. pc' \in Places /\ original' \in Seq(Names)
    BY <2>1 DEF Places
  <2> QED BY <1>1, <2>2, <2>3, <2>4, AloneQuiet
<1> QED BY <1>2, <1>3

LEMMA AloneRestores == ASSUME AloneInv, WriteOriginal PROVE AloneInv'
<1>1. pc = "restoring" /\ src' = [src EXCEPT ![Fault.file] = original] /\ UNCHANGED signals
  BY DEF WriteOriginal
<1>2. Held
  BY <1>1 DEF Held, Editing
<1>3. FaultsIn(src') <= LeftBy(signals') /\ IsSource
  BY <1>1, <1>2 DEF AloneInv, Tried
<1>4. src \in Sources /\ original \in Seq(Names) /\ Fault.file \in Files
  BY <1>3, FaultTypes DEF AloneInv, SourceTypes
<1>5. src' \in Sources
  BY <1>1, <1>4 DEF Sources
<1>6. pc' \in {"died", "case"} /\ n' \in Nat \ {0} /\ original' \in Seq(Names)
  <2>1. n \in Nat \ {0}
    BY DEF AloneInv, SourceTypes
  <2>2. CASE dying
    BY <1>4, <2>1, <2>2 DEF WriteOriginal
  <2>3. CASE ~dying
    BY <2>1, <2>3 DEF WriteOriginal, NextCase
  <2> QED BY <2>2, <2>3
<1>7. ~Held'
  BY <1>6 DEF Held, Editing, Building
<1>8. SourceTypes'
  BY <1>1, <1>5, <1>6 DEF AloneInv, SourceTypes, Places
<1> QED BY <1>3, <1>7, <1>8 DEF AloneInv, Tried, Untouched

(* A signal that ends the script inside an edit leaves one fault more.     *)
LEMMA AloneSignal == ASSUME AloneInv, SigInt \/ SigTerm PROVE AloneInv'
<1>1. PICK kind \in {"INT", "TERM"} :
        /\ signals' = Append(signals, <<kind, pc, IsSource>>)
        /\ pc' = IF kind = "INT" /\ InTry THEN "restore" ELSE "died"
  BY DEF SigInt, SigTerm
<1>2. UNCHANGED <<src, n, original>>
  BY DEF SigInt, SigTerm, world
<1> DEFINE signal == <<kind, pc, IsSource>>
<1>3. signals \in Seq(Signal) /\ signal \in Signal
  <2>1. signals \in Seq(Signal) /\ pc \in Places
    BY DEF AloneInv, SourceTypes
  <2>2. IsSource \in BOOLEAN
    BY DEF IsSource
  <2> QED BY <2>1, <2>2 DEF Signal
<1>4. /\ LeftBy(signals) \in Nat /\ LeftBy(signals') \in Nat
      /\ LeftBy(signals') = LeftBy(signals) + (IF Leaves(signal) THEN 1 ELSE 0)
  BY <1>1, <1>3, LeftGrows
<1>5. SourceTypes'
  <2>1. pc' \in Places
    BY <1>1 DEF Places
  <2>2. signals' \in Seq(Signal)
    BY <1>1, <1>3
  <2> QED BY <1>2, <2>1, <2>2 DEF AloneInv, SourceTypes
<1>6. IsSource' = IsSource /\ Fault' = Fault
  BY <1>2 DEF IsSource, Fault
<1>7. CASE kind = "INT" /\ InTry
  <2>1. pc' = "restore" /\ Held /\ Held' /\ pc' \notin Building
    BY <1>1, <1>7 DEF InTry, Held, Editing, Building
  <2>2. FaultsIn([src EXCEPT ![Fault.file] = original]) <= LeftBy(signals)
    BY <2>1 DEF AloneInv, Tried
  <2>3. FaultsIn([src EXCEPT ![Fault.file] = original]) \in Nat
    <3>1. src \in Sources /\ original \in Seq(Names) /\ Fault.file \in Files
      BY <2>1, FaultTypes DEF AloneInv, SourceTypes, Tried
    <3> QED BY <3>1, FaultsExcept
  <2>4. FaultsIn([src EXCEPT ![Fault.file] = original]) <= LeftBy(signals')
    BY <1>4, <2>2, <2>3
  <2>5. Tried'
    BY <1>2, <1>6, <2>1, <2>4 DEF AloneInv, Tried
  <2> QED BY <1>5, <2>1, <2>5 DEF AloneInv, Untouched
<1>8. CASE ~(kind = "INT" /\ InTry)
  <2>1. pc' = "died"
    BY <1>1, <1>8
  <2>2. ~Held'
    BY <2>1 DEF Held, Editing, Building
  <2>3. FaultsIn(src) <= LeftBy(signals')
    <3>1. CASE ~Held
      <4>1. FaultsIn(src) <= LeftBy(signals)
        BY <3>1 DEF AloneInv, Untouched
      <4>2. FaultsIn(src) \in Nat
        <5>1. src \in Sources
          BY DEF AloneInv, SourceTypes
        <5> QED BY <5>1, FaultsType
      <4> QED BY <1>4, <4>1, <4>2
    <3>2. CASE Held
      <4>1. IsSource
        BY <3>2 DEF AloneInv, Tried
      <4>2. Leaves(signal)
        BY <1>8, <3>2, <4>1 DEF Leaves, Held, InTry, Editing, Building
      <4> QED BY <1>4, <3>2, <4>2, HeldBound
    <3> QED BY <3>1, <3>2
  <2>4. Untouched' /\ Tried'
    BY <1>2, <2>2, <2>3 DEF Untouched, Tried
  <2> QED BY <1>5, <2>4 DEF AloneInv
<1> QED BY <1>7, <1>8

LEMMA AloneNext == AloneInv /\ [Next]_vars => AloneInv'
<1> SUFFICES ASSUME AloneInv, [Next]_vars PROVE AloneInv'
  OBVIOUS
<1>1. CASE UNCHANGED vars
  BY <1>1 DEF vars, world, script, AloneInv, SourceTypes, Tried, Untouched, Held, IsSource, Fault
<1>2. CASE GenerateStep \/ KillGenerator
  BY <1>2, AloneGenerate
<1>3. CASE Start \/ WriteStimulus \/ Finish \/ Again
  BY <1>3, AloneOutside
<1>4. CASE OpenSource
  BY <1>4, AloneOpen
<1>5. CASE WriteFault \/ OpenRestore
  BY <1>5, AloneEdits
<1>6. CASE BeginMake \/ Copy \/ Compile \/ CompileFails \/ SecondHashes \/ Compare
             \/ CheckManifest \/ Spike \/ Limit
  BY <1>6, AloneBuilds
<1>7. CASE Ran
  BY <1>7, AloneRan
<1>8. CASE WriteOriginal
  BY <1>8, AloneRestores
<1>9. CASE SigInt \/ SigTerm
  BY <1>9, AloneSignal
<1>10. CASE Done
  BY <1>1, <1>10 DEF Done
<1> QED BY <1>1, <1>2, <1>3, <1>4, <1>5, <1>6, <1>7, <1>8, <1>9, <1>10 DEF Next, Script

LEMMA InvAlone == AloneInv => FaultAlone
<1> SUFFICES ASSUME AloneInv PROVE FaultAlone
  OBVIOUS
<1>1. /\ Faults = FaultsIn(src)
      /\ Cardinality({k \in DOMAIN signals : Leaves(signals[k])}) = LeftBy(signals)
  BY DEF Faults, FaultsIn, LeftBy
<1>2. ASSUME pc \in Building, IsSource
      PROVE  Last(src[Fault.file]) = Fault.name /\ FaultsIn(src) <= LeftBy(signals) + 1
  <2>1. Held
    BY <1>2 DEF Held
  <2>2. src[Fault.file] = Append(original, Fault.name) /\ original \in Seq(Names)
    BY <1>2, <2>1 DEF AloneInv, Tried, SourceTypes
  <2> QED BY <2>1, <2>2, HeldBound DEF Last
<1>3. ASSUME pc \notin Editing, ~(pc \in Building /\ IsSource)
      PROVE  FaultsIn(src) <= LeftBy(signals)
  BY <1>3 DEF AloneInv, Untouched, Held
<1> QED BY <1>1, <1>2, <1>3 DEF FaultAlone

(* Each case's fault is in its file while it is built and run, and no      *)
(* other but those that a signal left, for any faults, any number of runs  *)
(* and of signals (source_fault's try and finally).                        *)
THEOREM FaultsAlone == Spec => []FaultAlone
<1> QED BY AloneInit, AloneNext, InvAlone, PTL DEF Spec
================================================================================
