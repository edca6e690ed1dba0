------------------------ MODULE PublicReplay_proofs ------------------------
(***************************************************************************)
(* Public runs: first, that they stay apart and what their steps keep on   *)
(* the disk; then what a run leaves behind and what is published of it;    *)
(* last, the compact form of their journals, of which the models of the    *)
(* runs take it that a file comes back whole or as its first frames.       *)
(***************************************************************************)
EXTENDS PublicReplay, CompactTranscript, Foundations, SequenceTheorems, TLAPS

-----------------------------------------------------------------------------
(***************************************************************************)
(* Proofs about the directories of public runs, for any number of          *)
(* processes, any scripts among the four and any assignment of directories *)
(* to them in which no run directory is an oracle directory.               *)
(*                                                                         *)
(* Two processes may both have found a run directory missing and both have *)
(* made it.  What keeps their files apart is the first file: the public    *)
(* setup is written with "wx" before any step of the script, so that only  *)
(* one of them gets past it.  The inductive invariant says that whoever is *)
(* at a step of its script wrote the setup of its run directory, and that  *)
(* so did whoever left a part of a file there.  An oracle directory has no *)
(* such file; there the argument is that a script writes just one file to  *)
(* it, and in one piece.                                                   *)
(***************************************************************************)

Setup == "public_setup.json"
OracleFile == "cleartext_oracle_inputs.json"
Contents == Seq(Parts)
RunDirs == {RunDir(p) : p \in Processes}
Before == {"check", "mkdir", "setup"}
Stepping == {"steps", "orphan"}
Statuses == Before \cup Stepping \cup {"failed", "done"}

\* What a file may hold.
GoodFile(d, f, content) ==
  content # None =>
    IF d \in RunDirs
    THEN \A i \in DOMAIN content : content[i] \in Processes => files[d][Setup] = <<content[i]>>
    ELSE f = OracleFile /\ \E p \in Processes : content = <<p>>

DiskInv ==
  /\ files \in [Directories -> [Names -> Contents \cup {None}]]
  /\ \A d \in Directories : \A f \in Names : GoodFile(d, f, files[d][f])

\* Where a process may be.
ProcessInv ==
  /\ job \in Jobs
  /\ status \in [Processes -> Statuses]
  /\ at \in [Processes -> Nat]
  /\ \A p \in Processes : status[p] \in Before => at[p] = 1
  /\ \A p \in Processes :
       status[p] \in Stepping =>
         /\ at[p] \in 1..Len(Script[job[p].kind])
         /\ files[RunDir(p)][Setup] = <<p>>

\* The inductive invariant.
IInv == ProcessInv /\ DiskInv

-----------------------------------------------------------------------------
(* The scripts                                                             *)

WritingOps == {"create", "new", "truncate", "magic", "append", "unlink"}
Ops == WritingOps \cup {"oracle", "mkdir", "empty", "complete", "hash", "manifest",
                       "deploy", "submit", "claim"}

\* A step of a script writes to no setup, and to an oracle directory one file only.
Steps ==
  {s \in [op : Ops, file : Names \cup (1..N) \cup {"", "oracle"}, child : BOOLEAN] :
     /\ s.op \in WritingOps => s.file \in Names \ {Setup}
     /\ s.op = "oracle" => s.file = OracleFile}

LEMMA FixedNamesAreNames ==
  /\ FixedNames \subseteq Names
  /\ \A k \in 1..Gates : ProgressFile[k] \in Names \ {Setup}
BY RunAssumption DEF Names, FixedNames, Setup

\* A step with a fixed name.
LEMMA FixedStep ==
  ASSUME NEW op \in Ops \ {"oracle"}, NEW name \in Names \ {Setup}
  PROVE  Step(op, name) \in Steps /\ ChildStep(op, name) \in Steps
BY DEF Step, ChildStep, Steps

\* A step without a file of a directory.
LEMMA OtherStep ==
  ASSUME NEW op \in {"deploy", "submit", "claim", "mkdir"},
         NEW name \in (1..N) \cup {"", "oracle"}
  PROVE  Step(op, name) \in Steps /\ ChildStep(op, name) \in Steps
BY DEF Step, ChildStep, Steps, Ops, WritingOps

LEMMA OracleStep == ChildStep("oracle", OracleFile) \in Steps
BY FixedNamesAreNames DEF ChildStep, Steps, Ops, WritingOps, OracleFile, FixedNames

\* A function on 1..n is a sequence.
LEMMA FunctionIsSeq ==
  ASSUME NEW S, NEW n \in Nat, NEW g \in [1..n -> S]
  PROVE  g \in Seq(S)
BY SeqDef

LEMMA TimesSteps ==
  ASSUME NEW n \in Nat, NEW s \in Steps
  PROVE  Times(n, s) \in Seq(Steps)
<1>1. Times(n, s) \in [1..n -> Steps]
  BY DEF Times
<1>. QED
  BY <1>1, FunctionIsSeq

\* A few steps in a row.
LEMMA TupleSteps ==
  ASSUME NEW a \in Steps, NEW b \in Steps, NEW c \in Steps, NEW d \in Steps
  PROVE  <<a, b, c>> \in Seq(Steps) /\ <<a, b, c, d>> \in Seq(Steps)
OBVIOUS

LEMMA BallotChildSteps == BallotChild \in Seq(Steps) /\ Len(BallotChild) = 4
<1>1. /\ ChildStep("mkdir", "oracle") \in Steps
      /\ ChildStep("create", "ballot_public_proofs.json") \in Steps
      /\ ChildStep("create", "ballot_public_context.json") \in Steps
  BY FixedStep, OtherStep, FixedNamesAreNames DEF FixedNames, Setup, Ops, WritingOps
<1>2. ChildStep("oracle", "cleartext_oracle_inputs.json") \in Steps
  BY OracleStep DEF OracleFile
<1>. QED
  BY <1>1, <1>2 DEF BallotChild

LEMMA TallySteps ==
  ASSUME NEW kind \in Kinds
  PROVE  Tally(kind) \in Seq(Steps)
<1>1. Gates \in Nat
  BY RunAssumption
<1>2. /\ Step("empty", Journal) \in Steps
      /\ Step("append", Journal) \in Steps
      /\ ChildStep("truncate", NativeRecords) \in Steps
      /\ ChildStep("append", NativeRecords) \in Steps
      /\ Step("unlink", NativeRecords) \in Steps
  BY FixedStep, FixedNamesAreNames DEF FixedNames, Setup, Journal, NativeRecords, Ops, WritingOps
<1>3. /\ Times(Gates, Step("append", Journal)) \in Seq(Steps)
      /\ Times(Gates, ChildStep("append", NativeRecords)) \in Seq(Steps)
  BY <1>1, <1>2, TimesSteps
<1>4. /\ <<Step("empty", Journal)>> \in Seq(Steps)
      /\ <<ChildStep("truncate", NativeRecords)>> \in Seq(Steps)
      /\ <<Step("unlink", NativeRecords)>> \in Seq(Steps)
  BY <1>2
<1>5. CASE kind \in {"sepolia", "local"}
  BY <1>3, <1>4, <1>5, ConcatProperties DEF Tally
<1>6. CASE kind = "reference"
  <2>. DEFINE g == [k \in 1..(2 * Gates) |->
                      IF k % 2 = 1 THEN Step("append", Journal)
                                   ELSE Step("create", ProgressFile[k \div 2])]
  <2>1. ASSUME NEW k \in 1..(2 * Gates), k % 2 # 1
        PROVE  Step("create", ProgressFile[k \div 2]) \in Steps
    <3>1. k \div 2 \in 1..Gates
      BY <1>1, <2>1
    <3>2. ProgressFile[k \div 2] \in Names \ {Setup}
      BY <3>1, FixedNamesAreNames
    <3>. QED
      BY <3>2, FixedStep DEF Ops, WritingOps
  <2>2. g \in [1..(2 * Gates) -> Steps]
    BY <1>2, <2>1
  <2>3. 2 * Gates \in Nat
    BY <1>1
  <2>4. g \in Seq(Steps)
    BY <2>2, <2>3, FunctionIsSeq
  <2>. QED
    BY <1>6, <2>4 DEF Tally
<1>7. CASE kind = "stream"
  <2>1. Tally(kind) =
          <<ChildStep("truncate", NativeRecords)>>
          \o Times(Gates, ChildStep("append", NativeRecords))
          \o <<Step("empty", Journal)>>
          \o Times(Gates, Step("append", Journal))
          \o <<Step("unlink", NativeRecords)>>
    BY <1>7 DEF Tally
  <2>. QED
    BY <2>1, <1>3, <1>4, ConcatProperties
<1>. QED
  BY <1>5, <1>6, <1>7 DEF Kinds

LEMMA ScriptSteps ==
  ASSUME NEW kind \in Kinds
  PROVE  Script[kind] \in Seq(Steps) /\ Len(Script[kind]) > 0
<1>1. /\ Step("create", "ballot_generation.log") \in Steps
      /\ Step("create", "verification_key.json") \in Steps
      /\ Step("create", "chain_snapshot.json") \in Steps
      /\ Step("create", "sealed_board.json") \in Steps
      /\ Step("create", "local_admission_board.json") \in Steps
      /\ Step("create", "final_release.json") \in Steps
      /\ Step("manifest", "manifest.json") \in Steps
      /\ Step("new", Journal) \in Steps
      /\ Step("hash", Journal) \in Steps
      /\ Step("complete", Journal) \in Steps
      /\ Step("new", Compact) \in Steps
      /\ Step("magic", Compact) \in Steps
      /\ Step("append", Compact) \in Steps
  BY FixedStep, FixedNamesAreNames DEF FixedNames, Setup, Journal, Compact, Ops, WritingOps
<1>2. Step("deploy", "") \in Steps /\ Step("claim", "") \in Steps
  BY OtherStep
<1>3. Publication \in Seq(Steps)
  BY <1>1, <1>2, TupleSteps DEF Publication
<1>4. [k \in 1..N |-> Step("submit", k)] \in Seq(Steps)
  <2>1. \A k \in 1..N : Step("submit", k) \in Steps
    BY OtherStep
  <2>. QED
    BY <2>1, FunctionIsSeq, RunAssumption
<1>5. Times(Gates, Step("append", Compact)) \in Seq(Steps)
  BY <1>1, TimesSteps, RunAssumption
<1>6. Tally(kind) \in Seq(Steps)
  BY TallySteps
<1>7. SepoliaScript(kind) \in Seq(Steps) /\ Len(SepoliaScript(kind)) > 0
  <2>. DEFINE a == << Step("create", "ballot_generation.log"),
                      Step("create", "verification_key.json"), Step("deploy", "") >>
              b == [k \in 1..N |-> Step("submit", k)]
              c == << Step("create", "chain_snapshot.json"),
                      Step("create", "sealed_board.json"), Step("new", Journal) >>
  <2>1. a \in Seq(Steps) /\ b \in Seq(Steps) /\ c \in Seq(Steps)
    BY <1>1, <1>2, <1>4, TupleSteps
  <2>2. SepoliaScript(kind) = BallotChild \o a \o b \o c \o Tally(kind) \o Publication
    BY DEF SepoliaScript
  <2>. HIDE DEF a, b, c
  <2>3. /\ BallotChild \o a \in Seq(Steps)
        /\ Len(BallotChild \o a) = Len(BallotChild) + Len(a)
    BY ONLY <2>1, BallotChildSteps, ConcatProperties
  <2>4. /\ BallotChild \o a \o b \in Seq(Steps)
        /\ Len(BallotChild \o a \o b) = Len(BallotChild) + Len(a) + Len(b)
    BY ONLY <2>1, <2>3, ConcatProperties
  <2>5. /\ BallotChild \o a \o b \o c \in Seq(Steps)
        /\ Len(BallotChild \o a \o b \o c) = Len(BallotChild) + Len(a) + Len(b) + Len(c)
    BY ONLY <2>1, <2>4, ConcatProperties
  <2>6. /\ BallotChild \o a \o b \o c \o Tally(kind) \in Seq(Steps)
        /\ Len(BallotChild \o a \o b \o c \o Tally(kind))
             = Len(BallotChild) + Len(a) + Len(b) + Len(c) + Len(Tally(kind))
    BY ONLY <1>6, <2>5, ConcatProperties
  <2>7. /\ SepoliaScript(kind) \in Seq(Steps)
        /\ Len(SepoliaScript(kind)) = Len(BallotChild) + Len(a) + Len(b) + Len(c)
                                        + Len(Tally(kind)) + Len(Publication)
    BY ONLY <1>3, <2>2, <2>6, ConcatProperties
  <2>. QED
    BY <1>3, <1>6, <2>1, <2>7, BallotChildSteps, LenProperties
<1>8. LocalScript(kind) \in Seq(Steps) /\ Len(LocalScript(kind)) > 0
  <2>. DEFINE a == << Step("create", "local_admission_board.json"), Step("new", Journal) >>
              b == << Step("create", "final_release.json"), Step("complete", Journal),
                      Step("hash", Journal), Step("new", Compact), Step("magic", Compact) >>
              c == << Step("manifest", "manifest.json") >>
  <2>1. a \in Seq(Steps) /\ b \in Seq(Steps) /\ c \in Seq(Steps)
    BY <1>1
  <2>2. LocalScript(kind) =
          BallotChild \o a \o Tally(kind) \o b \o Times(Gates, Step("append", Compact)) \o c
    BY DEF LocalScript
  <2>. DEFINE d == Times(Gates, Step("append", Compact))
  <2>. HIDE DEF a, b, c, d
  <2>3. d \in Seq(Steps) /\ LocalScript(kind) = BallotChild \o a \o Tally(kind) \o b \o d \o c
    BY <1>5, <2>2 DEF d
  <2>4. /\ BallotChild \o a \in Seq(Steps)
        /\ Len(BallotChild \o a) = Len(BallotChild) + Len(a)
    BY ONLY <2>1, BallotChildSteps, ConcatProperties
  <2>5. /\ BallotChild \o a \o Tally(kind) \in Seq(Steps)
        /\ Len(BallotChild \o a \o Tally(kind)) = Len(BallotChild) + Len(a) + Len(Tally(kind))
    BY ONLY <1>6, <2>4, ConcatProperties
  <2>6. /\ BallotChild \o a \o Tally(kind) \o b \in Seq(Steps)
        /\ Len(BallotChild \o a \o Tally(kind) \o b)
             = Len(BallotChild) + Len(a) + Len(Tally(kind)) + Len(b)
    BY ONLY <2>1, <2>5, ConcatProperties
  <2>7. /\ BallotChild \o a \o Tally(kind) \o b \o d \in Seq(Steps)
        /\ Len(BallotChild \o a \o Tally(kind) \o b \o d)
             = Len(BallotChild) + Len(a) + Len(Tally(kind)) + Len(b) + Len(d)
    BY ONLY <2>3, <2>6, ConcatProperties
  <2>8. /\ LocalScript(kind) \in Seq(Steps)
        /\ Len(LocalScript(kind))
             = Len(BallotChild) + Len(a) + Len(Tally(kind)) + Len(b) + Len(d) + Len(c)
    BY ONLY <2>1, <2>3, <2>7, ConcatProperties
  <2>. QED
    BY <1>6, <2>1, <2>3, <2>8, BallotChildSteps, LenProperties
<1>. QED
  BY <1>7, <1>8 DEF Script

\* The step a process is at.
LEMMA CurrentStep ==
  ASSUME IInv, NEW p \in Processes, NEW op, At(p, op)
  PROVE  /\ op \in WritingOps => File(p) \in Names \ {Setup}
         /\ op = "oracle" => File(p) = OracleFile
         /\ status[p] \in Stepping
         /\ files[RunDir(p)][Setup] = <<p>>
<1>1. job[p].kind \in Kinds
  BY RunAssumption DEF IInv, ProcessInv
<1>2. status[p] \in Stepping
  BY DEF At, Stepping
<1>3. at[p] \in 1..Len(Script[job[p].kind]) /\ files[RunDir(p)][Setup] = <<p>>
  BY <1>2 DEF IInv, ProcessInv
<1>4. Script[job[p].kind][at[p]] \in Steps
  BY <1>1, <1>3, ScriptSteps, ElementOfSeq
<1>. QED
  BY <1>2, <1>3, <1>4 DEF At, File, Steps

-----------------------------------------------------------------------------
(* The directories of a process                                            *)

LEMMA DirectoriesOf ==
  ASSUME job \in Jobs, NEW p \in Processes
  PROVE  /\ RunDir(p) \in RunDirs /\ RunDir(p) \in Directories
         /\ job[p].oracle \in Directories \ RunDirs
         /\ job[p].kind \in Kinds
<1>1. job \in [Processes -> [kind : Kinds, run : Directories, oracle : Directories]]
  BY RunAssumption
<1>2. \A q \in Processes : job[q].run # job[p].oracle
  BY RunAssumption
<1>. QED
  BY <1>1, <1>2 DEF RunDirs, RunDir

\* A file other than a setup is exchanged.
LEMMA PutKeepsDisk ==
  ASSUME DiskInv, NEW d \in Directories, NEW f \in Names \ {Setup},
         NEW content \in Contents \cup {None}, Put(d, f, content),
         GoodFile(d, f, content), job' = job
  PROVE  /\ DiskInv'
         /\ \A e \in Directories : files'[e][Setup] = files[e][Setup]
<1>1. files' = [files EXCEPT ![d][f] = content]
  BY DEF Put
<1>2. files' \in [Directories -> [Names -> Contents \cup {None}]]
  BY <1>1 DEF DiskInv
<1>3. \A e \in Directories : files'[e][Setup] = files[e][Setup]
  BY <1>1 DEF DiskInv
<1>4. RunDirs' = RunDirs
  BY DEF RunDirs, RunDir
<1>5. ASSUME NEW e \in Directories, NEW g \in Names
      PROVE  GoodFile(e, g, files[e][g])'
  <2>1. CASE e = d /\ g = f
    <3>1. files'[e][g] = content
      BY <1>1, <2>1 DEF DiskInv
    <3>. QED
      BY <3>1, <2>1, <1>3, <1>4 DEF GoodFile
  <2>2. CASE ~(e = d /\ g = f)
    <3>1. files'[e][g] = files[e][g]
      BY <1>1, <2>2 DEF DiskInv
    <3>2. GoodFile(e, g, files[e][g])
      BY DEF DiskInv
    <3>. QED
      BY <3>1, <3>2, <1>3, <1>4 DEF GoodFile
  <2>. QED
    BY <2>1, <2>2
<1>. QED
  BY <1>2, <1>3, <1>5 DEF DiskInv

\* Process p goes on to its next step, or ends; all setups stay.
LEMMA AdvanceKeepsProcesses ==
  ASSUME IInv, NEW p \in Processes, status[p] \in Stepping, Advance(p), job' = job,
         \A e \in Directories : files'[e][Setup] = files[e][Setup]
  PROVE  ProcessInv'
<1>. DEFINE next == at[p] + 1
            length == Len(Script[job[p].kind])
<1>1. job \in Jobs /\ status \in [Processes -> Statuses] /\ at \in [Processes -> Nat]
  BY DEF IInv, ProcessInv
<1>5. length \in Nat
  BY <1>1, DirectoriesOf, ScriptSteps, LenProperties
<1>2. at' = [at EXCEPT ![p] = next]
  BY DEF Advance
<1>. DEFINE outlives == status[p] = "orphan" /\ ~Script[job[p].kind][next].child
            end == CASE next > length -> "done"
                     [] next <= length /\ outlives -> "failed"
                     [] OTHER -> status[p]
<1>3. /\ status' = [status EXCEPT ![p] = end]
      /\ end \in {"done", "failed", status[p]}
      /\ next > length => end = "done"
  <2>1. status' = [status EXCEPT ![p] = end]
    BY Zenon DEF Advance
  <2>2. next \in Int
    BY <1>1
  <2>3. CASE next > length
    <3>1. end = "done"
      BY <2>3, <2>2, <1>5
    <3>. QED
      BY <2>1, <3>1
  <2>4. CASE next <= length
    <3>1. ~(next > length)
      BY <2>4, <2>2, <1>5
    <3>2. end \in {"failed", status[p]}
      BY <2>4, <3>1
    <3>. QED
      BY <2>1, <3>1, <3>2
  <2>. QED
    BY <2>2, <2>3, <2>4, <1>5
<1>. HIDE DEF end
<1>4. at' \in [Processes -> Nat] /\ status' \in [Processes -> Statuses]
  BY <1>1, <1>2, <1>3 DEF Statuses
<1>6. status'[p] \notin Before
  BY <1>1, <1>3 DEF Before, Stepping
<1>7. status'[p] \in Stepping => at'[p] \in 1..length
  BY <1>1, <1>2, <1>3, <1>5 DEF Stepping
<1>8. \A q \in Processes \ {p} : status'[q] = status[q] /\ at'[q] = at[q]
  BY <1>1, <1>2, <1>3
<1>9. files[RunDir(p)][Setup] = <<p>>
  BY DEF IInv, ProcessInv
<1>10. \A q \in Processes : RunDir(q) \in Directories /\ RunDir(q)' = RunDir(q)
  BY <1>1, DirectoriesOf DEF RunDir
<1>11. ASSUME NEW q \in Processes
       PROVE  /\ status'[q] \in Before => at'[q] = 1
              /\ status'[q] \in Stepping =>
                   /\ at'[q] \in 1..Len(Script[job[q].kind])
                   /\ files'[RunDir(q)][Setup] = <<q>>
  BY <1>6, <1>7, <1>8, <1>9, <1>10 DEF IInv, ProcessInv
<1>. QED
  BY <1>1, <1>4, <1>10, <1>11 DEF ProcessInv

\* A step that leaves the processes and the files alone, or stops a process.
LEMMA IdleStep ==
  ASSUME IInv, job' = job, at' = at, files' = files, status' \in [Processes -> Statuses],
         \A p \in Processes :
           \/ status'[p] = status[p]
           \/ status'[p] \notin Before \cup Stepping
           \/ status[p] \in Before /\ status'[p] \in Before
           \/ status[p] \in Stepping /\ status'[p] \in Stepping
  PROVE  IInv'
<1>1. RunDirs' = RunDirs
  BY DEF RunDirs, RunDir
<1>2. DiskInv'
  BY <1>1 DEF IInv, DiskInv, GoodFile
<1>3. \A p \in Processes : RunDir(p)' = RunDir(p)
  BY DEF RunDir
<1>4. ASSUME NEW p \in Processes
      PROVE  /\ status'[p] \in Before => at[p] = 1
             /\ status'[p] \in Stepping =>
                  /\ at[p] \in 1..Len(Script[job[p].kind])
                  /\ files[RunDir(p)][Setup] = <<p>>
  <2>1. (status'[p] \in Before => status[p] \in Before)
        /\ (status'[p] \in Stepping => status[p] \in Stepping)
    BY DEF Before, Stepping
  <2>. QED
    BY <2>1 DEF IInv, ProcessInv
<1>5. ProcessInv'
  BY <1>3, <1>4 DEF IInv, ProcessInv
<1>. QED
  BY <1>2, <1>5 DEF IInv

-----------------------------------------------------------------------------
(* The initial states and the steps                                        *)

LEMMA InitIInv == Init => IInv
<1>. SUFFICES ASSUME Init PROVE IInv
  OBVIOUS
<1>1. DiskInv
  BY DEF Init, RunInit, DiskInv, GoodFile
<1>2. ProcessInv
  BY DEF Init, RunInit, ProcessInv, Before, Stepping, Statuses, RunDir
<1>. QED
  BY <1>1, <1>2 DEF IInv

LEMMA WriteSetupIInv ==
  ASSUME IInv, NEW p \in Processes, WriteSetup(p)
  PROVE  IInv'
<1>. DEFINE d == RunDir(p)
<1>1. status[p] = "setup" /\ files[d][Setup] = None
  BY DEF WriteSetup, Absent, Setup
<1>2. files' = [files EXCEPT ![d][Setup] = <<p>>] /\ job' = job /\ at' = at
  BY DEF WriteSetup, Put, Setup
<1>3. status' = [status EXCEPT ![p] = "steps"]
  BY DEF WriteSetup
<1>4. files \in [Directories -> [Names -> Contents \cup {None}]]
  BY DEF IInv, DiskInv
<1>5. d \in Directories /\ d \in RunDirs
  BY DirectoriesOf DEF IInv, ProcessInv
<1>6. Setup \in Names /\ <<p>> \in Contents
  BY FixedNamesAreNames DEF FixedNames, Setup, Contents, Parts
<1>7. \A q \in Processes : <<q>> # None
  <2>1. \A q \in Processes : <<q>> \in Seq(Processes \cup {Magic})
    OBVIOUS
  <2>. QED
    BY <2>1, RunAssumption
<1>8. RunDirs' = RunDirs /\ \A q \in Processes : RunDir(q)' = RunDir(q)
  BY <1>2 DEF RunDirs, RunDir
<1>9. DiskInv'
  <2>1. files' \in [Directories -> [Names -> Contents \cup {None}]]
    BY <1>2, <1>4, <1>6
  <2>2. ASSUME NEW e \in Directories, NEW g \in Names
        PROVE  GoodFile(e, g, files[e][g])'
    <3>1. GoodFile(e, g, files[e][g])
      BY DEF IInv, DiskInv
    <3>2. CASE e # d
      <4>1. files'[e] = files[e]
        BY <3>2, <1>2, <1>4
      <4>. QED
        BY <4>1, <3>1, <1>8 DEF GoodFile
    <3>3. CASE e = d /\ g = Setup
      <4>1. files'[e][g] = <<p>> /\ files'[d][Setup] = <<p>>
        BY <3>3, <1>2, <1>4, <1>5, <1>6
      <4>. QED
        BY <4>1, <3>3, <1>5, <1>8 DEF GoodFile
    <3>4. CASE e = d /\ g # Setup
      <4>1. files'[e][g] = files[e][g]
        BY <3>4, <1>2, <1>4
      <4>2. files[e][g] # None => \A i \in DOMAIN files[e][g] : files[e][g][i] \notin Processes
        BY <3>1, <3>4, <1>1, <1>5, <1>7 DEF GoodFile
      <4>. QED
        BY <4>1, <4>2, <3>4, <1>5, <1>8 DEF GoodFile
    <3>. QED
      BY <3>2, <3>3, <3>4
  <2>. QED
    BY <2>1, <2>2 DEF DiskInv
<1>10. ProcessInv'
  <2>1. job \in Jobs /\ status \in [Processes -> Statuses] /\ at \in [Processes -> Nat]
    BY DEF IInv, ProcessInv
  <2>2. at[p] = 1
    BY <1>1 DEF IInv, ProcessInv, Before
  <2>3. Len(Script[job[p].kind]) \in Nat /\ Len(Script[job[p].kind]) > 0
    BY <2>1, DirectoriesOf, ScriptSteps, LenProperties
  <2>4. files'[d][Setup] = <<p>>
    BY <1>2, <1>4, <1>5, <1>6
  <2>5. ASSUME NEW q \in Processes \ {p}, status[q] \in Stepping
        PROVE  files'[RunDir(q)][Setup] = <<q>>
    <3>1. files[RunDir(q)][Setup] = <<q>>
      BY <2>5 DEF IInv, ProcessInv
    <3>2. RunDir(q) # d /\ RunDir(q) \in Directories
      BY <3>1, <2>1, <1>1, <1>7, DirectoriesOf
    <3>. QED
      BY <3>1, <3>2, <1>2, <1>4
  <2>6. status'[p] = "steps" /\ \A q \in Processes \ {p} : status'[q] = status[q]
    BY <1>3, <2>1
  <2>7. status' \in [Processes -> Statuses]
    BY <1>3, <2>1 DEF Statuses, Stepping
  <2>8. \A q \in Processes : status'[q] \in Before => at[q] = 1
    BY <2>6 DEF IInv, ProcessInv, Before
  <2>9. ASSUME NEW q \in Processes, status'[q] \in Stepping
        PROVE  at[q] \in 1..Len(Script[job[q].kind]) /\ files'[RunDir(q)][Setup] = <<q>>
    <3>1. CASE q = p
      BY <3>1, <2>2, <2>3, <2>4
    <3>2. CASE q # p
      BY <3>2, <2>5, <2>6, <2>9 DEF IInv, ProcessInv
    <3>. QED
      BY <3>1, <3>2
  <2>. QED
    BY <1>2, <1>8, <2>1, <2>7, <2>8, <2>9 DEF ProcessInv
<1>. QED
  BY <1>9, <1>10 DEF IInv

LEMMA WriteFileIInv ==
  ASSUME IInv, NEW p \in Processes, WriteFile(p)
  PROVE  IInv'
<1>1. PICK op \in {"create", "oracle", "new", "truncate", "magic", "append", "unlink"} :
        LET d == IF op = "oracle" THEN job[p].oracle ELSE RunDir(p)
        IN /\ At(p, op)
           /\ op \in {"create", "oracle", "new"} => Absent(d, File(p))
           /\ op \in {"magic", "append", "unlink"} => files[d][File(p)] # None
           /\ Put(d, File(p), Written(p, op, files[d][File(p)]))
           /\ Advance(p)
           /\ UNCHANGED <<contractVars, job, tx, transcript, dirs, manifest>>
  BY DEF WriteFile
<1>. DEFINE d == IF op = "oracle" THEN job[p].oracle ELSE RunDir(p)
            old == files[d][File(p)]
            content == Written(p, op, old)
<1>2. /\ At(p, op) /\ Advance(p) /\ job' = job
      /\ Put(d, File(p), content)
      /\ op \in {"magic", "append", "unlink"} => old # None
  BY <1>1
<1>3. /\ d \in Directories
      /\ d \in RunDirs <=> op # "oracle"
      /\ op # "oracle" => d = RunDir(p)
  BY DirectoriesOf DEF IInv, ProcessInv
<1>4. status[p] \in Stepping /\ files[RunDir(p)][Setup] = <<p>>
  BY <1>2, CurrentStep
<1>5. File(p) \in Names \ {Setup} /\ (op = "oracle" => File(p) = OracleFile)
  BY <1>2, CurrentStep, FixedNamesAreNames DEF WritingOps, OracleFile, Setup, FixedNames
<1>6. old \in Contents \cup {None} /\ GoodFile(d, File(p), old)
  BY <1>3, <1>5 DEF IInv, DiskInv
<1>7. content \in Contents \cup {None} /\ GoodFile(d, File(p), content)
  <2>. HIDE DEF d, old
  <2>1. p \in Parts /\ Magic \in Parts
    BY DEF Parts
  <2>2. CASE op \in {"create", "oracle"}
    <3>1. content = <<p>>
      BY <2>2 DEF Written
    <3>. HIDE DEF content
    <3>. QED
      BY <3>1, <2>1, <1>3, <1>4, <1>5 DEF GoodFile, Contents
  <2>3. CASE op \in {"new", "truncate"}
    <3>1. content = <<>>
      BY <2>3 DEF Written
    <3>. HIDE DEF content
    <3>. QED
      BY <3>1, <2>3, <1>3 DEF GoodFile, Contents
  <2>4. ASSUME NEW part \in Parts, part \in Processes => part = p,
               content = Append(old, part), op \in {"magic", "append"}
        PROVE  content \in Contents \cup {None} /\ GoodFile(d, File(p), content)
    <3>. HIDE DEF content
    <3>1. old \in Seq(Parts) /\ d \in RunDirs /\ d = RunDir(p) /\ old # None
      BY <2>4, <1>2, <1>3, <1>6 DEF Contents
    <3>2. \A i \in DOMAIN old : old[i] \in Processes => files[d][Setup] = <<old[i]>>
      BY <3>1, <1>6 DEF GoodFile
    <3>3. content \in Seq(Parts)
      BY <3>1, <2>4
    <3>4. \A i \in DOMAIN content :
            (i \in DOMAIN old /\ content[i] = old[i]) \/ content[i] = part
      BY <3>1, <2>4
    <3>5. \A i \in DOMAIN content : content[i] \in Processes => files[d][Setup] = <<content[i]>>
      BY <3>1, <3>2, <3>4, <2>4, <1>4
    <3>. QED
      BY <3>1, <3>3, <3>5 DEF GoodFile, Contents
  <2>5. CASE op = "magic"
    <3>1. content = Append(old, Magic)
      BY <2>5 DEF Written
    <3>. HIDE DEF content
    <3>. QED
      BY <3>1, <2>1, <2>4, <2>5, RunAssumption
  <2>6. CASE op = "append"
    <3>1. content = Append(old, p)
      BY <2>6 DEF Written
    <3>. HIDE DEF content
    <3>. QED
      BY <3>1, <2>1, <2>4, <2>6
  <2>7. CASE op = "unlink"
    BY <2>7 DEF Written, GoodFile
  <2>. QED
    BY <2>2, <2>3, <2>5, <2>6, <2>7
<1>. HIDE DEF d, content
<1>8. DiskInv' /\ \A e \in Directories : files'[e][Setup] = files[e][Setup]
  BY <1>2, <1>3, <1>5, <1>7, PutKeepsDisk DEF IInv
<1>9. ProcessInv'
  BY <1>2, <1>4, <1>8, AdvanceKeepsProcesses
<1>. QED
  BY <1>8, <1>9 DEF IInv

\* A script goes on without touching a file.
LEMMA QuietStepIInv ==
  ASSUME IInv, NEW p \in Processes, NEW op, At(p, op), Advance(p),
         job' = job, files' = files
  PROVE  IInv'
<1>1. status[p] \in Stepping
  BY CurrentStep
<1>2. ProcessInv'
  BY <1>1, AdvanceKeepsProcesses
<1>3. RunDirs' = RunDirs
  BY DEF RunDirs, RunDir
<1>4. DiskInv'
  BY <1>3 DEF IInv, DiskInv, GoodFile
<1>. QED
  BY <1>2, <1>4 DEF IInv

LEMMA WriteManifestIInv ==
  ASSUME IInv, NEW p \in Processes, WriteManifest(p)
  PROVE  IInv'
<1>. DEFINE d == RunDir(p)
<1>1. status[p] \in Stepping /\ files[d][Setup] = <<p>>
  BY CurrentStep DEF WriteManifest
<1>2. Put(d, "manifest.json", <<p>>) /\ Advance(p) /\ job' = job
  BY DEF WriteManifest
<1>3. "manifest.json" \in Names \ {Setup}
  BY FixedNamesAreNames DEF FixedNames, Setup
<1>4. d \in Directories /\ d \in RunDirs
  BY DirectoriesOf DEF IInv, ProcessInv
<1>5. <<p>> \in Contents /\ GoodFile(d, "manifest.json", <<p>>)
  BY <1>1, <1>4 DEF GoodFile, Contents, Parts
<1>. HIDE DEF d
<1>6. DiskInv' /\ \A e \in Directories : files'[e][Setup] = files[e][Setup]
  BY <1>2, <1>3, <1>4, <1>5, PutKeepsDisk DEF IInv
<1>7. ProcessInv'
  BY <1>1, <1>2, <1>6, AdvanceKeepsProcesses
<1>. QED
  BY <1>6, <1>7 DEF IInv

LEMMA BallotChildFailsIInv ==
  ASSUME IInv, NEW p \in Processes, BallotChildFails(p)
  PROVE  IInv'
<1>. DEFINE d == RunDir(p)
<1>1. status[p] = "steps" /\ job' = job /\ at' = at
  BY DEF BallotChildFails
<1>2. status' = [status EXCEPT ![p] = "failed"]
  BY DEF BallotChildFails
<1>3. files[d][Setup] = <<p>>
  BY <1>1 DEF IInv, ProcessInv, Stepping
<1>4. CASE OnChain(p)
  <2>1. Put(d, "ballot_generation.log", <<p>>)
    BY <1>4 DEF BallotChildFails
  <2>2. "ballot_generation.log" \in Names \ {Setup}
    BY FixedNamesAreNames DEF FixedNames, Setup
  <2>3. d \in Directories /\ d \in RunDirs
    BY DirectoriesOf DEF IInv, ProcessInv
  <2>4. <<p>> \in Contents /\ GoodFile(d, "ballot_generation.log", <<p>>)
    BY <1>3, <2>3 DEF GoodFile, Contents, Parts
  <2>. HIDE DEF d
  <2>5. DiskInv' /\ \A e \in Directories : files'[e][Setup] = files[e][Setup]
    BY <1>1, <2>1, <2>2, <2>3, <2>4, PutKeepsDisk DEF IInv
  <2>6. ProcessInv'
    <3>1. job \in Jobs /\ status \in [Processes -> Statuses]
      BY DEF IInv, ProcessInv
    <3>2. \A q \in Processes : RunDir(q) \in Directories /\ RunDir(q)' = RunDir(q)
      BY <1>1, <3>1, DirectoriesOf DEF RunDir
    <3>3. status' \in [Processes -> Statuses]
      BY <1>2, <3>1 DEF Statuses
    <3>4. \A q \in Processes : status'[q] = status[q] \/ status'[q] = "failed"
      BY <1>2, <3>1
    <3>5. \A q \in Processes :
            /\ status'[q] \in Before => status[q] \in Before
            /\ status'[q] \in Stepping => status[q] \in Stepping
      BY <3>4 DEF Before, Stepping
    <3>. QED
      BY <1>1, <2>5, <3>2, <3>3, <3>5 DEF IInv, ProcessInv
  <2>. QED
    BY <2>5, <2>6 DEF IInv
<1>5. CASE ~OnChain(p)
  <2>1. files' = files
    BY <1>5 DEF BallotChildFails
  <2>2. status' \in [Processes -> Statuses]
    BY <1>2 DEF IInv, ProcessInv, Statuses
  <2>3. \A q \in Processes : status'[q] = status[q] \/ status'[q] \notin Before \cup Stepping
    BY <1>2 DEF IInv, ProcessInv, Before, Stepping
  <2>. QED
    BY <1>1, <2>1, <2>2, <2>3, IdleStep
<1>. QED
  BY <1>4, <1>5

LEMMA ProcessStepIInv ==
  ASSUME IInv, NEW p \in Processes, ProcessStep(p)
  PROVE  IInv'
<1>. DEFINE Moves(s) == status' = [status EXCEPT ![p] = s] /\ UNCHANGED <<job, at, files>>
<1>1. status \in [Processes -> Statuses]
  BY DEF IInv, ProcessInv
<1>2. ASSUME NEW s \in Statuses, Moves(s),
             \/ s \notin Before \cup Stepping
             \/ status[p] \in Before /\ s \in Before
             \/ status[p] \in Stepping /\ s \in Stepping
      PROVE  IInv'
  BY <1>1, <1>2, IdleStep
<1>3. CASE Check(p)
  <2>1. status[p] \in Before /\ Moves("mkdir")
    BY <1>3 DEF Check, Before, diskVars
  <2>. HIDE DEF Moves
  <2>. QED
    BY <2>1, <1>2 DEF Before, Statuses
<1>4. CASE MakeRunDirectory(p)
  <2>1. status[p] \in Before /\ Moves("setup")
    BY <1>4 DEF MakeRunDirectory, Before
  <2>. HIDE DEF Moves
  <2>. QED
    BY <2>1, <1>2 DEF Before, Statuses
<1>5. CASE WriteSetup(p)
  BY <1>5, WriteSetupIInv
<1>6. CASE MakeOracleDirectory(p)
  BY <1>6, QuietStepIInv DEF MakeOracleDirectory
<1>7. CASE WriteFile(p)
  BY <1>7, WriteFileIInv
<1>8. CASE ReadJournal(p)
  BY <1>8, QuietStepIInv DEF ReadJournal, diskVars
<1>9. CASE HashTranscript(p)
  BY <1>9, QuietStepIInv DEF HashTranscript, diskVars
<1>10. CASE Send(p)
  <2>1. UNCHANGED <<job, status, at, files>>
    BY <1>10 DEF Send, diskVars
  <2>. QED
    BY <2>1, <1>1, IdleStep
<1>11. CASE Receive(p)
  BY <1>11, QuietStepIInv DEF Receive, diskVars
<1>12. CASE WriteManifest(p)
  BY <1>12, WriteManifestIInv
<1>13. CASE Stop(p)
  <2>1. UNCHANGED <<job, at, files>>
    BY <1>13 DEF Stop, diskVars
  <2>2. \/ status' = [status EXCEPT ![p] = "failed"]
        \/ status[p] = "steps" /\ status' = [status EXCEPT ![p] = "orphan"]
    BY <1>13 DEF Stop
  <2>. QED
    BY <2>1, <2>2, <1>2 DEF Before, Stepping, Statuses
<1>14. CASE BallotChildFails(p)
  BY <1>14, BallotChildFailsIInv
<1>. QED
  BY <1>3, <1>4, <1>5, <1>6, <1>7, <1>8, <1>9, <1>10, <1>11, <1>12, <1>13, <1>14
  DEF ProcessStep

\* The author of a run packs a journal; its parts are those of the journal.
LEMMA PackByHandIInv ==
  ASSUME IInv, NEW d \in Directories, PackByHand(d)
  PROVE  IInv'
<1>. DEFINE lines == files[d][Journal]
<1>1. lines # None /\ UNCHANGED <<job, status, at>>
  BY DEF PackByHand, processVars
<1>2. PICK n \in 0..Len(lines) : Put(d, Compact, <<Magic>> \o SubSeq(lines, 1, n))
  BY DEF PackByHand
<1>. DEFINE content == <<Magic>> \o SubSeq(lines, 1, n)
<1>3. /\ Journal \in Names \ {Setup, OracleFile}
      /\ Compact \in Names \ {Setup}
      /\ Setup \in Names
  BY FixedNamesAreNames DEF FixedNames, Setup, OracleFile, Journal, Compact
<1>4. lines \in Seq(Parts) /\ GoodFile(d, Journal, lines)
  BY <1>1, <1>3 DEF IInv, DiskInv, Contents
<1>5. d \in RunDirs /\ \A i \in DOMAIN lines :
        lines[i] \in Processes => files[d][Setup] = <<lines[i]>>
  BY <1>1, <1>3, <1>4 DEF GoodFile
<1>6. content \in Contents /\ GoodFile(d, Compact, content)
  <2>. HIDE DEF lines
  <2>1. Magic \in Parts
    BY DEF Parts
  <2>2. SubSeq(lines, 1, n) \in Seq(Parts)
    BY <1>4
  <2>3. content \in Seq(Parts)
    BY <2>1, <2>2
  <2>4. \A i \in DOMAIN content :
          content[i] = Magic \/ \E j \in DOMAIN lines : content[i] = lines[j]
    BY <1>4, <2>1, <2>2
  <2>. HIDE DEF content
  <2>5. \A i \in DOMAIN content : content[i] \in Processes => files[d][Setup] = <<content[i]>>
    BY <2>4, <1>5, RunAssumption
  <2>. QED
    BY <2>3, <2>5, <1>5 DEF GoodFile, Contents
<1>. HIDE DEF content
<1>7. DiskInv' /\ \A e \in Directories : files'[e][Setup] = files[e][Setup]
  BY <1>1, <1>2, <1>3, <1>6, PutKeepsDisk DEF IInv, content
<1>8. \A q \in Processes : RunDir(q) \in Directories /\ RunDir(q)' = RunDir(q)
  BY <1>1, DirectoriesOf DEF IInv, ProcessInv, RunDir
<1>9. ProcessInv'
  BY <1>1, <1>7, <1>8 DEF IInv, ProcessInv
<1>. QED
  BY <1>7, <1>9 DEF IInv

LEMMA DropJournalIInv ==
  ASSUME IInv, NEW d \in Directories, DropJournal(d)
  PROVE  IInv'
<1>1. Put(d, Journal, None) /\ UNCHANGED <<job, status, at>>
  BY DEF DropJournal, processVars
<1>2. Journal \in Names \ {Setup} /\ GoodFile(d, Journal, None)
  BY FixedNamesAreNames DEF FixedNames, Setup, Journal, GoodFile
<1>3. DiskInv' /\ \A e \in Directories : files'[e][Setup] = files[e][Setup]
  BY <1>1, <1>2, PutKeepsDisk DEF IInv
<1>4. \A q \in Processes : RunDir(q) \in Directories /\ RunDir(q)' = RunDir(q)
  BY <1>1, DirectoriesOf DEF IInv, ProcessInv, RunDir
<1>5. ProcessInv'
  BY <1>1, <1>3, <1>4 DEF IInv, ProcessInv
<1>. QED
  BY <1>3, <1>5 DEF IInv

LEMMA NextIInv == IInv /\ [Next]_vars => IInv'
<1>. SUFFICES ASSUME IInv, [Next]_vars PROVE IInv'
  OBVIOUS
<1>1. ASSUME UNCHANGED <<job, status, at, files>> PROVE IInv'
  <2>1. status' \in [Processes -> Statuses]
    BY <1>1 DEF IInv, ProcessInv
  <2>. QED
    BY <1>1, <2>1, IdleStep
<1>2. ASSUME NEW p \in Processes, ProcessStep(p) PROVE IInv'
  BY <1>2, ProcessStepIInv
<1>3. ASSUME NEW p \in Processes, Mine(p) \/ Revert(p) \/ Abandon(p) PROVE IInv'
  BY <1>1, <1>3 DEF Mine, Revert, Abandon, processVars, diskVars
<1>4. CASE BlockTime
  BY <1>1, <1>4 DEF BlockTime, processVars, diskVars
<1>5. ASSUME NEW d \in Directories, Replay(d) \/ Compare(d) PROVE IInv'
  BY <1>1, <1>5 DEF Replay, Compare, runVars, processVars, diskVars
<1>6. ASSUME NEW d \in Directories, PackByHand(d) PROVE IInv'
  BY <1>6, PackByHandIInv
<1>7. ASSUME NEW d \in Directories, DropJournal(d) PROVE IInv'
  BY <1>7, DropJournalIInv
<1>8. CASE UNCHANGED vars
  BY <1>1, <1>8 DEF vars, runVars, processVars, diskVars
<1>. QED
  BY <1>2, <1>3, <1>4, <1>5, <1>6, <1>7, <1>8 DEF Next, RunNext

\* The invariant keeps the files of two processes apart.
LEMMA IInvSeparates == IInv => OneRunPerDirectory
<1>. SUFFICES ASSUME IInv, NEW d \in Directories, NEW p \in Writers(d), NEW q \in Writers(d)
              PROVE  p = q
  BY DEF OneRunPerDirectory
<1>1. ASSUME NEW x \in Writers(d)
      PROVE  \E f \in Names : /\ files[d][f] # None
                              /\ \E i \in DOMAIN files[d][f] : files[d][f][i] = x
                              /\ x \in Processes
  <2>1. PICK f \in Names : files[d][f] # None /\ x \in WritersOf(files[d][f])
    BY DEF Writers
  <2>2. PICK i \in DOMAIN files[d][f] : files[d][f][i] = x /\ x # Magic
    BY <2>1 DEF WritersOf
  <2>3. files[d][f] \in Seq(Parts)
    BY <2>1 DEF IInv, DiskInv, Contents
  <2>4. x \in Parts
    BY <2>2, <2>3
  <2>. QED
    BY <2>1, <2>2, <2>4 DEF Parts
<1>2. CASE d \in RunDirs
  <2>1. \A x \in Writers(d) : files[d][Setup] = <<x>>
    BY <1>1, <1>2 DEF IInv, DiskInv, GoodFile
  <2>2. <<p>> = <<q>>
    BY <2>1
  <2>. QED
    BY <2>2
<1>3. CASE d \notin RunDirs
  <2>1. ASSUME NEW x \in Writers(d)
        PROVE  files[d][OracleFile] = <<x>>
    <3>1. PICK f \in Names : /\ files[d][f] # None
                             /\ \E i \in DOMAIN files[d][f] : files[d][f][i] = x
      BY <1>1
    <3>2. GoodFile(d, f, files[d][f])
      BY DEF IInv, DiskInv
    <3>3. PICK y \in Processes : f = OracleFile /\ files[d][f] = <<y>>
      BY <3>1, <3>2, <1>3 DEF GoodFile
    <3>4. y = x
      BY <3>1, <3>3
    <3>. QED
      BY <3>3, <3>4
  <2>2. <<p>> = <<q>>
    BY <2>1
  <2>. QED
    BY <2>2
<1>. QED
  BY <1>2, <1>3

-----------------------------------------------------------------------------
\* However many processes share directories and wherever each of them is stopped,
\* no directory holds files of two of them.
THEOREM RunsStayApart == Spec => []OneRunPerDirectory
<1>1. Init => IInv
  BY InitIInv
<1>2. IInv /\ [Next]_vars => IInv'
  BY NextIInv
<1>3. IInv => OneRunPerDirectory
  BY IInvSeparates
<1>. QED
  BY <1>1, <1>2, <1>3, PTL DEF Spec

-----------------------------------------------------------------------------
(***************************************************************************)
(* Proofs about what a public run leaves behind, for any number of         *)
(* processes, ballots and gates: a claimed poll is backed by files, a      *)
(* manifest is evidence, and claim, manifest and replay publish one        *)
(* outcome.                                                                *)
(*                                                                         *)
(* The inductive invariant says what the disk, the chain and the memory of *)
(* a process hold as a function of the step the process is at, stopped or  *)
(* not.  It rests on where the steps of the four scripts are, which is     *)
(* proved first, and on RunsStayApart's invariant: only the process that   *)
(* wrote the setup of a run directory ever writes there.                   *)
(***************************************************************************)

-----------------------------------------------------------------------------
(* Where the steps of a script are                                         *)

Streams == {Journal, Compact, NativeRecords}
StreamOps == {"new", "truncate", "magic", "append", "unlink"}

\* The file of a step that has none.
NoFile == ""

TallyLength(kind) ==
  CASE kind \in {"sepolia", "local"} -> Gates + 1
    [] kind = "reference"            -> 2 * Gates
    [] kind = "stream"               -> 2 * Gates + 3

NewAt(kind) == IF kind \in OnChainKinds THEN N + 10 ELSE 6
AppendAt(kind, i) ==
  CASE kind \in {"sepolia", "local"} -> NewAt(kind) + 1 + i
    [] kind = "reference"            -> NewAt(kind) + 2 * i - 1
    [] kind = "stream"               -> NewAt(kind) + Gates + 2 + i
ReleaseAt(kind) == NewAt(kind) + TallyLength(kind) + 1
HashAt(kind) == IF kind \in OnChainKinds THEN ReleaseAt(kind) + 1 ELSE ReleaseAt(kind) + 2
ClaimAt(kind) == HashAt(kind) + 1
ManifestAt(kind) ==
  IF kind \in OnChainKinds THEN HashAt(kind) + 2 ELSE HashAt(kind) + Gates + 3
OracleAt == 4

\* What may be said of the step s at position k of a script.
Placed(kind, k, s) ==
  /\ s.op \in StreamOps => s.file \in Streams
  /\ s.op = "create" => s.file \notin Streams
  /\ s.op = "oracle" => k = OracleAt
  /\ s.op = "hash" => k = HashAt(kind)
  /\ s.op = "claim" => k = ClaimAt(kind) /\ kind \in OnChainKinds
  /\ s.op = "manifest" => k = ManifestAt(kind)
  /\ s.op = "new" /\ s.file = Journal => k = NewAt(kind)
  /\ s.op = "append" /\ s.file = Journal => \E i \in 1..Gates : k = AppendAt(kind, i)
  /\ s.op \in StreamOps \ {"new", "append"} => s.file # Journal

LEMMA Positions ==
  ASSUME NEW kind \in Kinds
  PROVE  /\ TallyLength(kind) \in Nat /\ NewAt(kind) \in Nat /\ NewAt(kind) > OracleAt
         /\ \A i \in 1..Gates :
              /\ AppendAt(kind, i) \in Nat
              /\ NewAt(kind) < AppendAt(kind, i)
              /\ AppendAt(kind, i) < ReleaseAt(kind)
         /\ \A i \in 1..Gates, j \in 1..Gates :
              i < j => AppendAt(kind, i) < AppendAt(kind, j)
         /\ ReleaseAt(kind) \in Nat /\ HashAt(kind) \in Nat /\ ManifestAt(kind) \in Nat
         /\ ReleaseAt(kind) < HashAt(kind) /\ HashAt(kind) < ManifestAt(kind)
         /\ kind \in OnChainKinds => ManifestAt(kind) = ClaimAt(kind) + 1
         /\ ClaimAt(kind) = HashAt(kind) + 1
<1>1. N \in Nat \ {0} /\ Gates \in Nat \ {0}
  BY RunAssumption
<1>. QED
  BY <1>1 DEF TallyLength, NewAt, AppendAt, ReleaseAt, HashAt, ClaimAt, ManifestAt, Kinds,
              OnChainKinds, OracleAt

\* Two pieces of a script.
LEMMA Joined ==
  ASSUME NEW s \in Seq(Steps), NEW t \in Seq(Steps)
  PROVE  /\ s \o t \in Seq(Steps)
         /\ Len(s \o t) = Len(s) + Len(t)
         /\ \A k \in 1..Len(s) : (s \o t)[k] = s[k]
         /\ \A k \in 1..Len(t) : (s \o t)[Len(s) + k] = t[k]
<1>1. /\ s \o t \in Seq(Steps)
      /\ Len(s \o t) = Len(s) + Len(t)
      /\ \A k \in 1..(Len(s) + Len(t)) :
           (s \o t)[k] = IF k <= Len(s) THEN s[k] ELSE t[k - Len(s)]
  BY ConcatProperties
<1>2. Len(s) \in Nat /\ Len(t) \in Nat
  BY LenProperties
<1>3. \A k \in 1..Len(t) :
        /\ Len(s) + k \in 1..(Len(s) + Len(t))
        /\ ~(Len(s) + k <= Len(s))
        /\ (Len(s) + k) - Len(s) = k
  BY <1>2
<1>4. \A k \in 1..Len(s) : k \in 1..(Len(s) + Len(t)) /\ k <= Len(s)
  BY <1>2
<1>. QED
  BY <1>1, <1>3, <1>4

LEMMA TallyAt ==
  ASSUME NEW kind \in Kinds
  PROVE  /\ Len(Tally(kind)) = TallyLength(kind)
         /\ \A k \in 1..TallyLength(kind) : Placed(kind, NewAt(kind) + k, Tally(kind)[k])
         /\ \A i \in 1..Gates :
              Tally(kind)[AppendAt(kind, i) - NewAt(kind)] = Step("append", Journal)
<1>. DEFINE A == Times(Gates, Step("append", Journal))
            R == Times(Gates, ChildStep("append", NativeRecords))
            P(s) == \A k \in Nat : Placed(kind, k, s)
<1>1. Gates \in Nat \ {0} /\ NewAt(kind) \in Nat
  BY RunAssumption, Positions
<1>2. /\ Len(A) = Gates /\ \A k \in 1..Gates : A[k] = Step("append", Journal)
      /\ Len(R) = Gates /\ \A k \in 1..Gates : R[k] = ChildStep("append", NativeRecords)
      /\ A \in Seq({Step("append", Journal)}) /\ R \in Seq({ChildStep("append", NativeRecords)})
  BY <1>1, FunctionIsSeq DEF Times
<1>3. /\ P(Step("empty", Journal)) /\ P(ChildStep("truncate", NativeRecords))
      /\ P(ChildStep("append", NativeRecords)) /\ P(Step("unlink", NativeRecords))
  BY DEF Placed, Step, ChildStep, StreamOps, Streams, Journal, NativeRecords
<1>4. \A i \in 1..Gates : Placed(kind, AppendAt(kind, i), Step("append", Journal))
  BY DEF Placed, Step, StreamOps, Streams, Journal
<1>5. CASE kind \in {"sepolia", "local"}
  <2>. DEFINE t == <<Step("empty", Journal)>> \o A
  <2>1. Tally(kind) = t
    BY <1>5 DEF Tally
  <2>. HIDE DEF A
  <2>2. /\ Len(t) = Gates + 1 /\ t[1] = Step("empty", Journal)
        /\ \A k \in 2..Gates+1 : t[k] = Step("append", Journal)
    BY <1>1, <1>2
  <2>3. /\ TallyLength(kind) = Gates + 1
        /\ \A i \in 1..Gates : AppendAt(kind, i) = NewAt(kind) + 1 + i
    BY <1>5 DEF TallyLength, AppendAt
  <2>. HIDE DEF t, P
  <2>4. ASSUME NEW k \in 1..(Gates + 1) PROVE Placed(kind, NewAt(kind) + k, t[k])
    <3>1. CASE k = 1
      BY <3>1, <1>1, <1>3, <2>2 DEF P
    <3>2. CASE k # 1
      <4>1. k - 1 \in 1..Gates /\ AppendAt(kind, k - 1) = NewAt(kind) + k
        BY <3>2, <1>1, <2>3
      <4>. QED
        BY <4>1, <1>4, <2>2, <3>2, <1>1
    <3>. QED
      BY <3>1, <3>2
  <2>5. \A i \in 1..Gates : t[AppendAt(kind, i) - NewAt(kind)] = Step("append", Journal)
    <3>1. \A i \in 1..Gates : AppendAt(kind, i) - NewAt(kind) = i + 1 /\ i + 1 \in 2..Gates+1
      BY <1>1, <2>3
    <3>. QED
      BY <3>1, <2>2
  <2>. QED
    BY <2>1, <2>2, <2>3, <2>4, <2>5
<1>6. CASE kind = "reference"
  <2>. DEFINE t == [k \in 1..(2 * Gates) |->
                      IF k % 2 = 1 THEN Step("append", Journal)
                                   ELSE Step("create", ProgressFile[k \div 2])]
  <2>1. Tally(kind) = t /\ TallyLength(kind) = 2 * Gates
    BY <1>6 DEF Tally, TallyLength
  <2>2. \A i \in 1..Gates : AppendAt(kind, i) = NewAt(kind) + 2 * i - 1
    BY <1>6 DEF AppendAt
  <2>3. Len(t) = 2 * Gates
    <3>1. t \in [1..(2 * Gates) -> {t[k] : k \in 1..(2 * Gates)}]
      OBVIOUS
    <3>2. 2 * Gates \in Nat
      BY <1>1
    <3>. HIDE DEF t
    <3>3. DOMAIN t = 1..(2 * Gates) /\ t \in Seq({t[k] : k \in 1..(2 * Gates)})
      BY <3>1, <3>2, FunctionIsSeq
    <3>. QED
      BY <3>2, <3>3
  <2>4. ASSUME NEW k \in 1..(2 * Gates) PROVE Placed(kind, NewAt(kind) + k, t[k])
    <3>1. CASE k % 2 = 1
      <4>1. PICK i \in 1..Gates : k = 2 * i - 1
        <5>1. (k + 1) \div 2 \in 1..Gates /\ k = 2 * ((k + 1) \div 2) - 1
          BY <3>1, <1>1
        <5>. QED
          BY <5>1
      <4>2. AppendAt(kind, i) = NewAt(kind) + k
        BY <4>1, <2>2, <1>1
      <4>. QED
        BY <3>1, <4>2, <1>4
    <3>2. CASE k % 2 # 1
      <4>1. k \div 2 \in 1..Gates
        BY <3>2, <1>1
      <4>2. ProgressFile[k \div 2] \notin FixedNames
        BY <4>1, RunAssumption
      <4>3. ProgressFile[k \div 2] \notin Streams
        BY <4>2 DEF FixedNames, Streams, Journal, Compact, NativeRecords
      <4>4. Placed(kind, NewAt(kind) + k, Step("create", ProgressFile[k \div 2]))
        BY <4>3 DEF Placed, Step, StreamOps
      <4>. QED
        BY <4>4, <3>2
    <3>. QED
      BY <3>1, <3>2
  <2>5. ASSUME NEW i \in 1..Gates
        PROVE  t[AppendAt(kind, i) - NewAt(kind)] = Step("append", Journal)
    <3>1. AppendAt(kind, i) - NewAt(kind) = 2 * i - 1
      BY <2>2, <1>1
    <3>2. 2 * i - 1 \in 1..(2 * Gates) /\ (2 * i - 1) % 2 = 1
      BY <1>1
    <3>. QED
      BY <3>1, <3>2
  <2>. QED
    BY <2>1, <2>3, <2>4, <2>5
<1>7. CASE kind = "stream"
  <2>. DEFINE a == <<ChildStep("truncate", NativeRecords)>>
              b == <<Step("empty", Journal)>>
              c == <<Step("unlink", NativeRecords)>>
              t == a \o R \o b \o A \o c
  <2>1. Tally(kind) = t
    BY <1>7 DEF Tally
  <2>2. /\ a \in Seq(Steps) /\ b \in Seq(Steps) /\ c \in Seq(Steps)
        /\ A \in Seq(Steps) /\ R \in Seq(Steps)
    <3>1. /\ Step("empty", Journal) \in Steps
          /\ Step("append", Journal) \in Steps
          /\ ChildStep("truncate", NativeRecords) \in Steps
          /\ ChildStep("append", NativeRecords) \in Steps
          /\ Step("unlink", NativeRecords) \in Steps
      BY FixedStep, FixedNamesAreNames
      DEF FixedNames, Setup, Journal, NativeRecords, Ops, WritingOps
    <3>2. A \in Seq(Steps) /\ R \in Seq(Steps)
      BY <3>1, <1>1, TimesSteps
    <3>3. a \in Seq(Steps) /\ b \in Seq(Steps) /\ c \in Seq(Steps)
      BY <3>1
    <3>. QED
      BY <3>2, <3>3
  <2>3. /\ Len(a) = 1 /\ a[1] = ChildStep("truncate", NativeRecords)
        /\ Len(b) = 1 /\ b[1] = Step("empty", Journal)
        /\ Len(c) = 1 /\ c[1] = Step("unlink", NativeRecords)
    OBVIOUS
  <2>. HIDE DEF A, R, a, b, c
  <2>4. /\ Len(t) = 2 * Gates + 3
        /\ \A k \in 1..(2 * Gates + 3) :
             t[k] = IF k = 1 THEN ChildStep("truncate", NativeRecords)
                    ELSE IF k <= Gates + 1 THEN ChildStep("append", NativeRecords)
                    ELSE IF k = Gates + 2 THEN Step("empty", Journal)
                    ELSE IF k <= 2 * Gates + 2 THEN Step("append", Journal)
                    ELSE Step("unlink", NativeRecords)
    <3>. DEFINE t2 == a \o R
                t3 == t2 \o b
                t4 == t3 \o A
    <3>1. /\ t2 \in Seq(Steps) /\ Len(t2) = 1 + Gates
          /\ \A k \in 1..1 : t2[k] = a[k]
          /\ \A k \in 1..Gates : t2[1 + k] = R[k]
      <4>1. /\ t2 \in Seq(Steps) /\ Len(t2) = Len(a) + Len(R)
            /\ \A k \in 1..Len(a) : t2[k] = a[k]
            /\ \A k \in 1..Len(R) : t2[Len(a) + k] = R[k]
        BY <2>2, Joined
      <4>. QED
        BY <4>1, <1>2, <2>3, Zenon
    <3>. HIDE DEF t2
    <3>2. /\ t3 \in Seq(Steps) /\ Len(t3) = (1 + Gates) + 1
          /\ \A k \in 1..(1 + Gates) : t3[k] = t2[k]
          /\ \A k \in 1..1 : t3[(1 + Gates) + k] = b[k]
      <4>1. /\ t3 \in Seq(Steps) /\ Len(t3) = Len(t2) + Len(b)
            /\ \A k \in 1..Len(t2) : t3[k] = t2[k]
            /\ \A k \in 1..Len(b) : t3[Len(t2) + k] = b[k]
        BY <2>2, <3>1, Joined
      <4>. QED
        BY <4>1, <3>1, <2>3, Zenon
    <3>. HIDE DEF t3
    <3>3. /\ t4 \in Seq(Steps) /\ Len(t4) = ((1 + Gates) + 1) + Gates
          /\ \A k \in 1..((1 + Gates) + 1) : t4[k] = t3[k]
          /\ \A k \in 1..Gates : t4[((1 + Gates) + 1) + k] = A[k]
      <4>1. /\ t4 \in Seq(Steps) /\ Len(t4) = Len(t3) + Len(A)
            /\ \A k \in 1..Len(t3) : t4[k] = t3[k]
            /\ \A k \in 1..Len(A) : t4[Len(t3) + k] = A[k]
        BY <2>2, <3>2, Joined
      <4>. QED
        BY <4>1, <3>2, <1>2, Zenon
    <3>. HIDE DEF t4
    <3>4. /\ Len(t) = (((1 + Gates) + 1) + Gates) + 1
          /\ \A k \in 1..(((1 + Gates) + 1) + Gates) : t[k] = t4[k]
          /\ \A k \in 1..1 : t[(((1 + Gates) + 1) + Gates) + k] = c[k]
      <4>1. t = t4 \o c
        BY DEF t4, t3, t2
      <4>. HIDE DEF t
      <4>2. /\ Len(t4 \o c) = Len(t4) + Len(c)
            /\ \A k \in 1..Len(t4) : (t4 \o c)[k] = t4[k]
            /\ \A k \in 1..Len(c) : (t4 \o c)[Len(t4) + k] = c[k]
        BY <2>2, <3>3, Joined
      <4>. QED
        BY <4>1, <4>2, <3>3, <2>3, Zenon
    <3>. HIDE DEF t
    <3>5. ASSUME NEW k \in 2..(Gates + 1) PROVE t[k] = ChildStep("append", NativeRecords)
      <4>1. t[k] = t2[k]
        BY <1>1, <3>2, <3>3, <3>4
      <4>2. k - 1 \in 1..Gates /\ 1 + (k - 1) = k
        BY <1>1
      <4>. QED
        BY <4>1, <4>2, <3>1, <1>2
    <3>6. ASSUME NEW k \in (Gates + 3)..(2 * Gates + 2) PROVE t[k] = Step("append", Journal)
      <4>1. k - Gates - 2 \in 1..Gates /\ ((1 + Gates) + 1) + (k - Gates - 2) = k
        BY <1>1
      <4>2. t4[k] = A[k - Gates - 2]
        BY <4>1, <3>3
      <4>. QED
        BY <4>1, <4>2, <3>4, <1>1, <1>2
    <3>7. /\ t[1] = ChildStep("truncate", NativeRecords)
          /\ t[Gates + 2] = Step("empty", Journal)
          /\ t[2 * Gates + 3] = Step("unlink", NativeRecords)
      BY <1>1, <2>3, <3>1, <3>2, <3>3, <3>4
    <3>. QED
      BY <1>1, <3>4, <3>5, <3>6, <3>7
  <2>5. /\ TallyLength(kind) = 2 * Gates + 3
        /\ \A i \in 1..Gates : AppendAt(kind, i) = NewAt(kind) + Gates + 2 + i
    BY <1>7 DEF TallyLength, AppendAt
  <2>. HIDE DEF t, P
  <2>6. ASSUME NEW k \in 1..(2 * Gates + 3) PROVE Placed(kind, NewAt(kind) + k, t[k])
    <3>1. CASE k \in (Gates + 3)..(2 * Gates + 2)
      <4>1. k - Gates - 2 \in 1..Gates /\ AppendAt(kind, k - Gates - 2) = NewAt(kind) + k
        BY <3>1, <1>1, <2>5
      <4>. QED
        BY <3>1, <4>1, <1>1, <1>4, <2>4
    <3>2. CASE k \notin (Gates + 3)..(2 * Gates + 2)
      BY <3>2, <1>1, <1>3, <2>4 DEF P
    <3>. QED
      BY <3>1, <3>2
  <2>7. ASSUME NEW i \in 1..Gates
        PROVE  t[AppendAt(kind, i) - NewAt(kind)] = Step("append", Journal)
    <3>1. /\ AppendAt(kind, i) - NewAt(kind) = Gates + 2 + i
          /\ Gates + 2 + i \in (Gates + 3)..(2 * Gates + 2)
      BY <1>1, <2>5
    <3>. QED
      BY <3>1, <1>1, <2>4
  <2>. QED
    BY <2>1, <2>4, <2>5, <2>6, <2>7
<1>. QED
  BY <1>5, <1>6, <1>7 DEF Kinds

\* The script of a run on chain, position by position.
LEMMA SepoliaAt ==
  ASSUME NEW kind \in OnChainKinds
  PROVE  LET s == Script[kind]
             T == TallyLength(kind)
         IN /\ Len(s) = N + T + 14
            /\ \A k \in 1..4 : s[k] = BallotChild[k]
            /\ s[5] = Step("create", "ballot_generation.log")
            /\ s[6] = Step("create", "verification_key.json")
            /\ s[7] = Step("deploy", NoFile)
            /\ \A k \in 1..N : s[7 + k] = Step("submit", k)
            /\ s[N + 8] = Step("create", "chain_snapshot.json")
            /\ s[N + 9] = Step("create", "sealed_board.json")
            /\ s[N + 10] = Step("new", Journal)
            /\ \A k \in 1..T : s[N + 10 + k] = Tally(kind)[k]
            /\ \A k \in 1..4 : s[N + T + 10 + k] = Publication[k]
<1>. DEFINE T == TallyLength(kind)
            t == Tally(kind)
            a == << Step("create", "ballot_generation.log"),
                    Step("create", "verification_key.json"), Step("deploy", NoFile) >>
            b == [k \in 1..N |-> Step("submit", k)]
            c == << Step("create", "chain_snapshot.json"),
                    Step("create", "sealed_board.json"), Step("new", Journal) >>
            x1 == BallotChild \o a
            x2 == x1 \o b
            x3 == x2 \o c
            x4 == x3 \o t
            x5 == x4 \o Publication
<1>a. kind \in Kinds /\ N \in Nat \ {0} /\ T \in Nat
  BY RunAssumption, Positions DEF Kinds, OnChainKinds
<1>b. Script[kind] = x5
  BY <1>a DEF Script, SepoliaScript, NoFile
<1>c. /\ BallotChild \in Seq(Steps) /\ a \in Seq(Steps) /\ b \in Seq(Steps)
      /\ c \in Seq(Steps) /\ t \in Seq(Steps) /\ Publication \in Seq(Steps)
  <2>1. /\ Step("create", "ballot_generation.log") \in Steps
        /\ Step("create", "verification_key.json") \in Steps
        /\ Step("create", "chain_snapshot.json") \in Steps
        /\ Step("create", "sealed_board.json") \in Steps
        /\ Step("create", "final_release.json") \in Steps
        /\ Step("manifest", "manifest.json") \in Steps
        /\ Step("new", Journal) \in Steps
        /\ Step("hash", Journal) \in Steps
    BY FixedStep, FixedNamesAreNames DEF FixedNames, Setup, Journal, Ops, WritingOps
  <2>2. Step("deploy", NoFile) \in Steps /\ Step("claim", NoFile) \in Steps
    BY OtherStep DEF NoFile
  <2>3. b \in Seq(Steps)
    <3>1. \A k \in 1..N : Step("submit", k) \in Steps
      BY OtherStep
    <3>. QED
      BY <3>1, FunctionIsSeq, RunAssumption
  <2>4. a \in Seq(Steps) /\ c \in Seq(Steps)
    BY <2>1, <2>2, TupleSteps
  <2>5. Publication \in Seq(Steps)
    BY <2>1, <2>2, TupleSteps DEF Publication, NoFile
  <2>. QED
    BY <2>3, <2>4, <2>5, <1>a, BallotChildSteps, TallySteps
<1>d. /\ Len(BallotChild) = 4 /\ Len(a) = 3 /\ Len(b) = N /\ Len(c) = 3 /\ Len(t) = T
      /\ Len(Publication) = 4
  <2>1. Len(b) = N
    BY <1>a
  <2>. QED
    BY <2>1, <1>a, BallotChildSteps, TallyAt DEF Publication
<1>e. /\ a[1] = Step("create", "ballot_generation.log")
      /\ a[2] = Step("create", "verification_key.json")
      /\ a[3] = Step("deploy", NoFile)
      /\ \A k \in 1..N : b[k] = Step("submit", k)
      /\ c[1] = Step("create", "chain_snapshot.json")
      /\ c[2] = Step("create", "sealed_board.json")
      /\ c[3] = Step("new", Journal)
  OBVIOUS
<1>. HIDE DEF a, b, c, t, T
<1>1. /\ x1 \in Seq(Steps) /\ Len(x1) = 4 + 3
      /\ \A k \in 1..4 : x1[k] = BallotChild[k]
      /\ \A k \in 1..3 : x1[4 + k] = a[k]
  <2>1. /\ x1 \in Seq(Steps) /\ Len(x1) = Len(BallotChild) + Len(a)
        /\ \A k \in 1..Len(BallotChild) : x1[k] = BallotChild[k]
        /\ \A k \in 1..Len(a) : x1[Len(BallotChild) + k] = a[k]
    BY <1>c, Joined
  <2>. QED
    BY <2>1, <1>d, Zenon
<1>. HIDE DEF x1
<1>2. /\ x2 \in Seq(Steps) /\ Len(x2) = (4 + 3) + N
      /\ \A k \in 1..(4 + 3) : x2[k] = x1[k]
      /\ \A k \in 1..N : x2[(4 + 3) + k] = b[k]
  <2>1. /\ x2 \in Seq(Steps) /\ Len(x2) = Len(x1) + Len(b)
        /\ \A k \in 1..Len(x1) : x2[k] = x1[k]
        /\ \A k \in 1..Len(b) : x2[Len(x1) + k] = b[k]
    BY <1>c, <1>1, Joined
  <2>. QED
    BY <2>1, <1>d, <1>1, Zenon
<1>. HIDE DEF x2
<1>3. /\ x3 \in Seq(Steps) /\ Len(x3) = ((4 + 3) + N) + 3
      /\ \A k \in 1..((4 + 3) + N) : x3[k] = x2[k]
      /\ \A k \in 1..3 : x3[((4 + 3) + N) + k] = c[k]
  <2>1. /\ x3 \in Seq(Steps) /\ Len(x3) = Len(x2) + Len(c)
        /\ \A k \in 1..Len(x2) : x3[k] = x2[k]
        /\ \A k \in 1..Len(c) : x3[Len(x2) + k] = c[k]
    BY <1>c, <1>2, Joined
  <2>. QED
    BY <2>1, <1>d, <1>2, Zenon
<1>. HIDE DEF x3
<1>4. /\ x4 \in Seq(Steps) /\ Len(x4) = (((4 + 3) + N) + 3) + T
      /\ \A k \in 1..(((4 + 3) + N) + 3) : x4[k] = x3[k]
      /\ \A k \in 1..T : x4[(((4 + 3) + N) + 3) + k] = t[k]
  <2>1. /\ x4 \in Seq(Steps) /\ Len(x4) = Len(x3) + Len(t)
        /\ \A k \in 1..Len(x3) : x4[k] = x3[k]
        /\ \A k \in 1..Len(t) : x4[Len(x3) + k] = t[k]
    BY <1>c, <1>3, Joined
  <2>. QED
    BY <2>1, <1>d, <1>3, Zenon
<1>. HIDE DEF x4
<1>5. /\ x5 \in Seq(Steps) /\ Len(x5) = ((((4 + 3) + N) + 3) + T) + 4
      /\ \A k \in 1..((((4 + 3) + N) + 3) + T) : x5[k] = x4[k]
      /\ \A k \in 1..4 : x5[((((4 + 3) + N) + 3) + T) + k] = Publication[k]
  <2>1. /\ x5 \in Seq(Steps) /\ Len(x5) = Len(x4) + Len(Publication)
        /\ \A k \in 1..Len(x4) : x5[k] = x4[k]
        /\ \A k \in 1..Len(Publication) : x5[Len(x4) + k] = Publication[k]
    BY <1>c, <1>4, Joined
  <2>. QED
    BY <2>1, <1>d, <1>4, Zenon
<1>. HIDE DEF x5
<1>6. /\ \A k \in 1..(N + 10 + T) : x5[k] = x4[k]
      /\ \A k \in 1..(N + 10) : x5[k] = x3[k]
      /\ \A k \in 1..(N + 7) : x5[k] = x2[k]
      /\ \A k \in 1..7 : x5[k] = x1[k]
  <2>1. \A k \in 1..(N + 10 + T) : x5[k] = x4[k]
    BY <1>5, <1>a
  <2>2. \A k \in 1..(N + 10) : x4[k] = x3[k]
    BY <1>4, <1>a
  <2>3. \A k \in 1..(N + 7) : x3[k] = x2[k]
    BY <1>3, <1>a
  <2>4. \A k \in 1..7 : x2[k] = x1[k]
    BY <1>2, <1>a
  <2>5. \A k \in 1..(N + 10) : x5[k] = x3[k]
    BY <2>1, <2>2, <1>a
  <2>6. \A k \in 1..(N + 7) : x5[k] = x2[k]
    BY <2>3, <2>5, <1>a
  <2>. QED
    BY <2>1, <2>4, <2>5, <2>6, <1>a
<1>7. /\ \A k \in 1..4 : x5[k] = BallotChild[k]
      /\ x5[5] = a[1] /\ x5[6] = a[2] /\ x5[7] = a[3]
  <2>1. x1[4 + 1] = a[1] /\ x1[4 + 2] = a[2] /\ x1[4 + 3] = a[3]
    BY <1>1
  <2>. QED
    BY <2>1, <1>1, <1>6
<1>8. ASSUME NEW k \in 1..N PROVE x5[7 + k] = b[k]
  <2>1. x2[(4 + 3) + k] = b[k]
    BY <1>2
  <2>. QED
    BY <2>1, <1>6, <1>a
<1>9. x5[N + 8] = c[1] /\ x5[N + 9] = c[2] /\ x5[N + 10] = c[3]
  <2>1. /\ x3[((4 + 3) + N) + 1] = c[1] /\ x3[((4 + 3) + N) + 2] = c[2]
        /\ x3[((4 + 3) + N) + 3] = c[3]
    BY <1>3
  <2>2. /\ ((4 + 3) + N) + 1 = N + 8 /\ ((4 + 3) + N) + 2 = N + 9
        /\ ((4 + 3) + N) + 3 = N + 10
    BY <1>a
  <2>. QED
    BY <2>1, <2>2, <1>6, <1>a
<1>10. ASSUME NEW k \in 1..T PROVE x5[N + 10 + k] = t[k]
  <2>1. x4[(((4 + 3) + N) + 3) + k] = t[k]
    BY <1>4
  <2>2. (((4 + 3) + N) + 3) + k = N + 10 + k /\ N + 10 + k \in 1..(N + 10 + T)
    BY <1>a
  <2>. QED
    BY <2>1, <2>2, <1>6
<1>11. ASSUME NEW k \in 1..4 PROVE x5[N + T + 10 + k] = Publication[k]
  <2>1. x5[((((4 + 3) + N) + 3) + T) + k] = Publication[k]
    BY <1>5
  <2>2. ((((4 + 3) + N) + 3) + T) + k = N + T + 10 + k
    BY <1>a
  <2>. QED
    BY <2>1, <2>2
<1>12. Len(x5) = N + T + 14
  BY <1>5, <1>a
<1>. QED
  BY <1>b, <1>e, <1>7, <1>8, <1>9, <1>10, <1>11, <1>12 DEF t, T

\* The script of a local run, position by position.
LEMMA LocalAt ==
  ASSUME NEW kind \in Kinds \ OnChainKinds
  PROVE  LET s == Script[kind]
             T == TallyLength(kind)
         IN /\ Len(s) = T + Gates + 12
            /\ \A k \in 1..4 : s[k] = BallotChild[k]
            /\ s[5] = Step("create", "local_admission_board.json")
            /\ s[6] = Step("new", Journal)
            /\ \A k \in 1..T : s[6 + k] = Tally(kind)[k]
            /\ s[T + 7] = Step("create", "final_release.json")
            /\ s[T + 8] = Step("complete", Journal)
            /\ s[T + 9] = Step("hash", Journal)
            /\ s[T + 10] = Step("new", Compact)
            /\ s[T + 11] = Step("magic", Compact)
            /\ \A k \in 1..Gates : s[T + 11 + k] = Step("append", Compact)
            /\ s[T + Gates + 12] = Step("manifest", "manifest.json")
<1>. DEFINE T == TallyLength(kind)
            t == Tally(kind)
            g == Times(Gates, Step("append", Compact))
            a == << Step("create", "local_admission_board.json"), Step("new", Journal) >>
            b == << Step("create", "final_release.json"), Step("complete", Journal),
                    Step("hash", Journal), Step("new", Compact), Step("magic", Compact) >>
            c == << Step("manifest", "manifest.json") >>
            x1 == BallotChild \o a
            x2 == x1 \o t
            x3 == x2 \o b
            x4 == x3 \o g
            x5 == x4 \o c
<1>a. kind \in Kinds /\ Gates \in Nat \ {0} /\ T \in Nat
  BY RunAssumption, Positions
<1>b. Script[kind] = x5
  BY <1>a DEF Script, LocalScript
<1>c. /\ BallotChild \in Seq(Steps) /\ a \in Seq(Steps) /\ b \in Seq(Steps)
      /\ c \in Seq(Steps) /\ t \in Seq(Steps) /\ g \in Seq(Steps)
  <2>1. /\ Step("create", "local_admission_board.json") \in Steps
        /\ Step("create", "final_release.json") \in Steps
        /\ Step("manifest", "manifest.json") \in Steps
        /\ Step("new", Journal) \in Steps
        /\ Step("hash", Journal) \in Steps
        /\ Step("complete", Journal) \in Steps
        /\ Step("new", Compact) \in Steps
        /\ Step("magic", Compact) \in Steps
        /\ Step("append", Compact) \in Steps
    BY FixedStep, FixedNamesAreNames
    DEF FixedNames, Setup, Journal, Compact, Ops, WritingOps
  <2>2. a \in Seq(Steps) /\ b \in Seq(Steps) /\ c \in Seq(Steps)
    BY <2>1
  <2>3. g \in Seq(Steps)
    BY <2>1, <1>a, TimesSteps
  <2>. QED
    BY <2>2, <2>3, <1>a, BallotChildSteps, TallySteps
<1>d. /\ Len(BallotChild) = 4 /\ Len(a) = 2 /\ Len(t) = T /\ Len(b) = 5 /\ Len(g) = Gates
      /\ Len(c) = 1
  <2>1. Len(g) = Gates
    BY <1>a DEF Times
  <2>. QED
    BY <2>1, <1>a, BallotChildSteps, TallyAt
<1>e. /\ a[1] = Step("create", "local_admission_board.json")
      /\ a[2] = Step("new", Journal)
      /\ b[1] = Step("create", "final_release.json")
      /\ b[2] = Step("complete", Journal)
      /\ b[3] = Step("hash", Journal)
      /\ b[4] = Step("new", Compact)
      /\ b[5] = Step("magic", Compact)
      /\ \A k \in 1..Gates : g[k] = Step("append", Compact)
      /\ c[1] = Step("manifest", "manifest.json")
  BY DEF Times
<1>. HIDE DEF a, b, c, g, t, T
<1>1. /\ x1 \in Seq(Steps) /\ Len(x1) = 4 + 2
      /\ \A k \in 1..4 : x1[k] = BallotChild[k]
      /\ \A k \in 1..2 : x1[4 + k] = a[k]
  <2>1. /\ x1 \in Seq(Steps) /\ Len(x1) = Len(BallotChild) + Len(a)
        /\ \A k \in 1..Len(BallotChild) : x1[k] = BallotChild[k]
        /\ \A k \in 1..Len(a) : x1[Len(BallotChild) + k] = a[k]
    BY <1>c, Joined
  <2>. QED
    BY <2>1, <1>d, Zenon
<1>. HIDE DEF x1
<1>2. /\ x2 \in Seq(Steps) /\ Len(x2) = (4 + 2) + T
      /\ \A k \in 1..(4 + 2) : x2[k] = x1[k]
      /\ \A k \in 1..T : x2[(4 + 2) + k] = t[k]
  <2>1. /\ x2 \in Seq(Steps) /\ Len(x2) = Len(x1) + Len(t)
        /\ \A k \in 1..Len(x1) : x2[k] = x1[k]
        /\ \A k \in 1..Len(t) : x2[Len(x1) + k] = t[k]
    BY <1>c, <1>1, Joined
  <2>. QED
    BY <2>1, <1>d, <1>1, Zenon
<1>. HIDE DEF x2
<1>3. /\ x3 \in Seq(Steps) /\ Len(x3) = ((4 + 2) + T) + 5
      /\ \A k \in 1..((4 + 2) + T) : x3[k] = x2[k]
      /\ \A k \in 1..5 : x3[((4 + 2) + T) + k] = b[k]
  <2>1. /\ x3 \in Seq(Steps) /\ Len(x3) = Len(x2) + Len(b)
        /\ \A k \in 1..Len(x2) : x3[k] = x2[k]
        /\ \A k \in 1..Len(b) : x3[Len(x2) + k] = b[k]
    BY <1>c, <1>2, Joined
  <2>. QED
    BY <2>1, <1>d, <1>2, Zenon
<1>. HIDE DEF x3
<1>4. /\ x4 \in Seq(Steps) /\ Len(x4) = (((4 + 2) + T) + 5) + Gates
      /\ \A k \in 1..(((4 + 2) + T) + 5) : x4[k] = x3[k]
      /\ \A k \in 1..Gates : x4[(((4 + 2) + T) + 5) + k] = g[k]
  <2>1. /\ x4 \in Seq(Steps) /\ Len(x4) = Len(x3) + Len(g)
        /\ \A k \in 1..Len(x3) : x4[k] = x3[k]
        /\ \A k \in 1..Len(g) : x4[Len(x3) + k] = g[k]
    BY <1>c, <1>3, Joined
  <2>. QED
    BY <2>1, <1>d, <1>3, Zenon
<1>. HIDE DEF x4
<1>5. /\ x5 \in Seq(Steps) /\ Len(x5) = ((((4 + 2) + T) + 5) + Gates) + 1
      /\ \A k \in 1..((((4 + 2) + T) + 5) + Gates) : x5[k] = x4[k]
      /\ \A k \in 1..1 : x5[((((4 + 2) + T) + 5) + Gates) + k] = c[k]
  <2>1. /\ x5 \in Seq(Steps) /\ Len(x5) = Len(x4) + Len(c)
        /\ \A k \in 1..Len(x4) : x5[k] = x4[k]
        /\ \A k \in 1..Len(c) : x5[Len(x4) + k] = c[k]
    BY <1>c, <1>4, Joined
  <2>. QED
    BY <2>1, <1>d, <1>4, Zenon
<1>. HIDE DEF x5
<1>6. /\ \A k \in 1..(T + 11 + Gates) : x5[k] = x4[k]
      /\ \A k \in 1..(T + 11) : x5[k] = x3[k]
      /\ \A k \in 1..(T + 6) : x5[k] = x2[k]
      /\ \A k \in 1..6 : x5[k] = x1[k]
  <2>1. \A k \in 1..(T + 11 + Gates) : x5[k] = x4[k]
    BY <1>5, <1>a
  <2>2. \A k \in 1..(T + 11) : x4[k] = x3[k]
    BY <1>4, <1>a
  <2>3. \A k \in 1..(T + 6) : x3[k] = x2[k]
    BY <1>3, <1>a
  <2>4. \A k \in 1..6 : x2[k] = x1[k]
    BY <1>2, <1>a
  <2>5. \A k \in 1..(T + 11) : x5[k] = x3[k]
    BY <2>1, <2>2, <1>a
  <2>6. \A k \in 1..(T + 6) : x5[k] = x2[k]
    BY <2>3, <2>5, <1>a
  <2>. QED
    BY <2>1, <2>4, <2>5, <2>6, <1>a
<1>7. /\ \A k \in 1..4 : x5[k] = BallotChild[k]
      /\ x5[5] = a[1] /\ x5[6] = a[2]
  <2>1. x1[4 + 1] = a[1] /\ x1[4 + 2] = a[2]
    BY <1>1
  <2>. QED
    BY <2>1, <1>1, <1>6
<1>8. ASSUME NEW k \in 1..T PROVE x5[6 + k] = t[k]
  <2>1. x2[(4 + 2) + k] = t[k]
    BY <1>2
  <2>. QED
    BY <2>1, <1>6, <1>a
<1>9. ASSUME NEW k \in 1..5 PROVE x5[T + 6 + k] = b[k]
  <2>1. x3[((4 + 2) + T) + k] = b[k]
    BY <1>3
  <2>2. ((4 + 2) + T) + k = T + 6 + k /\ T + 6 + k \in 1..(T + 11)
    BY <1>a
  <2>. QED
    BY <2>1, <2>2, <1>6
<1>10. ASSUME NEW k \in 1..Gates PROVE x5[T + 11 + k] = g[k]
  <2>1. x4[(((4 + 2) + T) + 5) + k] = g[k]
    BY <1>4
  <2>2. (((4 + 2) + T) + 5) + k = T + 11 + k /\ T + 11 + k \in 1..(T + 11 + Gates)
    BY <1>a
  <2>. QED
    BY <2>1, <2>2, <1>6
<1>11. x5[T + Gates + 12] = c[1] /\ Len(x5) = T + Gates + 12
  <2>1. x5[((((4 + 2) + T) + 5) + Gates) + 1] = c[1]
    BY <1>5
  <2>2. ((((4 + 2) + T) + 5) + Gates) + 1 = T + Gates + 12
    BY <1>a
  <2>. QED
    BY <2>1, <2>2, <1>5
<1>12. /\ x5[T + 7] = b[1] /\ x5[T + 8] = b[2] /\ x5[T + 9] = b[3]
       /\ x5[T + 10] = b[4] /\ x5[T + 11] = b[5]
  <2>1. /\ x5[T + 6 + 1] = b[1] /\ x5[T + 6 + 2] = b[2] /\ x5[T + 6 + 3] = b[3]
        /\ x5[T + 6 + 4] = b[4] /\ x5[T + 6 + 5] = b[5]
    BY <1>9
  <2>2. /\ T + 6 + 1 = T + 7 /\ T + 6 + 2 = T + 8 /\ T + 6 + 3 = T + 9
        /\ T + 6 + 4 = T + 10 /\ T + 6 + 5 = T + 11
    BY <1>a
  <2>. QED
    BY <2>1, <2>2
<1>. QED
  BY <1>b, <1>e, <1>7, <1>8, <1>10, <1>11, <1>12 DEF t, T

\* Of the files a manifest hashes, those the script creates.
CreatedFiles(kind) == Hashed(kind) \ {Setup, Journal}

\* Where the steps of a script are.
LEMMA ScriptAt ==
  ASSUME NEW kind \in Kinds
  PROVE  LET s == Script[kind]
         IN /\ Len(s) = ManifestAt(kind)
            /\ \A k \in 1..ManifestAt(kind) : Placed(kind, k, s[k])
            /\ s[OracleAt] = ChildStep("oracle", OracleFile)
            /\ s[NewAt(kind)] = Step("new", Journal)
            /\ \A i \in 1..Gates : s[AppendAt(kind, i)] = Step("append", Journal)
            /\ s[HashAt(kind)].op = "hash"
            /\ kind \in OnChainKinds => s[ClaimAt(kind)].op = "claim"
            /\ \A f \in CreatedFiles(kind) :
                 \E k \in 1..ReleaseAt(kind) : s[k].op = "create" /\ s[k].file = f
<1>. DEFINE s == Script[kind]
            T == TallyLength(kind)
            P(x) == \A k \in Nat : Placed(kind, k, x)
<1>1. N \in Nat \ {0} /\ Gates \in Nat \ {0} /\ T \in Nat
  BY RunAssumption, Positions
<1>2. /\ P(Step("deploy", NoFile)) /\ P(Step("complete", Journal))
      /\ P(Step("new", Compact)) /\ P(Step("magic", Compact)) /\ P(Step("append", Compact))
      /\ \A k \in 1..N : P(Step("submit", k))
      /\ P(ChildStep("mkdir", "oracle"))
  BY DEF Placed, Step, ChildStep, StreamOps, Streams, Journal, Compact, NativeRecords
<1>3. /\ P(Step("create", "ballot_generation.log")) /\ P(Step("create", "verification_key.json"))
      /\ P(Step("create", "chain_snapshot.json")) /\ P(Step("create", "sealed_board.json"))
      /\ P(Step("create", "final_release.json")) /\ P(Step("create", "local_admission_board.json"))
      /\ P(ChildStep("create", "ballot_public_proofs.json"))
      /\ P(ChildStep("create", "ballot_public_context.json"))
  BY DEF Placed, Step, ChildStep, StreamOps, Streams, Journal, Compact, NativeRecords
<1>4. /\ Placed(kind, NewAt(kind), Step("new", Journal))
      /\ Placed(kind, HashAt(kind), Step("hash", Journal))
      /\ kind \in OnChainKinds => Placed(kind, ClaimAt(kind), Step("claim", NoFile))
      /\ Placed(kind, ManifestAt(kind), Step("manifest", "manifest.json"))
      /\ Placed(kind, OracleAt, ChildStep("oracle", "cleartext_oracle_inputs.json"))
  BY DEF Placed, Step, ChildStep, StreamOps, Streams, Journal
<1>5. /\ BallotChild[1] = ChildStep("mkdir", "oracle")
      /\ BallotChild[2] = ChildStep("create", "ballot_public_proofs.json")
      /\ BallotChild[3] = ChildStep("create", "ballot_public_context.json")
      /\ BallotChild[4] = ChildStep("oracle", "cleartext_oracle_inputs.json")
  BY DEF BallotChild
<1>6. /\ Publication[1] = Step("create", "final_release.json")
      /\ Publication[2] = Step("hash", Journal)
      /\ Publication[3] = Step("claim", NoFile)
      /\ Publication[4] = Step("manifest", "manifest.json")
  BY DEF Publication, NoFile
<1>7. /\ \A k \in 1..T : Placed(kind, NewAt(kind) + k, Tally(kind)[k])
      /\ \A i \in 1..Gates :
           /\ Tally(kind)[AppendAt(kind, i) - NewAt(kind)] = Step("append", Journal)
           /\ AppendAt(kind, i) - NewAt(kind) \in 1..T
  <2>1. \A k \in 1..T : Placed(kind, NewAt(kind) + k, Tally(kind)[k])
    BY TallyAt
  <2>2. \A i \in 1..Gates : Tally(kind)[AppendAt(kind, i) - NewAt(kind)] = Step("append", Journal)
    BY TallyAt
  <2>3. \A i \in 1..Gates : AppendAt(kind, i) - NewAt(kind) \in 1..T
    BY <1>1, Positions DEF ReleaseAt
  <2>. QED
    BY <2>1, <2>2, <2>3
<1>. HIDE DEF P
<1>0. ASSUME NEW k \in Nat, NEW x, P(x), s[k] = x
      PROVE  Placed(kind, k, s[k])
  BY <1>0 DEF P
<1>8. CASE kind \in OnChainKinds
  <2>1. /\ Len(s) = N + T + 14
        /\ \A k \in 1..4 : s[k] = BallotChild[k]
        /\ s[5] = Step("create", "ballot_generation.log")
        /\ s[6] = Step("create", "verification_key.json")
        /\ s[7] = Step("deploy", NoFile)
        /\ \A k \in 1..N : s[7 + k] = Step("submit", k)
        /\ s[N + 8] = Step("create", "chain_snapshot.json")
        /\ s[N + 9] = Step("create", "sealed_board.json")
        /\ s[N + 10] = Step("new", Journal)
        /\ \A k \in 1..T : s[N + 10 + k] = Tally(kind)[k]
        /\ \A k \in 1..4 : s[N + T + 10 + k] = Publication[k]
    BY <1>8, SepoliaAt
  <2>2. /\ NewAt(kind) = N + 10 /\ ReleaseAt(kind) = N + T + 11 /\ HashAt(kind) = N + T + 12
        /\ ClaimAt(kind) = N + T + 13 /\ ManifestAt(kind) = N + T + 14
    BY <1>1, <1>8 DEF NewAt, ReleaseAt, HashAt, ClaimAt, ManifestAt
  <2>3. /\ s[N + T + 11] = Publication[1] /\ s[N + T + 12] = Publication[2]
        /\ s[N + T + 13] = Publication[3] /\ s[N + T + 14] = Publication[4]
    <3>0. \A k \in 1..4 : s[N + T + 10 + k] = Publication[k]
      BY <2>1
    <3>1. /\ s[N + T + 10 + 1] = Publication[1] /\ s[N + T + 10 + 2] = Publication[2]
          /\ s[N + T + 10 + 3] = Publication[3] /\ s[N + T + 10 + 4] = Publication[4]
      BY <3>0
    <3>2. /\ N + T + 10 + 1 = N + T + 11 /\ N + T + 10 + 2 = N + T + 12
          /\ N + T + 10 + 3 = N + T + 13 /\ N + T + 10 + 4 = N + T + 14
      BY <1>1
    <3>. QED
      BY <3>1, <3>2
  <2>. HIDE DEF P, s, T
  <2>8. /\ s[1] = BallotChild[1] /\ s[2] = BallotChild[2]
        /\ s[3] = BallotChild[3] /\ s[4] = BallotChild[4]
    <3>1. \A k \in 1..4 : s[k] = BallotChild[k]
      BY <2>1
    <3>. QED
      BY <3>1
  <2>4. ASSUME NEW k \in 1..(N + T + 14) PROVE Placed(kind, k, s[k])
    <3>1. CASE k \in 1..4
      BY <3>1, <1>0, <1>2, <1>3, <1>4, <1>5, <2>8 DEF OracleAt
    <3>2. CASE k \in {5, 6, 7, N + 8, N + 9, N + 10}
      <4>1. CASE k = N + 10
        BY <4>1, <2>1, <2>2, <1>4
      <4>2. CASE k # N + 10
        <5>1. s[k] \in { Step("create", "ballot_generation.log"),
                          Step("create", "verification_key.json"), Step("deploy", NoFile),
                          Step("create", "chain_snapshot.json"),
                          Step("create", "sealed_board.json") }
          BY <3>2, <4>2, <2>1
        <5>. QED
          BY <5>1, <1>0, <1>2, <1>3, <1>1
      <4>. QED
        BY <4>1, <4>2
    <3>3. CASE k \in 8..(N + 7)
      <4>1. k - 7 \in 1..N /\ 7 + (k - 7) = k
        BY <3>3, <1>1
      <4>2. s[k] = Step("submit", k - 7)
        BY <4>1, <2>1
      <4>. QED
        BY <4>1, <4>2, <1>0, <1>1, <1>2, <3>3
    <3>4. CASE k \in (N + 11)..(N + 10 + T)
      <4>1. k - N - 10 \in 1..T /\ N + 10 + (k - N - 10) = k
        BY <3>4, <1>1
      <4>2. s[k] = Tally(kind)[k - N - 10]
        BY <4>1, <2>1
      <4>3. Placed(kind, k, Tally(kind)[k - N - 10])
        BY <4>1, <1>7, <2>2
      <4>. QED
        BY <4>2, <4>3
    <3>5. CASE k \in {N + T + 11, N + T + 12, N + T + 13, N + T + 14}
      <4>1. CASE k = N + T + 11
        BY <4>1, <2>3, <1>0, <1>1, <1>3, <1>6
      <4>2. CASE k # N + T + 11
        BY <3>5, <4>2, <2>2, <2>3, <1>4, <1>6, <1>8
      <4>. QED
        BY <4>1, <4>2
    <3>. QED
      BY <3>1, <3>2, <3>3, <3>4, <3>5, <1>1
  <2>5. ASSUME NEW i \in 1..Gates PROVE s[AppendAt(kind, i)] = Step("append", Journal)
    <3>1. N + 10 + (AppendAt(kind, i) - NewAt(kind)) = AppendAt(kind, i)
      BY <2>2, <1>1, Positions
    <3>. QED
      BY <3>1, <2>1, <1>7
  <2>6. ASSUME NEW f \in CreatedFiles(kind)
        PROVE  \E k \in 1..ReleaseAt(kind) : s[k].op = "create" /\ s[k].file = f
    <3>1. f \in {"ballot_public_proofs.json", "final_release.json", "chain_snapshot.json",
                 "sealed_board.json", "verification_key.json"}
      BY <2>6, <1>8 DEF CreatedFiles, Hashed, Setup, Journal
    <3>2. /\ s[2].op = "create" /\ s[2].file = "ballot_public_proofs.json"
          /\ s[6].op = "create" /\ s[6].file = "verification_key.json"
          /\ s[N + 8].op = "create" /\ s[N + 8].file = "chain_snapshot.json"
          /\ s[N + 9].op = "create" /\ s[N + 9].file = "sealed_board.json"
          /\ s[N + T + 11].op = "create" /\ s[N + T + 11].file = "final_release.json"
      <4>1. /\ s[2] = ChildStep("create", "ballot_public_proofs.json")
            /\ s[6] = Step("create", "verification_key.json")
            /\ s[N + 8] = Step("create", "chain_snapshot.json")
            /\ s[N + 9] = Step("create", "sealed_board.json")
            /\ s[N + T + 11] = Step("create", "final_release.json")
        BY <2>1, <2>3, <2>8, <1>5, <1>6
      <4>. QED
        BY <4>1 DEF Step, ChildStep
    <3>3. {2, 6, N + 8, N + 9, N + T + 11} \subseteq 1..ReleaseAt(kind)
      BY <2>2, <1>1
    <3>. QED
      BY <3>1, <3>2, <3>3
  <2>7. s[HashAt(kind)].op = "hash" /\ s[ClaimAt(kind)].op = "claim"
    <3>1. s[HashAt(kind)] = Step("hash", Journal) /\ s[ClaimAt(kind)] = Step("claim", NoFile)
      BY <2>2, <2>3, <1>6
    <3>. QED
      BY <3>1 DEF Step
  <2>. QED
    BY <2>1, <2>2, <2>4, <2>5, <2>6, <2>7, <2>8, <1>5 DEF OracleAt, OracleFile, s
<1>9. CASE kind \notin OnChainKinds
  <2>1. /\ Len(s) = T + Gates + 12
        /\ \A k \in 1..4 : s[k] = BallotChild[k]
        /\ s[5] = Step("create", "local_admission_board.json")
        /\ s[6] = Step("new", Journal)
        /\ \A k \in 1..T : s[6 + k] = Tally(kind)[k]
        /\ s[T + 7] = Step("create", "final_release.json")
        /\ s[T + 8] = Step("complete", Journal)
        /\ s[T + 9] = Step("hash", Journal)
        /\ s[T + 10] = Step("new", Compact)
        /\ s[T + 11] = Step("magic", Compact)
        /\ \A k \in 1..Gates : s[T + 11 + k] = Step("append", Compact)
        /\ s[T + Gates + 12] = Step("manifest", "manifest.json")
    BY <1>9, LocalAt
  <2>2. /\ NewAt(kind) = 6 /\ ReleaseAt(kind) = T + 7 /\ HashAt(kind) = T + 9
        /\ ManifestAt(kind) = T + Gates + 12
    BY <1>1, <1>9 DEF NewAt, ReleaseAt, HashAt, ManifestAt
  <2>. HIDE DEF P, s, T
  <2>8. /\ s[1] = BallotChild[1] /\ s[2] = BallotChild[2]
        /\ s[3] = BallotChild[3] /\ s[4] = BallotChild[4]
    <3>1. \A k \in 1..4 : s[k] = BallotChild[k]
      BY <2>1
    <3>. QED
      BY <3>1
  <2>4. ASSUME NEW k \in 1..(T + Gates + 12) PROVE Placed(kind, k, s[k])
    <3>1. CASE k \in 1..4
      BY <3>1, <1>0, <1>2, <1>3, <1>4, <1>5, <2>8 DEF OracleAt
    <3>2. CASE k \in {5, 6, T + 7, T + 8, T + 9, T + 10, T + 11, T + Gates + 12}
      <4>1. CASE k \in {6, T + 9, T + Gates + 12}
        BY <4>1, <2>1, <2>2, <1>4
      <4>2. CASE k \notin {6, T + 9, T + Gates + 12}
        <5>1. s[k] \in { Step("create", "local_admission_board.json"),
                          Step("create", "final_release.json"), Step("complete", Journal),
                          Step("new", Compact), Step("magic", Compact) }
          BY <3>2, <4>2, <2>1
        <5>. QED
          BY <5>1, <1>0, <1>2, <1>3, <1>1
      <4>. QED
        BY <4>1, <4>2
    <3>3. CASE k \in 7..(T + 6)
      <4>1. k - 6 \in 1..T /\ 6 + (k - 6) = k
        BY <3>3, <1>1
      <4>2. s[k] = Tally(kind)[k - 6]
        BY <4>1, <2>1
      <4>3. Placed(kind, k, Tally(kind)[k - 6])
        BY <4>1, <1>7, <2>2
      <4>. QED
        BY <4>2, <4>3
    <3>4. CASE k \in (T + 12)..(T + Gates + 11)
      <4>1. k - T - 11 \in 1..Gates /\ T + 11 + (k - T - 11) = k
        BY <3>4, <1>1
      <4>2. s[k] = Step("append", Compact)
        BY <4>1, <2>1
      <4>. QED
        BY <4>2, <3>4, <1>0, <1>1, <1>2
    <3>. QED
      BY <3>1, <3>2, <3>3, <3>4, <1>1
  <2>5. ASSUME NEW i \in 1..Gates PROVE s[AppendAt(kind, i)] = Step("append", Journal)
    <3>1. 6 + (AppendAt(kind, i) - NewAt(kind)) = AppendAt(kind, i)
      BY <2>2, <1>1, Positions
    <3>. QED
      BY <3>1, <2>1, <1>7
  <2>6. ASSUME NEW f \in CreatedFiles(kind)
        PROVE  \E k \in 1..ReleaseAt(kind) : s[k].op = "create" /\ s[k].file = f
    <3>1. f \in {"ballot_public_proofs.json", "final_release.json",
                 "local_admission_board.json"}
      BY <2>6, <1>9 DEF CreatedFiles, Hashed, Setup, Journal
    <3>2. /\ s[2].op = "create" /\ s[2].file = "ballot_public_proofs.json"
          /\ s[5].op = "create" /\ s[5].file = "local_admission_board.json"
          /\ s[T + 7].op = "create" /\ s[T + 7].file = "final_release.json"
      BY <2>1, <2>8, <1>5 DEF Step, ChildStep
    <3>3. {2, 5, T + 7} \subseteq 1..ReleaseAt(kind)
      BY <2>2, <1>1
    <3>. QED
      BY <3>1, <3>2, <3>3
  <2>7. s[HashAt(kind)].op = "hash"
    BY <2>1, <2>2 DEF Step
  <2>. QED
    BY <2>1, <2>2, <2>4, <2>5, <2>6, <2>7, <2>8, <1>5, <1>9 DEF OracleAt, OracleFile, s
<1>. QED
  BY <1>8, <1>9

-----------------------------------------------------------------------------
(* The invariant                                                           *)

Kind(p) == job[p].kind
OracleDir(p) == job[p].oracle

\* The journal after n gates, and when that is what p has written of it.
Prefix(p, n) == [k \in 1..n |-> p]
Appended(p, n) ==
  /\ NewAt(Kind(p)) < at[p]
  /\ n > 0 => AppendAt(Kind(p), n) < at[p]
  /\ n < Gates => at[p] <= AppendAt(Kind(p), n + 1)

\* The author has replaced the journal of a complete run by its compact form.
Dropped(p) ==
  /\ at[p] > ManifestAt(Kind(p))
  /\ OnChain(p)
  /\ files[RunDir(p)][Journal] = None
  /\ Unpack(files[RunDir(p)][Compact]) = CompleteJournal(p)

\* Every file p has created is still there, and the journal is as long as p made
\* it.
SetupOf(p) == at[p] > 1 => files[RunDir(p)][Setup] = <<p>>
CreatedBy(p) ==
  \A k \in 1..(at[p] - 1) :
    Script[Kind(p)][k].op = "create" =>
      files[RunDir(p)][Script[Kind(p)][k].file] = <<p>>
OracleOf(p) == at[p] > OracleAt => files[OracleDir(p)][OracleFile] = <<p>>
JournalOfRun(p) ==
  \A n \in 0..Gates :
    Appended(p, n) => files[RunDir(p)][Journal] = Prefix(p, n) \/ Dropped(p)
DiskOf(p) == SetupOf(p) /\ CreatedBy(p) /\ OracleOf(p) /\ JournalOfRun(p)

\* What p knows and what it has made of its poll.
CompleteTranscript(p) ==
  [setup |-> p, board |-> p, journal |-> CompleteJournal(p), release |-> p]
TranscriptOf(p) == at[p] > HashAt(Kind(p)) => transcript[p] = CompleteTranscript(p)
TransactionOf(p) ==
  /\ tx[p].state # "none" => tx[p].call \in {"deploy", "submit", "claim"}
  /\ tx[p].call \in {"deploy", "submit", "claim"} =>
       at[p] <= ManifestAt(Kind(p)) /\ Script[Kind(p)][at[p]].op = tx[p].call
  /\ tx[p].call = "claim" => tx[p].argument.transcript = CompleteTranscript(p)
  /\ tx[p].call = "claim" /\ tx[p].state = "mined" => poll[p].phase = "Claimed"
PollOf(p) ==
  /\ poll[p].phase \in {"Sealed", "Claimed"} => poll[p].acceptedBallotCount = N
  /\ OnChain(p) /\ at[p] > ClaimAt(Kind(p)) => poll[p].phase = "Claimed"
  /\ poll[p].phase = "Claimed" =>
       /\ OnChain(p) /\ at[p] >= ClaimAt(Kind(p))
       /\ poll[p].backendTranscriptHash = CompleteTranscript(p)
       /\ poll[p].outcomeBit = Decision[p]
MemoryOf(p) == TranscriptOf(p) /\ TransactionOf(p) /\ PollOf(p)

\* A manifest is the one its process writes when every step before it is done,
\* and a replay repeats it.
CompleteManifest(p) ==
  [by |-> p, kind |-> Kind(p), resultBit |-> Decision[p],
   transcriptHash |-> CompleteTranscript(p),
   hashes |-> [f \in Hashed(Kind(p)) |-> IF f = Journal THEN CompleteJournal(p) ELSE <<p>>]]
ManifestOfRun(d) ==
  manifest[d] # None =>
    \E p \in Processes :
      RunDir(p) = d /\ at[p] > ManifestAt(Kind(p)) /\ manifest[d] = CompleteManifest(p)
ReplayOf(d) ==
  publicReplay[d] # None =>
    /\ manifest[d] # None
    /\ publicReplay[d] = [transcriptHash |-> manifest[d].transcriptHash,
                          resultBit |-> manifest[d].resultBit]
ReadersInv == \A d \in Directories : ManifestOfRun(d) /\ ReplayOf(d)

PollFields ==
  {"phase", "config", "acceptedBallotCount", "accumulator", "ballotSetCommitment",
   "backendTranscriptHash", "outcomeBit", "usedNullifiers"}
ShapeInv ==
  /\ DOMAIN poll = Processes /\ \A p \in Processes : DOMAIN poll[p] = PollFields
  /\ DOMAIN tx = Processes /\ \A p \in Processes : DOMAIN tx[p] = {"call", "argument", "state"}
  /\ DOMAIN transcript = Processes
  /\ DOMAIN manifest = Directories /\ DOMAIN publicReplay = Directories
  /\ \A p \in Processes : at[p] \in 1..(ManifestAt(Kind(p)) + 1)

Evidence ==
  /\ ShapeInv
  /\ ReadersInv
  /\ \A p \in Processes : DiskOf(p) /\ MemoryOf(p)

\* The inductive invariant.
EInv == IInv /\ Evidence

-----------------------------------------------------------------------------
(* The disk                                                                *)

\* What a process is at, and the rest of a position.
LEMMA CurrentPosition ==
  ASSUME EInv, NEW p \in Processes, NEW op, At(p, op)
  PROVE  /\ Kind(p) \in Kinds
         /\ at[p] \in 1..ManifestAt(Kind(p))
         /\ Script[Kind(p)][at[p]].op = op
         /\ Script[Kind(p)][at[p]].file = File(p)
         /\ Placed(Kind(p), at[p], Script[Kind(p)][at[p]])
<1>1. Kind(p) \in Kinds
  BY DirectoriesOf DEF EInv, IInv, ProcessInv, Kind
<1>2. status[p] \in Stepping
  BY DEF At, Stepping
<1>3. at[p] \in 1..Len(Script[Kind(p)])
  BY <1>2 DEF EInv, IInv, ProcessInv, Kind
<1>. QED
  BY <1>1, <1>3, ScriptAt DEF At, File, Kind

LEMMA CreateStep ==
  ASSUME NEW kind \in Kinds, NEW k \in 1..ManifestAt(kind), Script[kind][k].op = "create"
  PROVE  Script[kind][k].file \in Names \ Streams
<1>1. k \in 1..Len(Script[kind]) /\ Placed(kind, k, Script[kind][k])
  BY ScriptAt
<1>2. Script[kind][k] \in Steps
  BY <1>1, ScriptSteps, ElementOfSeq
<1>. QED
  BY <1>1, <1>2 DEF Placed, Steps, WritingOps

LEMMA SetupIsNoStream == Setup \in Names \ Streams
BY FixedNamesAreNames DEF FixedNames, Streams, Setup, Journal, Compact, NativeRecords

\* What p has written is kept: its files and its journal, or the compact form.
Keeps(p) ==
  /\ \A g \in Names \ Streams :
       files[RunDir(p)][g] = <<p>> => files'[RunDir(p)][g] = <<p>>
  /\ \/ /\ files'[RunDir(p)][Journal] = files[RunDir(p)][Journal]
        /\ Dropped(p) => files'[RunDir(p)][Compact] = files[RunDir(p)][Compact]
     \/ Dropped(p)'

LEMMA KeptStep ==
  ASSUME NEW p \in Processes, EInv, job' = job, at'[p] = at[p],
         at[p] > 1 => Keeps(p),
         at[p] > OracleAt =>
           files'[OracleDir(p)][OracleFile] = files[OracleDir(p)][OracleFile]
  PROVE  DiskOf(p)'
<1>1. Kind(p) \in Kinds /\ at[p] \in 1..(ManifestAt(Kind(p)) + 1) /\ ManifestAt(Kind(p)) \in Nat
  BY DirectoriesOf, Positions DEF EInv, Evidence, ShapeInv, IInv, ProcessInv, Kind
<1>2. SetupOf(p) /\ CreatedBy(p) /\ OracleOf(p) /\ JournalOfRun(p)
  BY DEF EInv, Evidence, DiskOf
<1>3. Kind(p)' = Kind(p) /\ RunDir(p)' = RunDir(p) /\ OracleDir(p)' = OracleDir(p)
      /\ OnChain(p)' = OnChain(p)
  BY DEF Kind, RunDir, OracleDir, OnChain
<1>4. SetupOf(p)'
  BY <1>2, <1>3, SetupIsNoStream DEF SetupOf, Keeps
<1>5. CreatedBy(p)'
  <2>. SUFFICES ASSUME NEW k \in 1..(at[p] - 1), Script[Kind(p)][k].op = "create"
                PROVE  files'[RunDir(p)][Script[Kind(p)][k].file] = <<p>>
    BY <1>3, Zenon DEF CreatedBy
  <2>1. files[RunDir(p)][Script[Kind(p)][k].file] = <<p>>
    BY <1>2, Zenon DEF CreatedBy
  <2>2. k \in 1..ManifestAt(Kind(p)) /\ at[p] > 1
    BY <1>1
  <2>3. Script[Kind(p)][k].file \in Names \ Streams
    BY <1>1, <2>2, CreateStep
  <2>. QED
    BY <2>1, <2>2, <2>3 DEF Keeps
<1>6. OracleOf(p)'
  BY <1>2, <1>3 DEF OracleOf
<1>7. JournalOfRun(p)'
  <2>. SUFFICES ASSUME NEW n \in 0..Gates, Appended(p, n)
                PROVE  files'[RunDir(p)][Journal] = Prefix(p, n) \/ Dropped(p)'
    BY <1>3 DEF JournalOfRun, Prefix, Appended
  <2>1. at[p] > 1
    BY <1>1, Positions DEF Appended, OracleAt
  <2>2. files[RunDir(p)][Journal] = Prefix(p, n) \/ Dropped(p)
    BY <1>2 DEF JournalOfRun
  <2>3. CASE Dropped(p)'
    BY <2>3
  <2>4. CASE /\ files'[RunDir(p)][Journal] = files[RunDir(p)][Journal]
             /\ Dropped(p) => files'[RunDir(p)][Compact] = files[RunDir(p)][Compact]
    <3>1. Dropped(p) => Dropped(p)'
      BY <1>3, <2>4 DEF Dropped, Unpack, CompleteJournal
    <3>. QED
      BY <2>2, <2>4, <3>1
  <2>. QED
    BY <2>1, <2>3, <2>4 DEF Keeps
<1>. QED
  BY <1>4, <1>5, <1>6, <1>7 DEF DiskOf

\* A file a process has written is not missing.
LEMMA WrittenIsPresent == \A p \in Processes : <<p>> # None
<1>1. \A p \in Processes : <<p>> \in Seq(Processes \cup {Magic})
  OBVIOUS
<1>. QED
  BY <1>1, RunAssumption

\* The directories of two processes of which one has written its setup and the
\* other is about to write, or has written its own.
LEMMA OtherRun ==
  ASSUME EInv, NEW p \in Processes, NEW q \in Processes, p # q, at[p] > 1,
         files[RunDir(q)][Setup] \in {None, <<q>>}
  PROVE  RunDir(p) # RunDir(q)
<1>1. files[RunDir(p)][Setup] = <<p>>
  BY DEF EInv, Evidence, DiskOf, SetupOf
<1>2. <<p>> # None /\ <<p>> # <<q>>
  BY WrittenIsPresent
<1>. QED
  BY <1>1, <1>2

\* How much of the journal is written, before and after a step.
LEMMA NotAppended ==
  ASSUME EInv, NEW p \in Processes, job' = job, at'[p] = at[p] + 1,
         at[p] # NewAt(Kind(p)), \A i \in 1..Gates : at[p] # AppendAt(Kind(p), i),
         NEW n \in 0..Gates, Appended(p, n)'
  PROVE  Appended(p, n)
<1>1. Kind(p) \in Kinds /\ at[p] \in Nat /\ Kind(p)' = Kind(p) /\ Gates \in Nat
  BY DirectoriesOf, RunAssumption DEF EInv, IInv, ProcessInv, Kind
<1>2. NewAt(Kind(p)) \in Nat /\ \A i \in 1..Gates : AppendAt(Kind(p), i) \in Nat
  BY <1>1, Positions
<1>. QED
  BY <1>1, <1>2 DEF Appended

LEMMA JustOpened ==
  ASSUME EInv, NEW p \in Processes, job' = job, at'[p] = at[p] + 1,
         at[p] = NewAt(Kind(p)), NEW n \in 0..Gates, Appended(p, n)'
  PROVE  n = 0
<1>1. Kind(p) \in Kinds /\ at[p] \in Nat /\ Kind(p)' = Kind(p) /\ Gates \in Nat
  BY DirectoriesOf, RunAssumption DEF EInv, IInv, ProcessInv, Kind
<1>2. \A i \in 1..Gates : AppendAt(Kind(p), i) \in Nat /\ NewAt(Kind(p)) < AppendAt(Kind(p), i)
  BY <1>1, Positions
<1>. QED
  BY <1>1, <1>2 DEF Appended

LEMMA JustAppended ==
  ASSUME EInv, NEW p \in Processes, job' = job, at'[p] = at[p] + 1,
         NEW i \in 1..Gates, at[p] = AppendAt(Kind(p), i)
  PROVE  /\ Appended(p, i - 1)
         /\ \A n \in 0..Gates : Appended(p, n)' => n = i
<1>1. Kind(p) \in Kinds /\ at[p] \in Nat /\ Kind(p)' = Kind(p) /\ Gates \in Nat
  BY DirectoriesOf, RunAssumption DEF EInv, IInv, ProcessInv, Kind
<1>2. /\ NewAt(Kind(p)) \in Nat
      /\ \A j \in 1..Gates : AppendAt(Kind(p), j) \in Nat /\ NewAt(Kind(p)) < AppendAt(Kind(p), j)
      /\ \A j, k \in 1..Gates : j < k => AppendAt(Kind(p), j) < AppendAt(Kind(p), k)
  BY <1>1, Positions
<1>3. Appended(p, i - 1)
  <2>1. i - 1 > 0 => i - 1 \in 1..Gates /\ i - 1 < i
    BY <1>1
  <2>2. (i - 1) + 1 = i
    OBVIOUS
  <2>. QED
    BY <1>1, <1>2, <2>1, <2>2 DEF Appended
<1>4. ASSUME NEW n \in 0..Gates, Appended(p, n)' PROVE n = i
  <2>1. n > 0 => AppendAt(Kind(p), n) < AppendAt(Kind(p), i) + 1
    BY <1>1, <1>4 DEF Appended
  <2>2. n < Gates => AppendAt(Kind(p), i) + 1 <= AppendAt(Kind(p), n + 1)
    BY <1>1, <1>4 DEF Appended
  <2>3. ~(n > i)
    BY <1>1, <1>2, <2>1
  <2>4. ~(n < i)
    <3>1. SUFFICES ASSUME n < i PROVE FALSE
      OBVIOUS
    <3>2. n + 1 \in 1..Gates /\ (n + 1 = i \/ n + 1 < i) /\ n < Gates
      BY <1>1, <3>1
    <3>. QED
      BY <1>1, <1>2, <2>2, <3>2
  <2>. QED
    BY <1>1, <2>3, <2>4
<1>. QED
  BY <1>3, <1>4

\* A step of p and what it wrote, if anything.
LEMMA OwnStep ==
  ASSUME EInv, NEW p \in Processes, NEW op, At(p, op), job' = job, at'[p] = at[p] + 1,
         files[RunDir(p)][Setup] = <<p>>,
         \A g \in Names \ Streams :
           files[RunDir(p)][g] = <<p>> => files'[RunDir(p)][g] = <<p>>,
         op = "create" => files'[RunDir(p)][File(p)] = <<p>>,
         files'[OracleDir(p)][OracleFile] =
           IF op = "oracle" THEN <<p>> ELSE files[OracleDir(p)][OracleFile],
         files'[RunDir(p)][Journal] =
           IF op = "new" /\ File(p) = Journal THEN <<>>
           ELSE IF op = "append" /\ File(p) = Journal THEN Append(files[RunDir(p)][Journal], p)
           ELSE files[RunDir(p)][Journal]
  PROVE  DiskOf(p)'
<1>. DEFINE k == Kind(p)
            d == RunDir(p)
            script == Script[k]
<1>1. /\ k \in Kinds /\ at[p] \in 1..ManifestAt(k) /\ ManifestAt(k) \in Nat
      /\ script[at[p]].op = op /\ script[at[p]].file = File(p)
      /\ Placed(k, at[p], script[at[p]])
  BY CurrentPosition, Positions
<1>2. DiskOf(p)
  BY DEF EInv, Evidence
<1>3. Kind(p)' = k /\ RunDir(p)' = d /\ OracleDir(p)' = OracleDir(p)
  BY DEF Kind, RunDir, OracleDir
<1>4. Gates \in Nat
  BY RunAssumption
<1>5. SetupOf(p)'
  BY <1>3, SetupIsNoStream DEF SetupOf
<1>6. CreatedBy(p)'
  <2>. SUFFICES ASSUME NEW j \in 1..(at'[p] - 1), script[j].op = "create"
                PROVE  files'[d][script[j].file] = <<p>>
    BY <1>3, Zenon DEF CreatedBy
  <2>0. j \in 1..at[p]
    BY <1>1
  <2>1. CASE j = at[p]
    BY <2>1, <1>1
  <2>2. CASE j # at[p]
    <3>1. files[d][script[j].file] = <<p>>
      <4>1. j \in 1..(at[p] - 1)
        BY <2>0, <2>2, <1>1
      <4>2. CreatedBy(p)
        BY <1>2 DEF DiskOf
      <4>. QED
        BY <4>1, <4>2, Zenon DEF CreatedBy
    <3>2. script[j].file \in Names \ Streams
      BY <2>0, <1>1, CreateStep
    <3>. QED
      BY <3>1, <3>2
  <2>. QED
    BY <2>1, <2>2
<1>7. OracleOf(p)'
  <2>1. at[p] = OracleAt => op = "oracle"
    BY <1>1, ScriptAt DEF ChildStep
  <2>. QED
    BY <2>1, <1>1, <1>2, <1>3 DEF OracleOf, DiskOf, OracleAt
<1>8. JournalOfRun(p)'
  <2>. SUFFICES ASSUME NEW n \in 0..Gates, Appended(p, n)'
                PROVE  files'[d][Journal] = Prefix(p, n)
    BY <1>3 DEF JournalOfRun, Prefix
  <2>1. ~Dropped(p)
    BY <1>1 DEF Dropped
  <2>2. /\ script[NewAt(k)] = Step("new", Journal)
        /\ \A i \in 1..Gates : script[AppendAt(k, i)] = Step("append", Journal)
    BY <1>1, ScriptAt
  <2>3. CASE op = "new" /\ File(p) = Journal
    <3>1. at[p] = NewAt(k)
      BY <1>1, <2>3 DEF Placed
    <3>2. n = 0
      BY <3>1, JustOpened
    <3>3. Prefix(p, 0) = <<>>
      BY DEF Prefix
    <3>. QED
      BY <2>3, <3>2, <3>3
  <2>4. CASE op = "append" /\ File(p) = Journal
    <3>1. PICK i \in 1..Gates : at[p] = AppendAt(k, i)
      BY <1>1, <2>4 DEF Placed
    <3>2. Appended(p, i - 1) /\ n = i
      BY <3>1, JustAppended
    <3>3. files[d][Journal] = Prefix(p, i - 1)
      BY <3>1, <3>2, <1>2, <1>4, <2>1 DEF DiskOf, JournalOfRun
    <3>4. Append(Prefix(p, i - 1), p) = Prefix(p, i)
      <4>1. i - 1 \in Nat /\ i \in Nat
        OBVIOUS
      <4>2. Prefix(p, i - 1) \in Seq(Processes) /\ Len(Prefix(p, i - 1)) = i - 1
        BY <4>1, FunctionIsSeq DEF Prefix
      <4>3. Prefix(p, i) \in Seq(Processes) /\ Len(Prefix(p, i)) = i
        BY <4>1, FunctionIsSeq DEF Prefix
      <4>4. \A j \in 1..i : Append(Prefix(p, i - 1), p)[j] = Prefix(p, i)[j]
        BY <4>1, <4>2 DEF Prefix
      <4>. QED
        BY <4>2, <4>3, <4>4, SeqEqual
    <3>. QED
      BY <2>4, <3>2, <3>3, <3>4
  <2>5. CASE ~(op \in {"new", "append"} /\ File(p) = Journal)
    <3>1. at[p] # NewAt(k) /\ \A i \in 1..Gates : at[p] # AppendAt(k, i)
      BY <1>1, <2>2, <2>5 DEF Step
    <3>2. Appended(p, n)
      BY <3>1, NotAppended
    <3>. QED
      BY <2>1, <2>5, <3>2, <1>2 DEF DiskOf, JournalOfRun
  <2>. QED
    BY <2>3, <2>4, <2>5
<1>. QED
  BY <1>5, <1>6, <1>7, <1>8 DEF DiskOf

\* A step writes to none of the files of q.
LEMMA ElsewhereStep ==
  ASSUME EInv, NEW q \in Processes, job' = job, at'[q] = at[q],
         at[q] > 1 => files'[RunDir(q)] = files[RunDir(q)],
         at[q] > OracleAt =>
           files'[OracleDir(q)][OracleFile] = files[OracleDir(q)][OracleFile]
  PROVE  DiskOf(q)'
<1>1. at[q] > 1 => Keeps(q)
  BY DEF Keeps
<1>. QED
  BY <1>1, KeptStep

LEMMA WriteFileDisk ==
  ASSUME EInv, NEW p \in Processes, WriteFile(p), NEW q \in Processes
  PROVE  DiskOf(q)'
<1>1. PICK op \in {"create", "oracle", "new", "truncate", "magic", "append", "unlink"} :
        LET d == IF op = "oracle" THEN job[p].oracle ELSE RunDir(p)
        IN /\ At(p, op)
           /\ op \in {"create", "oracle", "new"} => Absent(d, File(p))
           /\ op \in {"magic", "append", "unlink"} => files[d][File(p)] # None
           /\ Put(d, File(p), Written(p, op, files[d][File(p)]))
           /\ Advance(p)
           /\ UNCHANGED <<contractVars, job, tx, transcript, dirs, manifest>>
  BY DEF WriteFile
<1>. DEFINE d == IF op = "oracle" THEN OracleDir(p) ELSE RunDir(p)
            content == Written(p, op, files[d][File(p)])
<1>2. /\ At(p, op) /\ job' = job
      /\ op \in {"create", "oracle", "new"} => files[d][File(p)] = None
      /\ files' = [files EXCEPT ![d][File(p)] = content]
  BY <1>1 DEF OracleDir, Absent, Put
<1>3. at' = [at EXCEPT ![p] = at[p] + 1] /\ at \in [Processes -> Nat]
  BY <1>1 DEF Advance, EInv, IInv, ProcessInv
<1>4. /\ \A x \in Processes : RunDir(x) \in RunDirs /\ RunDir(x) \in Directories
                              /\ OracleDir(x) \in Directories \ RunDirs
      /\ files \in [Directories -> [Names -> Contents \cup {None}]]
      /\ Setup \in Names /\ OracleFile \in Names /\ Journal \in Names
  BY DirectoriesOf, FixedNamesAreNames
  DEF EInv, IInv, ProcessInv, DiskInv, OracleDir, FixedNames, Setup, OracleFile, Journal
<1>5. /\ files[RunDir(p)][Setup] = <<p>>
      /\ File(p) \in Names \ {Setup} /\ (op = "oracle" => File(p) = OracleFile)
  BY <1>2, <1>4, CurrentStep, FixedNamesAreNames
  DEF EInv, WritingOps, OracleFile, Setup, FixedNames
<1>6. /\ op \in StreamOps => File(p) \in Streams
      /\ op = "create" => File(p) \notin Streams
      /\ op \in StreamOps \ {"new", "append"} => File(p) # Journal
  BY <1>2, CurrentPosition DEF Placed
<1>7. d \in Directories
  BY <1>4
<1>8. /\ files'[d][File(p)] = content
      /\ \A e \in Directories, g \in Names :
           e # d \/ g # File(p) => files'[e][g] = files[e][g]
      /\ \A e \in Directories : e # d => files'[e] = files[e]
  BY <1>2, <1>4, <1>5, <1>7
<1>9. CASE q = p
  <2>1. ASSUME NEW g \in Names \ Streams, files[RunDir(p)][g] = <<p>>
        PROVE  files'[RunDir(p)][g] = <<p>>
    <3>1. CASE RunDir(p) # d \/ g # File(p)
      BY <2>1, <3>1, <1>4, <1>8
    <3>2. CASE RunDir(p) = d /\ g = File(p)
      <4>1. op = "create"
        BY <3>2, <2>1, <1>4, <1>6 DEF StreamOps
      <4>2. content = <<p>>
        BY <4>1 DEF Written
      <4>. QED
        BY <4>2, <3>2, <1>8
    <3>. QED
      BY <3>1, <3>2
  <2>2. op = "create" => files'[RunDir(p)][File(p)] = <<p>>
    BY <1>8 DEF Written
  <2>3. files'[OracleDir(p)][OracleFile] =
          IF op = "oracle" THEN <<p>> ELSE files[OracleDir(p)][OracleFile]
    <3>1. CASE op = "oracle"
      <4>1. content = <<p>> /\ d = OracleDir(p)
        BY <3>1 DEF Written
      <4>. QED
        BY <3>1, <4>1, <1>5, <1>8
    <3>2. CASE op # "oracle"
      BY <3>2, <1>4, <1>8
    <3>. QED
      BY <3>1, <3>2
  <2>4. files'[RunDir(p)][Journal] =
          IF op = "new" /\ File(p) = Journal THEN <<>>
          ELSE IF op = "append" /\ File(p) = Journal THEN Append(files[RunDir(p)][Journal], p)
          ELSE files[RunDir(p)][Journal]
    <3>1. CASE op = "oracle"
      BY <3>1, <1>4, <1>8
    <3>2. CASE op # "oracle" /\ File(p) # Journal
      BY <3>2, <1>4, <1>8
    <3>3. CASE op # "oracle" /\ File(p) = Journal
      <4>1. op \in {"new", "append"}
        BY <3>3, <1>6 DEF StreamOps, Streams
      <4>2. d = RunDir(p)
        BY <3>3
      <4>. QED
        BY <3>3, <4>1, <4>2, <1>8 DEF Written
    <3>. QED
      BY <3>1, <3>2, <3>3
  <2>5. at'[p] = at[p] + 1
    BY <1>3
  <2>. HIDE DEF d, content
  <2>. QED
    BY <1>2, <1>5, <1>9, <2>1, <2>2, <2>3, <2>4, <2>5, OwnStep
<1>10. CASE q # p
  <2>1. at'[q] = at[q]
    BY <1>3, <1>10
  <2>2. at[q] > 1 => files'[RunDir(q)] = files[RunDir(q)]
    <3>1. CASE op = "oracle"
      BY <3>1, <1>4, <1>8
    <3>2. CASE op # "oracle"
      <4>1. at[q] > 1 => RunDir(q) # RunDir(p)
        BY <1>5, <1>10, OtherRun
      <4>. QED
        BY <3>2, <4>1, <1>4, <1>8
    <3>. QED
      BY <3>1, <3>2
  <2>3. ASSUME at[q] > OracleAt
        PROVE  files'[OracleDir(q)][OracleFile] = files[OracleDir(q)][OracleFile]
    <3>1. files[OracleDir(q)][OracleFile] = <<q>>
      BY <2>3 DEF EInv, Evidence, DiskOf, OracleOf
    <3>2. <<q>> # None
      BY WrittenIsPresent
    <3>3. OracleDir(q) # d
      <4>1. CASE op = "oracle"
        BY <4>1, <3>1, <3>2, <1>2, <1>5
      <4>2. CASE op # "oracle"
        BY <4>2, <1>4
      <4>. QED
        BY <4>1, <4>2
    <3>. QED
      BY <3>3, <1>4, <1>8
  <2>. QED
    BY <1>2, <2>1, <2>2, <2>3, ElsewhereStep
<1>. QED
  BY <1>9, <1>10

\* A script goes on without touching a file.
LEMMA QuietStepDisk ==
  ASSUME EInv, NEW p \in Processes, NEW op \in {"mkdir", "empty", "complete", "hash", "deploy",
                                                "submit", "claim"},
         At(p, op), Advance(p), job' = job, files' = files, NEW q \in Processes
  PROVE  DiskOf(q)'
<1>1. at' = [at EXCEPT ![p] = at[p] + 1] /\ at \in [Processes -> Nat]
  BY DEF Advance, EInv, IInv, ProcessInv
<1>2. CASE q = p
  <2>1. files[RunDir(p)][Setup] = <<p>>
    BY CurrentStep DEF EInv
  <2>2. at'[p] = at[p] + 1
    BY <1>1
  <2>. QED
    BY <2>1, <2>2, <1>2, OwnStep
<1>3. CASE q # p
  <2>1. at'[q] = at[q]
    BY <1>1, <1>3
  <2>. QED
    BY <2>1, ElsewhereStep
<1>. QED
  BY <1>2, <1>3

LEMMA WriteManifestDisk ==
  ASSUME EInv, NEW p \in Processes, WriteManifest(p), NEW q \in Processes
  PROVE  DiskOf(q)'
<1>. DEFINE d == RunDir(p)
            f == "manifest.json"
<1>1. /\ At(p, "manifest") /\ job' = job /\ files[d][f] = None
      /\ files' = [files EXCEPT ![d][f] = <<p>>]
      /\ at' = [at EXCEPT ![p] = at[p] + 1]
  BY DEF WriteManifest, Absent, Put, Advance
<1>2. /\ at \in [Processes -> Nat]
      /\ \A x \in Processes : RunDir(x) \in RunDirs /\ RunDir(x) \in Directories
                              /\ OracleDir(x) \in Directories \ RunDirs
      /\ files \in [Directories -> [Names -> Contents \cup {None}]]
  BY DirectoriesOf DEF EInv, IInv, ProcessInv, DiskInv, OracleDir
<1>3. f \in Names /\ f # Journal /\ Journal \in Names
  BY FixedNamesAreNames DEF FixedNames, Journal
<1>4. files[d][Setup] = <<p>>
  BY <1>1, CurrentStep DEF EInv
<1>5. /\ files'[d][f] = <<p>>
      /\ \A g \in Names : g # f => files'[d][g] = files[d][g]
      /\ \A e \in Directories : e # d => files'[e] = files[e]
  BY <1>1, <1>2, <1>3
<1>6. CASE q = p
  <2>1. \A g \in Names \ Streams : files[d][g] = <<p>> => files'[d][g] = <<p>>
    BY <1>5
  <2>2. files'[OracleDir(p)][OracleFile] = files[OracleDir(p)][OracleFile]
    BY <1>2, <1>5
  <2>3. files'[d][Journal] = files[d][Journal] /\ at'[p] = at[p] + 1
    BY <1>1, <1>2, <1>3, <1>5
  <2>. HIDE DEF f
  <2>. QED
    BY <1>1, <1>4, <1>6, <2>1, <2>2, <2>3, OwnStep
<1>7. CASE q # p
  <2>1. at'[q] = at[q]
    BY <1>1, <1>2, <1>7
  <2>2. at[q] > 1 => RunDir(q) # d
    BY <1>4, <1>7, OtherRun
  <2>. QED
    BY <1>1, <1>2, <1>5, <2>1, <2>2, ElsewhereStep
<1>. QED
  BY <1>6, <1>7

\* Whose directory it is that a process writes its setup to.
LEMMA WriteSetupDisk ==
  ASSUME EInv, NEW p \in Processes, WriteSetup(p), NEW q \in Processes
  PROVE  DiskOf(q)'
<1>. DEFINE d == RunDir(p)
<1>1. /\ status[p] = "setup" /\ job' = job /\ at' = at /\ files[d][Setup] = None
      /\ files' = [files EXCEPT ![d][Setup] = <<p>>]
  BY DEF WriteSetup, Absent, Put, Setup
<1>2. /\ at[p] = 1
      /\ \A x \in Processes : RunDir(x) \in RunDirs /\ RunDir(x) \in Directories
                              /\ OracleDir(x) \in Directories \ RunDirs
      /\ files \in [Directories -> [Names -> Contents \cup {None}]]
  BY <1>1, DirectoriesOf DEF EInv, IInv, ProcessInv, DiskInv, OracleDir, Before
<1>3. \A e \in Directories : e # d => files'[e] = files[e]
  BY <1>1, <1>2
<1>4. at[q] > 1 => RunDir(q) # d
  <2>1. CASE q = p
    BY <2>1, <1>2
  <2>2. CASE q # p
    BY <2>2, <1>1, OtherRun
  <2>. QED
    BY <2>1, <2>2
<1>. QED
  BY <1>1, <1>2, <1>3, <1>4, ElsewhereStep
LEMMA BallotChildFailsDisk ==
  ASSUME EInv, NEW p \in Processes, BallotChildFails(p), NEW q \in Processes
  PROVE  DiskOf(q)'
<1>. DEFINE d == RunDir(p)
            f == "ballot_generation.log"
<1>1. status[p] = "steps" /\ job' = job /\ at' = at
  BY DEF BallotChildFails
<1>2. /\ \A x \in Processes : RunDir(x) \in RunDirs /\ RunDir(x) \in Directories
                              /\ OracleDir(x) \in Directories \ RunDirs
      /\ files \in [Directories -> [Names -> Contents \cup {None}]]
  BY DirectoriesOf DEF EInv, IInv, ProcessInv, DiskInv, OracleDir
<1>3. CASE ~OnChain(p)
  <2>1. files' = files
    BY <1>3 DEF BallotChildFails
  <2>. QED
    BY <1>1, <2>1, ElsewhereStep
<1>4. CASE OnChain(p)
  <2>1. files[d][f] = None /\ files' = [files EXCEPT ![d][f] = <<p>>]
    BY <1>4 DEF BallotChildFails, Absent, Put
  <2>2. f \in Names /\ f \notin Streams
    BY FixedNamesAreNames DEF FixedNames, Streams, Journal, Compact, NativeRecords
  <2>3. /\ \A e \in Directories : e # d => files'[e] = files[e]
        /\ \A g \in Names : g # f => files'[d][g] = files[d][g]
        /\ files'[d][f] = <<p>>
    BY <1>2, <2>1, <2>2
  <2>4. files[d][Setup] = <<p>>
    BY <1>1 DEF EInv, IInv, ProcessInv, Stepping
  <2>5. CASE q # p
    <3>1. at[q] > 1 => RunDir(q) # d
      BY <2>4, <2>5, OtherRun
    <3>. QED
      BY <1>1, <1>2, <2>3, <3>1, ElsewhereStep
  <2>6. CASE q = p
    <3>1. Journal \in Names /\ Compact \in Names /\ Journal # f /\ Compact # f
      BY FixedNamesAreNames DEF FixedNames, Journal, Compact
    <3>. HIDE DEF f
    <3>2. Keeps(p)
      BY <2>2, <2>3, <3>1 DEF Keeps
    <3>3. files'[OracleDir(p)][OracleFile] = files[OracleDir(p)][OracleFile]
      BY <1>2, <2>3
    <3>. QED
      BY <1>1, <2>6, <3>2, <3>3, KeptStep
  <2>. QED
    BY <2>5, <2>6
<1>. QED
  BY <1>3, <1>4

\* Packing by hand: the compact form is new, and the journal still there.
LEMMA PackByHandDisk ==
  ASSUME EInv, NEW d \in Directories, PackByHand(d), NEW q \in Processes
  PROVE  DiskOf(q)'
<1>1. /\ job' = job /\ at' = at
      /\ files[d][Journal] # None
  BY DEF PackByHand, processVars
<1>2. PICK n \in 0..Len(files[d][Journal]) :
        files' = [files EXCEPT ![d][Compact] = <<Magic>> \o SubSeq(files[d][Journal], 1, n)]
  BY DEF PackByHand, Put
<1>3. /\ RunDir(q) \in RunDirs /\ RunDir(q) \in Directories
      /\ OracleDir(q) \in Directories \ RunDirs
      /\ files \in [Directories -> [Names -> Contents \cup {None}]]
  BY DirectoriesOf DEF EInv, IInv, ProcessInv, DiskInv, OracleDir
<1>4. /\ Compact \in Streams /\ Journal # Compact /\ Journal \in Names /\ Compact \in Names
      /\ OracleFile # Compact /\ OracleFile \in Names
  BY FixedNamesAreNames DEF FixedNames, Streams, Journal, Compact, OracleFile
<1>5. \A e \in Directories, g \in Names : e # d \/ g # Compact => files'[e][g] = files[e][g]
  BY <1>2, <1>3, <1>4
<1>6. Keeps(q)
  <2>1. \A g \in Names \ Streams :
          files[RunDir(q)][g] = <<q>> => files'[RunDir(q)][g] = <<q>>
    BY <1>3, <1>4, <1>5
  <2>2. files'[RunDir(q)][Journal] = files[RunDir(q)][Journal]
    BY <1>3, <1>4, <1>5
  <2>3. Dropped(q) => files'[RunDir(q)][Compact] = files[RunDir(q)][Compact]
    BY <1>1, <1>3, <1>4, <1>5 DEF Dropped
  <2>. QED
    BY <2>1, <2>2, <2>3 DEF Keeps
<1>7. files'[OracleDir(q)][OracleFile] = files[OracleDir(q)][OracleFile]
  BY <1>3, <1>4, <1>5
<1>. QED
  BY <1>1, <1>6, <1>7, KeptStep

\* The journal of a run with a manifest is dropped for a compact form of all of it.
LEMMA DropJournalDisk ==
  ASSUME EInv, NEW d \in Directories, DropJournal(d), NEW q \in Processes
  PROVE  DiskOf(q)'
<1>1. /\ job' = job /\ at' = at /\ manifest[d] # None
      /\ manifest[d].kind \in OnChainKinds
      /\ Unpack(files[d][Compact]) = manifest[d].hashes[Journal]
      /\ files' = [files EXCEPT ![d][Journal] = None]
  BY DEF DropJournal, processVars, Put
<1>2. /\ RunDir(q) \in RunDirs /\ RunDir(q) \in Directories
      /\ OracleDir(q) \in Directories \ RunDirs
      /\ files \in [Directories -> [Names -> Contents \cup {None}]]
  BY DirectoriesOf DEF EInv, IInv, ProcessInv, DiskInv, OracleDir
<1>3. /\ Journal \in Streams /\ Journal # Compact /\ Journal \in Names /\ Compact \in Names
      /\ OracleFile # Journal /\ OracleFile \in Names
  BY FixedNamesAreNames DEF FixedNames, Streams, Journal, Compact, OracleFile
<1>4. /\ \A e \in Directories, g \in Names :
           e # d \/ g # Journal => files'[e][g] = files[e][g]
      /\ files'[d][Journal] = None
  BY <1>1, <1>2, <1>3
<1>5. PICK p \in Processes :
        RunDir(p) = d /\ at[p] > ManifestAt(Kind(p)) /\ manifest[d] = CompleteManifest(p)
  BY <1>1 DEF EInv, Evidence, ReadersInv, ManifestOfRun
<1>6. /\ Kind(p) \in OnChainKinds
      /\ Unpack(files[d][Compact]) = CompleteJournal(p)
  BY <1>1, <1>5 DEF CompleteManifest, Hashed
<1>7. Dropped(p)'
  BY <1>1, <1>2, <1>3, <1>4, <1>5, <1>6 DEF Dropped, Kind, OnChain, RunDir, Unpack, CompleteJournal
<1>8. at[q] > 1 => Keeps(q)
  <2>. SUFFICES ASSUME at[q] > 1 PROVE Keeps(q)
    OBVIOUS
  <2>1. \A g \in Names \ Streams :
          files[RunDir(q)][g] = <<q>> => files'[RunDir(q)][g] = <<q>>
    BY <1>2, <1>3, <1>4
  <2>2. CASE q = p
    BY <2>1, <2>2, <1>7 DEF Keeps
  <2>3. CASE q # p
    <3>1. at[p] > 1
      <4>1. at[p] \in Nat /\ Kind(p) \in Kinds
        BY DirectoriesOf DEF EInv, IInv, ProcessInv, Kind
      <4>. QED
        BY <1>5, <4>1, Positions DEF OracleAt
    <3>2. files[RunDir(p)][Setup] = <<p>>
      BY <3>1 DEF EInv, Evidence, DiskOf, SetupOf
    <3>3. RunDir(q) # d
      BY <1>5, <2>3, <3>2, OtherRun
    <3>4. /\ files'[RunDir(q)][Journal] = files[RunDir(q)][Journal]
          /\ files'[RunDir(q)][Compact] = files[RunDir(q)][Compact]
      BY <3>3, <1>2, <1>3, <1>4
    <3>. QED
      BY <2>1, <3>4 DEF Keeps
  <2>. QED
    BY <2>2, <2>3
<1>9. files'[OracleDir(q)][OracleFile] = files[OracleDir(q)][OracleFile]
  BY <1>2, <1>3, <1>4
<1>. QED
  BY <1>1, <1>8, <1>9, KeptStep

\* No step loses what a process has written.
LEMMA NextDisk ==
  ASSUME EInv, [Next]_vars, NEW q \in Processes
  PROVE  DiskOf(q)'
<1>1. ASSUME UNCHANGED <<job, at, files>> PROVE DiskOf(q)'
  BY <1>1, ElsewhereStep
<1>2. ASSUME NEW p \in Processes, ProcessStep(p) PROVE DiskOf(q)'
  <2>1. CASE Check(p) \/ MakeRunDirectory(p) \/ Send(p) \/ Stop(p)
    BY <2>1, <1>1 DEF Check, MakeRunDirectory, Send, Stop, diskVars
  <2>2. CASE WriteSetup(p)
    BY <2>2, WriteSetupDisk
  <2>3. CASE MakeOracleDirectory(p)
    BY <2>3, QuietStepDisk DEF MakeOracleDirectory
  <2>4. CASE WriteFile(p)
    BY <2>4, WriteFileDisk
  <2>5. CASE ReadJournal(p)
    BY <2>5, QuietStepDisk DEF ReadJournal, diskVars
  <2>6. CASE HashTranscript(p)
    BY <2>6, QuietStepDisk DEF HashTranscript, diskVars
  <2>7. CASE Receive(p)
    BY <2>7, QuietStepDisk DEF Receive, diskVars
  <2>8. CASE WriteManifest(p)
    BY <2>8, WriteManifestDisk
  <2>9. CASE BallotChildFails(p)
    BY <2>9, BallotChildFailsDisk
  <2>. QED
    BY <1>2, <2>1, <2>2, <2>3, <2>4, <2>5, <2>6, <2>7, <2>8, <2>9 DEF ProcessStep
<1>3. ASSUME NEW p \in Processes, Mine(p) \/ Revert(p) \/ Abandon(p) PROVE DiskOf(q)'
  BY <1>1, <1>3 DEF Mine, Revert, Abandon, processVars, diskVars
<1>4. CASE BlockTime
  BY <1>1, <1>4 DEF BlockTime, processVars, diskVars
<1>5. ASSUME NEW d \in Directories, Replay(d) \/ Compare(d) PROVE DiskOf(q)'
  BY <1>1, <1>5 DEF Replay, Compare, runVars, processVars, diskVars
<1>6. ASSUME NEW d \in Directories, PackByHand(d) PROVE DiskOf(q)'
  BY <1>6, PackByHandDisk
<1>7. ASSUME NEW d \in Directories, DropJournal(d) PROVE DiskOf(q)'
  BY <1>7, DropJournalDisk
<1>8. CASE UNCHANGED vars
  BY <1>1, <1>8 DEF vars, runVars, processVars, diskVars
<1>. QED
  BY <1>2, <1>3, <1>4, <1>5, <1>6, <1>7, <1>8 DEF Next, RunNext

-----------------------------------------------------------------------------
(* The memory of a process and its poll                                    *)

LEMMA MemoryKept ==
  ASSUME NEW p \in Processes, MemoryOf(p), job' = job, at'[p] = at[p],
         transcript'[p] = transcript[p], tx'[p] = tx[p], poll'[p] = poll[p]
  PROVE  MemoryOf(p)'
BY DEF MemoryOf, TranscriptOf, TransactionOf, PollOf, Kind, OnChain, CompleteTranscript,
       CompleteJournal

LEMMA ShapeOf ==
  ASSUME EInv
  PROVE  /\ at \in [Processes -> Nat] /\ DOMAIN tx = Processes
         /\ DOMAIN transcript = Processes /\ DOMAIN poll = Processes
         /\ \A p \in Processes : /\ MemoryOf(p) /\ DOMAIN poll[p] = PollFields
                                 /\ DOMAIN tx[p] = {"call", "argument", "state"}
                                 /\ Kind(p) \in Kinds
BY DirectoriesOf DEF EInv, Evidence, ShapeInv, IInv, ProcessInv, Kind

\* A step that neither hashes the transcript nor sends a transaction.
LEMMA AdvanceMemory ==
  ASSUME EInv, NEW p \in Processes, NEW op, At(p, op),
         op \notin {"hash", "deploy", "submit", "claim"}, job' = job,
         at'[p] = at[p] + 1, transcript'[p] = transcript[p], tx'[p] = tx[p],
         poll'[p] = poll[p]
  PROVE  MemoryOf(p)'
<1>1. /\ Kind(p) \in Kinds /\ at[p] \in 1..ManifestAt(Kind(p)) /\ ManifestAt(Kind(p)) \in Nat
      /\ HashAt(Kind(p)) \in Nat /\ ClaimAt(Kind(p)) \in Nat
      /\ Script[Kind(p)][at[p]].op = op
  BY CurrentPosition, Positions
<1>2. at[p] # HashAt(Kind(p)) /\ (OnChain(p) => at[p] # ClaimAt(Kind(p)))
  BY <1>1, ScriptAt DEF OnChain, Kind
<1>3. TranscriptOf(p) /\ TransactionOf(p) /\ PollOf(p)
  BY DEF EInv, Evidence, MemoryOf
<1>4. TranscriptOf(p)'
  BY <1>1, <1>2, <1>3 DEF TranscriptOf, Kind, CompleteTranscript, CompleteJournal
<1>5. TransactionOf(p)'
  BY <1>1, <1>3 DEF TransactionOf
<1>6. PollOf(p)'
  BY <1>1, <1>2, <1>3 DEF PollOf, Kind, OnChain, CompleteTranscript, CompleteJournal
<1>. QED
  BY <1>4, <1>5, <1>6 DEF MemoryOf

\* The journal that is hashed is complete.
LEMMA HashedJournal ==
  ASSUME EInv, NEW p \in Processes, At(p, "hash")
  PROVE  files[RunDir(p)][Journal] = CompleteJournal(p)
<1>1. /\ Kind(p) \in Kinds /\ at[p] \in 1..ManifestAt(Kind(p)) /\ ManifestAt(Kind(p)) \in Nat
      /\ at[p] = HashAt(Kind(p)) /\ Gates \in Nat \ {0}
  BY CurrentPosition, Positions, RunAssumption DEF Placed
<1>2. Appended(p, Gates)
  <2>1. /\ Gates \in 1..Gates
        /\ AppendAt(Kind(p), Gates) \in Nat /\ NewAt(Kind(p)) \in Nat
        /\ ReleaseAt(Kind(p)) \in Nat /\ HashAt(Kind(p)) \in Nat
        /\ NewAt(Kind(p)) < AppendAt(Kind(p), Gates)
        /\ AppendAt(Kind(p), Gates) < ReleaseAt(Kind(p))
        /\ ReleaseAt(Kind(p)) < HashAt(Kind(p))
    BY <1>1, Positions
  <2>. QED
    BY <1>1, <2>1 DEF Appended
<1>3. ~Dropped(p)
  BY <1>1 DEF Dropped
<1>4. JournalOfRun(p)
  BY DEF EInv, Evidence, DiskOf
<1>. QED
  BY <1>1, <1>2, <1>3, <1>4 DEF JournalOfRun, Prefix, CompleteJournal

LEMMA HashTranscriptMemory ==
  ASSUME EInv, NEW p \in Processes, HashTranscript(p)
  PROVE  MemoryOf(p)'
<1>1. /\ At(p, "hash") /\ job' = job /\ tx' = tx /\ poll' = poll
      /\ at' = [at EXCEPT ![p] = at[p] + 1]
      /\ transcript' = [transcript EXCEPT ![p] =
           [setup |-> p, board |-> p, journal |-> files[RunDir(p)][Journal], release |-> p]]
  BY DEF HashTranscript, Advance, contractVars
<1>2. /\ at'[p] = at[p] + 1
      /\ transcript'[p] =
           [setup |-> p, board |-> p, journal |-> files[RunDir(p)][Journal], release |-> p]
  BY <1>1, ShapeOf
<1>3. transcript'[p] = CompleteTranscript(p)
  BY <1>1, <1>2, HashedJournal DEF CompleteTranscript
<1>4. /\ Kind(p) \in Kinds /\ at[p] = HashAt(Kind(p)) /\ HashAt(Kind(p)) \in Nat
      /\ ClaimAt(Kind(p)) = HashAt(Kind(p)) + 1
      /\ Script[Kind(p)][at[p]].op = "hash"
  BY <1>1, CurrentPosition, Positions DEF Placed
<1>5. TransactionOf(p) /\ PollOf(p)
  BY DEF EInv, Evidence, MemoryOf
<1>6. TransactionOf(p)'
  BY <1>1, <1>4, <1>5 DEF TransactionOf
<1>7. TranscriptOf(p)'
  BY <1>1, <1>3 DEF TranscriptOf, CompleteTranscript, CompleteJournal
<1>8. PollOf(p)'
  BY <1>1, <1>2, <1>4, <1>5 DEF PollOf, Kind, OnChain, CompleteTranscript, CompleteJournal
<1>. QED
  BY <1>6, <1>7, <1>8 DEF MemoryOf

LEMMA SendMemory ==
  ASSUME EInv, NEW p \in Processes, Send(p)
  PROVE  MemoryOf(p)'
<1>1. /\ job' = job /\ at' = at /\ transcript' = transcript /\ poll' = poll
  BY DEF Send, contractVars
<1>2. PICK call \in {"deploy", "submit", "claim"} :
        /\ At(p, call)
        /\ tx' = [tx EXCEPT ![p] =
             [call |-> call, argument |-> Arguments(p)[call], state |-> "pending"]]
  BY DEF Send
<1>3. tx'[p] = [call |-> call, argument |-> Arguments(p)[call], state |-> "pending"]
  BY <1>2, ShapeOf
<1>4. /\ Kind(p) \in Kinds /\ at[p] \in 1..ManifestAt(Kind(p)) /\ ManifestAt(Kind(p)) \in Nat
      /\ HashAt(Kind(p)) \in Nat /\ ClaimAt(Kind(p)) = HashAt(Kind(p)) + 1
      /\ Script[Kind(p)][at[p]].op = call
      /\ call = "claim" => at[p] = ClaimAt(Kind(p))
  BY <1>2, CurrentPosition, Positions DEF Placed
<1>5. TranscriptOf(p) /\ PollOf(p)
  BY DEF EInv, Evidence, MemoryOf
<1>6. call = "claim" => tx'[p].argument.transcript = CompleteTranscript(p)
  BY <1>3, <1>4, <1>5 DEF TranscriptOf, Arguments
<1>7. TransactionOf(p)'
  <2>1. tx'[p].call = call /\ tx'[p].state = "pending"
    BY <1>3
  <2>2. CompleteTranscript(p)' = CompleteTranscript(p) /\ Kind(p)' = Kind(p)
    BY <1>1 DEF CompleteTranscript, CompleteJournal, Kind
  <2>. QED
    BY <1>1, <1>4, <1>6, <2>1, <2>2 DEF TransactionOf
<1>8. TranscriptOf(p)' /\ PollOf(p)'
  BY <1>1, <1>5 DEF TranscriptOf, PollOf, Kind, OnChain, CompleteTranscript, CompleteJournal
<1>. QED
  BY <1>7, <1>8 DEF MemoryOf

LEMMA ReceiveMemory ==
  ASSUME EInv, NEW p \in Processes, Receive(p)
  PROVE  MemoryOf(p)'
<1>1. /\ job' = job /\ transcript' = transcript /\ poll' = poll
      /\ tx[p].state = "mined"
      /\ tx' = [tx EXCEPT ![p] = NoTransaction]
      /\ at' = [at EXCEPT ![p] = at[p] + 1]
  BY DEF Receive, Advance, contractVars
<1>2. PICK call \in {"deploy", "submit", "claim"} : At(p, call)
  BY DEF Receive
<1>3. tx'[p] = NoTransaction /\ at'[p] = at[p] + 1
  BY <1>1, ShapeOf
<1>4. /\ Kind(p) \in Kinds /\ at[p] \in 1..ManifestAt(Kind(p)) /\ ManifestAt(Kind(p)) \in Nat
      /\ HashAt(Kind(p)) \in Nat /\ ClaimAt(Kind(p)) = HashAt(Kind(p)) + 1
      /\ Script[Kind(p)][at[p]].op = call
  BY <1>2, CurrentPosition, Positions
<1>5. TranscriptOf(p) /\ TransactionOf(p) /\ PollOf(p)
  BY DEF EInv, Evidence, MemoryOf
<1>6. at[p] # HashAt(Kind(p))
  BY <1>4, ScriptAt
<1>7. OnChain(p) /\ at[p] = ClaimAt(Kind(p)) => poll[p].phase = "Claimed"
  <2>1. OnChain(p) /\ at[p] = ClaimAt(Kind(p)) => call = "claim"
    BY <1>4, ScriptAt DEF OnChain, Kind
  <2>2. tx[p].call = call
    BY <1>1, <1>4, <1>5 DEF TransactionOf
  <2>. QED
    BY <2>1, <2>2, <1>1, <1>5 DEF TransactionOf
<1>8. TranscriptOf(p)'
  BY <1>1, <1>3, <1>4, <1>5, <1>6 DEF TranscriptOf, Kind, CompleteTranscript, CompleteJournal
<1>9. TransactionOf(p)'
  BY <1>3 DEF TransactionOf, NoTransaction
<1>10. PollOf(p)'
  BY <1>1, <1>3, <1>4, <1>5, <1>7
  DEF PollOf, Kind, OnChain, CompleteTranscript, CompleteJournal
<1>. QED
  BY <1>8, <1>9, <1>10 DEF MemoryOf

LEMMA ProcessStepMemory ==
  ASSUME EInv, NEW p \in Processes, ProcessStep(p), NEW q \in Processes
  PROVE  MemoryOf(q)'
<1>1. job' = job /\ poll' = poll /\ MemoryOf(q)
  BY ShapeOf DEF ProcessStep, Check, MakeRunDirectory, WriteSetup, MakeOracleDirectory, WriteFile,
                 ReadJournal, HashTranscript, Send, Receive, WriteManifest, Stop,
                 BallotChildFails, contractVars
<1>2. CASE q # p
  <2>1. at'[q] = at[q]
    BY <1>2, ShapeOf
    DEF ProcessStep, Check, MakeRunDirectory, WriteSetup, MakeOracleDirectory, WriteFile,
        ReadJournal, HashTranscript, Send, Receive, WriteManifest, Stop, BallotChildFails,
        Advance
  <2>2. tx'[q] = tx[q] /\ transcript'[q] = transcript[q]
    BY <1>2, ShapeOf
    DEF ProcessStep, Check, MakeRunDirectory, WriteSetup, MakeOracleDirectory, WriteFile,
        ReadJournal, HashTranscript, Send, Receive, WriteManifest, Stop, BallotChildFails
  <2>. QED
    BY <1>1, <2>1, <2>2, MemoryKept
<1>3. CASE q = p
  <2>1. ASSUME UNCHANGED <<at, tx, transcript>> PROVE MemoryOf(q)'
    BY <1>1, <2>1, MemoryKept
  <2>2. ASSUME NEW op, At(p, op), op \notin {"hash", "deploy", "submit", "claim"},
               Advance(p), UNCHANGED <<tx, transcript>>
        PROVE  MemoryOf(q)'
    <3>1. at'[p] = at[p] + 1
      BY <2>2, ShapeOf DEF Advance
    <3>. QED
      BY <1>1, <1>3, <2>2, <3>1, AdvanceMemory
  <2>3. CASE Check(p) \/ MakeRunDirectory(p) \/ WriteSetup(p) \/ Stop(p) \/ BallotChildFails(p)
    BY <2>1, <2>3 DEF Check, MakeRunDirectory, WriteSetup, Stop, BallotChildFails
  <2>4. CASE MakeOracleDirectory(p)
    BY <2>2, <2>4 DEF MakeOracleDirectory
  <2>5. CASE WriteFile(p)
    BY <2>2, <2>5 DEF WriteFile
  <2>6. CASE ReadJournal(p)
    BY <2>2, <2>6 DEF ReadJournal
  <2>7. CASE WriteManifest(p)
    BY <2>2, <2>7 DEF WriteManifest
  <2>8. CASE HashTranscript(p)
    BY <1>3, <2>8, HashTranscriptMemory
  <2>9. CASE Send(p)
    BY <1>3, <2>9, SendMemory
  <2>10. CASE Receive(p)
    BY <1>3, <2>10, ReceiveMemory
  <2>. QED
    BY <2>3, <2>4, <2>5, <2>6, <2>7, <2>8, <2>9, <2>10 DEF ProcessStep
<1>. QED
  BY <1>2, <1>3
\* What mining a transaction makes of its poll.
LEMMA MinedPoll ==
  ASSUME EInv, NEW p \in Processes, Mine(p)
  PROVE  /\ \A q \in Processes \ {p} : poll'[q] = poll[q]
         /\ DOMAIN poll' = Processes /\ DOMAIN poll'[p] = PollFields
         /\ \/ /\ tx[p].call = "deploy" /\ poll[p].phase = "None"
               /\ poll'[p].phase = "Open"
            \/ /\ tx[p].call = "submit" /\ poll[p].phase = "Open"
               /\ \/ poll'[p].phase = "Open"
                  \/ poll'[p].phase = "Sealed" /\ poll'[p].acceptedBallotCount = N
            \/ /\ tx[p].call = "claim" /\ poll[p].phase = "Sealed"
               /\ poll'[p].phase = "Claimed"
               /\ poll'[p].acceptedBallotCount = poll[p].acceptedBallotCount
               /\ poll'[p].backendTranscriptHash = tx[p].argument.transcript
               /\ poll'[p].outcomeBit = Decision[p]
<1>1. DOMAIN poll = Processes /\ DOMAIN poll[p] = PollFields
  BY ShapeOf
<1>2. CASE tx[p].call = "deploy" /\ Contract!Constructor(p, tx[p].argument)
  <2>1. /\ poll[p].phase = "None"
        /\ poll' = [poll EXCEPT
             ![p].phase = "Open",
             ![p].config = tx[p].argument,
             ![p].accumulator =
               Contract!Seed(Contract!PollDomain(p, tx[p].argument))]
    BY <1>2 DEF Contract!Constructor
  <2>2. poll'[p].phase = "Open" /\ \A q \in Processes \ {p} : poll'[q] = poll[q]
    BY <2>1, <1>1 DEF PollFields
  <2>3. DOMAIN poll' = Processes /\ DOMAIN poll'[p] = PollFields
    BY <2>1, <1>1
  <2>. QED
    BY <1>2, <2>1, <2>2, <2>3
<1>3. CASE tx[p].call = "submit" /\ Contract!SubmitBallot(p, FreshBallot(tx[p].argument))
  <2>. DEFINE ballot == FreshBallot(tx[p].argument)
              record == Contract!WithBallot(p, ballot)
  <2>1. poll[p].phase = "Open" /\ poll' = [poll EXCEPT ![p] = record]
    BY <1>3 DEF Contract!SubmitBallot, Contract!Acceptable
  <2>2. /\ DOMAIN record = PollFields
        /\ record.phase = "Open" \/ (record.phase = "Sealed" /\ record.acceptedBallotCount = N)
    <3>. DEFINE leaf == Contract!Leaf(Contract!PollDomain(p, poll[p].config),
                                      poll[p].acceptedBallotCount, ballot)
                next == [poll[p] EXCEPT !.usedNullifiers = @ \cup {ballot.nullifier},
                                        !.accumulator = Contract!Node(@, leaf),
                                        !.acceptedBallotCount = @ + 1]
                sealed == [next EXCEPT !.ballotSetCommitment = Contract!Final(next.accumulator),
                                       !.phase = "Sealed"]
    <3>1. record = IF next.acceptedBallotCount = N THEN sealed ELSE next
      BY Zenon DEF Contract!WithBallot
    <3>2. DOMAIN next = PollFields /\ next.phase = "Open"
      BY <2>1, <1>1 DEF PollFields
    <3>. HIDE DEF next
    <3>3. /\ sealed.phase = "Sealed" /\ sealed.acceptedBallotCount = next.acceptedBallotCount
          /\ DOMAIN sealed = PollFields
      BY <3>2 DEF PollFields
    <3>. HIDE DEF sealed, record
    <3>. QED
      BY <3>1, <3>2, <3>3
  <2>. HIDE DEF record
  <2>3. /\ poll'[p] = record /\ \A q \in Processes \ {p} : poll'[q] = poll[q]
        /\ DOMAIN poll' = Processes
    BY <2>1, <1>1
  <2>. QED
    BY <1>3, <2>1, <2>2, <2>3
<1>4. CASE /\ tx[p].call = "claim"
           /\ Contract!PublishOutcomeClaim(p, "publisher", tx[p].argument.commitment,
                                           tx[p].argument.transcript, Decision[p])
  <2>1. /\ poll[p].phase = "Sealed"
        /\ poll' = [poll EXCEPT ![p].backendTranscriptHash = tx[p].argument.transcript,
                                ![p].outcomeBit = Decision[p],
                                ![p].phase = "Claimed"]
    BY <1>4 DEF Contract!PublishOutcomeClaim
  <2>2. /\ poll'[p].phase = "Claimed"
        /\ poll'[p].acceptedBallotCount = poll[p].acceptedBallotCount
        /\ poll'[p].backendTranscriptHash = tx[p].argument.transcript
        /\ poll'[p].outcomeBit = Decision[p]
        /\ \A q \in Processes \ {p} : poll'[q] = poll[q]
    BY <2>1, <1>1 DEF PollFields
  <2>3. DOMAIN poll' = Processes /\ DOMAIN poll'[p] = PollFields
    BY <2>1, <1>1
  <2>. QED
    BY <1>4, <2>1, <2>2, <2>3
<1>. QED
  BY <1>2, <1>3, <1>4 DEF Mine, Applied

LEMMA MineMemory ==
  ASSUME EInv, NEW p \in Processes, Mine(p), NEW q \in Processes
  PROVE  MemoryOf(q)'
<1>1. /\ UNCHANGED <<job, at, transcript>> /\ tx[p].state = "pending"
      /\ tx' = [tx EXCEPT ![p].state = "mined"]
  BY DEF Mine
<1>2. CASE q # p
  BY <1>1, <1>2, ShapeOf, MinedPoll, MemoryKept
<1>3. CASE q = p
  <2>1. /\ tx'[p].call = tx[p].call /\ tx'[p].argument = tx[p].argument
        /\ tx'[p].state = "mined"
    BY <1>1, ShapeOf
  <2>2. TranscriptOf(p) /\ TransactionOf(p) /\ PollOf(p)
    BY ShapeOf DEF MemoryOf
  <2>3. /\ Kind(p)' = Kind(p) /\ OnChain(p)' = OnChain(p)
        /\ CompleteTranscript(p)' = CompleteTranscript(p)
    BY <1>1 DEF Kind, OnChain, CompleteTranscript, CompleteJournal
  <2>4. TranscriptOf(p)'
    BY <1>1, <2>2, <2>3 DEF TranscriptOf
  <2>5. TransactionOf(p)'
    <3>1. tx[p].call = "claim" => poll'[p].phase = "Claimed"
      BY MinedPoll
    <3>2. tx[p].call \in {"deploy", "submit", "claim"}
      BY MinedPoll
    <3>. QED
      BY <1>1, <2>1, <2>2, <2>3, <3>1, <3>2 DEF TransactionOf
  <2>6. PollOf(p)'
    <3>1. CASE tx[p].call = "claim"
      <4>1. /\ at[p] <= ManifestAt(Kind(p)) /\ Script[Kind(p)][at[p]].op = "claim"
            /\ tx[p].argument.transcript = CompleteTranscript(p)
        BY <3>1, <2>2 DEF TransactionOf
      <4>2. Kind(p) \in Kinds /\ at[p] \in 1..(ManifestAt(Kind(p)) + 1)
            /\ ManifestAt(Kind(p)) \in Nat /\ ClaimAt(Kind(p)) \in Nat
        BY ShapeOf, Positions DEF EInv, Evidence, ShapeInv
      <4>3. at[p] \in 1..ManifestAt(Kind(p))
        BY <4>1, <4>2
      <4>4. at[p] = ClaimAt(Kind(p)) /\ Kind(p) \in OnChainKinds
        BY <4>1, <4>2, <4>3, ScriptAt DEF Placed
      <4>5. OnChain(p)
        BY <4>4 DEF Kind, OnChain
      <4>6. /\ poll[p].phase = "Sealed" /\ poll'[p].phase = "Claimed"
            /\ poll'[p].acceptedBallotCount = poll[p].acceptedBallotCount
            /\ poll'[p].backendTranscriptHash = CompleteTranscript(p)
            /\ poll'[p].outcomeBit = Decision[p]
        BY <3>1, <4>1, MinedPoll
      <4>7. at[p] >= ClaimAt(Kind(p))
        BY <4>2, <4>4
      <4>. QED
        BY <1>1, <2>2, <2>3, <4>5, <4>6, <4>7 DEF PollOf
    <3>2. CASE tx[p].call # "claim"
      <4>1. poll[p].phase # "Claimed" /\ poll'[p].phase # "Claimed"
            /\ (poll'[p].phase = "Sealed" => poll'[p].acceptedBallotCount = N)
        BY <3>2, MinedPoll
      <4>. QED
        BY <1>1, <2>2, <2>3, <4>1 DEF PollOf
    <3>. QED
      BY <3>1, <3>2
  <2>. QED
    BY <1>3, <2>4, <2>5, <2>6 DEF MemoryOf
<1>. QED
  BY <1>2, <1>3

LEMMA RevertMemory ==
  ASSUME EInv, NEW p \in Processes, Revert(p), NEW q \in Processes
  PROVE  MemoryOf(q)'
<1>1. /\ UNCHANGED <<job, at, transcript, poll>> /\ tx[p].state = "pending"
      /\ tx' = [tx EXCEPT ![p].state = "reverted"]
  BY DEF Revert, contractVars
<1>2. CASE q # p
  BY <1>1, <1>2, ShapeOf, MemoryKept
<1>3. CASE q = p
  <2>1. /\ tx'[p].call = tx[p].call /\ tx'[p].argument = tx[p].argument
        /\ tx'[p].state = "reverted"
    BY <1>1, ShapeOf
  <2>2. TranscriptOf(p) /\ TransactionOf(p) /\ PollOf(p)
    BY ShapeOf DEF MemoryOf
  <2>3. TransactionOf(p)'
    BY <1>1, <2>1, <2>2 DEF TransactionOf, Kind, CompleteTranscript, CompleteJournal
  <2>4. TranscriptOf(p)' /\ PollOf(p)'
    BY <1>1, <2>2 DEF TranscriptOf, PollOf, Kind, OnChain, CompleteTranscript, CompleteJournal
  <2>. QED
    BY <1>3, <2>3, <2>4 DEF MemoryOf
<1>. QED
  BY <1>2, <1>3

LEMMA AbandonMemory ==
  ASSUME EInv, NEW p \in Processes, Abandon(p), NEW q \in Processes
  PROVE  MemoryOf(q)'
<1>1. /\ UNCHANGED <<job, at, transcript, tx>> /\ poll[p].phase = "Open"
      /\ poll' = [poll EXCEPT ![p].phase = "Abandoned"]
  BY DEF Abandon, Contract!Abandon, processVars
<1>2. CASE q # p
  BY <1>1, <1>2, ShapeOf, MemoryKept
<1>3. CASE q = p
  <2>1. poll'[p].phase = "Abandoned"
    BY <1>1, ShapeOf DEF PollFields
  <2>2. TranscriptOf(p) /\ TransactionOf(p) /\ PollOf(p)
    BY ShapeOf DEF MemoryOf
  <2>3. TransactionOf(p)'
    BY <1>1, <2>2 DEF TransactionOf, Kind, CompleteTranscript, CompleteJournal
  <2>4. TranscriptOf(p)' /\ PollOf(p)'
    BY <1>1, <2>1, <2>2
    DEF TranscriptOf, PollOf, Kind, OnChain, CompleteTranscript, CompleteJournal
  <2>. QED
    BY <1>3, <2>3, <2>4 DEF MemoryOf
<1>. QED
  BY <1>2, <1>3

\* What a process knows, and its poll, after any step.
LEMMA NextMemory ==
  ASSUME EInv, [Next]_vars, NEW q \in Processes
  PROVE  MemoryOf(q)'
<1>1. ASSUME UNCHANGED <<job, at, transcript, tx, poll>> PROVE MemoryOf(q)'
  BY <1>1, ShapeOf, MemoryKept
<1>2. ASSUME NEW p \in Processes, ProcessStep(p) PROVE MemoryOf(q)'
  BY <1>2, ProcessStepMemory
<1>3. ASSUME NEW p \in Processes, Mine(p) \/ Revert(p) \/ Abandon(p) PROVE MemoryOf(q)'
  BY <1>3, MineMemory, RevertMemory, AbandonMemory
<1>4. CASE BlockTime
  BY <1>1, <1>4 DEF BlockTime, Contract!Tick, processVars
<1>5. ASSUME NEW d \in Directories, Replay(d) \/ Compare(d) \/ PackByHand(d) \/ DropJournal(d)
      PROVE  MemoryOf(q)'
  BY <1>1, <1>5 DEF Replay, Compare, PackByHand, DropJournal, runVars, contractVars, processVars
<1>6. CASE UNCHANGED vars
  BY <1>1, <1>6 DEF vars, runVars, contractVars, processVars
<1>. QED
  BY <1>2, <1>3, <1>4, <1>5, <1>6 DEF Next, RunNext
-----------------------------------------------------------------------------
(* The manifest and its readers                                            *)

\* The manifest that is written names what the process has written, and it is
\* the first of its directory.
LEMMA ManifestIsComplete ==
  ASSUME EInv, NEW p \in Processes, At(p, "manifest")
  PROVE  /\ at[p] = ManifestAt(Kind(p))
         /\ ManifestOf(p) = CompleteManifest(p)
         /\ manifest[RunDir(p)] = None
<1>. DEFINE k == Kind(p)
            d == RunDir(p)
<1>1. /\ k \in Kinds /\ at[p] = ManifestAt(k) /\ ManifestAt(k) \in Nat
      /\ HashAt(k) \in Nat /\ ReleaseAt(k) \in Nat
      /\ ReleaseAt(k) < HashAt(k) /\ HashAt(k) < ManifestAt(k)
      /\ OracleAt < ManifestAt(k)
  <2>1. k \in Kinds /\ at[p] = ManifestAt(k)
    BY CurrentPosition DEF Placed
  <2>2. \E i \in 1..Gates : TRUE
    BY RunAssumption
  <2>. QED
    BY <2>1, <2>2, Positions DEF OracleAt
<1>2. files[d][Setup] = <<p>>
  BY CurrentStep DEF EInv
<1>3. transcript[p] = CompleteTranscript(p)
  BY <1>1, ShapeOf DEF MemoryOf, TranscriptOf
<1>4. ASSUME NEW f \in CreatedFiles(k) PROVE files[d][f] = <<p>>
  <2>1. PICK j \in 1..ReleaseAt(k) : Script[k][j].op = "create" /\ Script[k][j].file = f
    BY <1>1, ScriptAt
  <2>2. j \in 1..(at[p] - 1)
    BY <1>1
  <2>3. CreatedBy(p)
    BY DEF EInv, Evidence, DiskOf
  <2>. QED
    BY <2>1, <2>2, <2>3, Zenon DEF CreatedBy
<1>5. ManifestOf(p) = CompleteManifest(p)
  <2>. DEFINE stated(f) == CASE f = Journal -> transcript[p].journal
                             [] f \in ReadAgain -> files[d][f]
                             [] OTHER -> <<p>>
              complete(f) == IF f = Journal THEN CompleteJournal(p) ELSE <<p>>
  <2>1. ASSUME NEW f \in Hashed(k) PROVE stated(f) = complete(f)
    <3>1. Journal \notin ReadAgain
      BY DEF Journal, ReadAgain
    <3>2. f = Journal \/ f = Setup \/ f \in CreatedFiles(k)
      BY DEF CreatedFiles
    <3>3. f # Journal => files[d][f] = <<p>>
      BY <3>2, <1>2, <1>4
    <3>4. transcript[p].journal = CompleteJournal(p)
      BY <1>3 DEF CompleteTranscript
    <3>. QED
      BY <3>1, <3>3, <3>4
  <2>2. [f \in Hashed(k) |-> stated(f)] = [f \in Hashed(k) |-> complete(f)]
    BY <2>1, Zenon
  <2>3. ManifestOf(p) =
          [by |-> p, kind |-> k, resultBit |-> Decision[p], transcriptHash |-> transcript[p],
           hashes |-> [f \in Hashed(k) |-> stated(f)]]
    BY Zenon DEF ManifestOf, Kind
  <2>4. CompleteManifest(p) =
          [by |-> p, kind |-> k, resultBit |-> Decision[p],
           transcriptHash |-> CompleteTranscript(p),
           hashes |-> [f \in Hashed(k) |-> complete(f)]]
    BY Zenon DEF CompleteManifest
  <2>. HIDE DEF stated, complete
  <2>. QED
    BY <2>2, <2>3, <2>4, <1>3, Zenon
<1>6. manifest[d] = None
  <2>. SUFFICES ASSUME manifest[d] # None PROVE FALSE
    OBVIOUS
  <2>1. PICK q \in Processes : RunDir(q) = d /\ at[q] > ManifestAt(Kind(q))
    BY DirectoriesOf DEF EInv, Evidence, ReadersInv, ManifestOfRun, IInv, ProcessInv
  <2>2. q # p
    BY <1>1, <2>1
  <2>3. at[q] > 1
    <3>1. at[q] \in Nat /\ Kind(q) \in Kinds
      BY ShapeOf
    <3>. QED
      BY <2>1, <3>1, Positions DEF OracleAt
  <2>. QED
    BY <1>2, <2>1, <2>2, <2>3, OtherRun
<1>. QED
  BY <1>1, <1>5, <1>6

\* A script never goes back.
LEMMA ScriptGoesOn ==
  ASSUME EInv, [Next]_vars
  PROVE  /\ job' = job
         /\ \A p \in Processes :
              \/ at'[p] = at[p]
              \/ at[p] \in 1..ManifestAt(Kind(p)) /\ at'[p] = at[p] + 1
<1>1. ASSUME NEW p \in Processes, NEW op, At(p, op), Advance(p), NEW q \in Processes
      PROVE  \/ at'[q] = at[q]
             \/ at[q] \in 1..ManifestAt(Kind(q)) /\ at'[q] = at[q] + 1
  <2>1. at' = [at EXCEPT ![p] = at[p] + 1] /\ at \in [Processes -> Nat]
    BY <1>1, ShapeOf DEF Advance
  <2>2. at[p] \in 1..ManifestAt(Kind(p))
    BY <1>1, CurrentPosition
  <2>3. CASE q = p
    BY <2>1, <2>2, <2>3
  <2>4. CASE q # p
    BY <2>1, <2>4
  <2>. QED
    BY <2>3, <2>4
<1>2. ASSUME NEW p \in Processes, ProcessStep(p)
      PROVE  /\ job' = job
             /\ at' = at \/ \E op : At(p, op) /\ Advance(p)
  BY <1>2
  DEF ProcessStep, Check, MakeRunDirectory, WriteSetup, MakeOracleDirectory, WriteFile,
      ReadJournal, HashTranscript, Send, Receive, WriteManifest, Stop, BallotChildFails
<1>3. CASE \E p \in Processes : ProcessStep(p)
  BY <1>1, <1>2, <1>3
<1>4. CASE ~\E p \in Processes : ProcessStep(p)
  <2>1. UNCHANGED <<job, at>>
    BY <1>4 DEF Next, RunNext, Mine, Revert, Abandon, BlockTime, Replay, Compare, PackByHand,
                DropJournal, vars, runVars, processVars
  <2>. QED
    BY <2>1
<1>. QED
  BY <1>3, <1>4

LEMMA ReadersKept ==
  ASSUME EInv, [Next]_vars, NEW d \in Directories,
         manifest'[d] = manifest[d], publicReplay'[d] = publicReplay[d]
  PROVE  ManifestOfRun(d)' /\ ReplayOf(d)'
<1>1. ManifestOfRun(d) /\ ReplayOf(d)
  BY DEF EInv, Evidence, ReadersInv
<1>2. ManifestOfRun(d)'
  <2>. SUFFICES ASSUME manifest[d] # None PROVE ManifestOfRun(d)'
    BY DEF ManifestOfRun
  <2>1. PICK p \in Processes :
          RunDir(p) = d /\ at[p] > ManifestAt(Kind(p)) /\ manifest[d] = CompleteManifest(p)
    BY <1>1 DEF ManifestOfRun
  <2>2. at'[p] > ManifestAt(Kind(p)) /\ job' = job
    <3>1. Kind(p) \in Kinds /\ at[p] \in Nat
      BY ShapeOf
    <3>2. ManifestAt(Kind(p)) \in Nat
      BY <3>1, Positions
    <3>. QED
      BY <2>1, <3>1, <3>2, ScriptGoesOn
  <2>3. RunDir(p)' = d /\ Kind(p)' = Kind(p) /\ CompleteManifest(p)' = manifest[d]
    BY <2>1, <2>2 DEF RunDir, Kind, CompleteManifest, CompleteTranscript, CompleteJournal
  <2>. QED
    BY <2>2, <2>3 DEF ManifestOfRun
<1>3. ReplayOf(d)'
  BY <1>1 DEF ReplayOf
<1>. QED
  BY <1>2, <1>3

LEMMA NextReaders ==
  ASSUME EInv, [Next]_vars
  PROVE  /\ ReadersInv'
         /\ DOMAIN manifest' = Directories /\ DOMAIN publicReplay' = Directories
<1>1. DOMAIN manifest = Directories /\ DOMAIN publicReplay = Directories /\ ReadersInv
  BY DEF EInv, Evidence, ShapeInv
<1>2. ASSUME NEW p \in Processes, WriteManifest(p), publicReplay' = publicReplay
      PROVE  /\ ReadersInv' /\ DOMAIN manifest' = Directories
  <2>1. /\ At(p, "manifest") /\ job' = job
        /\ manifest' = [manifest EXCEPT ![RunDir(p)] = ManifestOf(p)]
        /\ at' = [at EXCEPT ![p] = at[p] + 1]
    BY <1>2 DEF WriteManifest, Advance
  <2>2. /\ at[p] = ManifestAt(Kind(p)) /\ ManifestOf(p) = CompleteManifest(p)
        /\ manifest[RunDir(p)] = None
    BY <2>1, ManifestIsComplete
  <2>3. RunDir(p) \in Directories
    BY DirectoriesOf DEF EInv, IInv, ProcessInv
  <2>4. ASSUME NEW d \in Directories PROVE ManifestOfRun(d)' /\ ReplayOf(d)'
    <3>1. CASE d # RunDir(p)
      BY <1>1, <1>2, <2>1, <3>1, ReadersKept
    <3>2. CASE d = RunDir(p)
      <4>1. /\ manifest'[d] = CompleteManifest(p) /\ at'[p] = at[p] + 1
            /\ RunDir(p)' = d /\ Kind(p)' = Kind(p)
            /\ CompleteManifest(p)' = CompleteManifest(p)
        BY <1>1, <2>1, <2>2, <2>3, <3>2, ShapeOf
        DEF RunDir, Kind, CompleteManifest, CompleteTranscript, CompleteJournal
      <4>2. at'[p] > ManifestAt(Kind(p))
        <5>1. at[p] \in Nat
          BY ShapeOf
        <5>. QED
          BY <4>1, <2>2, <5>1
      <4>3. publicReplay[d] = None
        BY <1>1, <2>2, <3>2 DEF ReadersInv, ReplayOf
      <4>. QED
        BY <1>2, <4>1, <4>2, <4>3 DEF ManifestOfRun, ReplayOf
    <3>. QED
      BY <3>1, <3>2
  <2>. QED
    BY <1>1, <2>1, <2>4 DEF ReadersInv
<1>3. ASSUME NEW e \in Directories, Replay(e)
      PROVE  ReadersInv' /\ DOMAIN manifest' = Directories
             /\ DOMAIN publicReplay' = Directories
  <2>1. /\ manifest[e] # None /\ manifest' = manifest
        /\ publicReplay' = [publicReplay EXCEPT ![e] =
             [transcriptHash |-> manifest[e].transcriptHash, resultBit |-> manifest[e].resultBit]]
    BY <1>3 DEF Replay, SepoliaReplayPasses, LocalReplayPasses, FilesMatch, runVars, diskVars
  <2>2. ASSUME NEW d \in Directories PROVE ManifestOfRun(d)' /\ ReplayOf(d)'
    <3>1. CASE d # e
      BY <1>1, <2>1, <3>1, ReadersKept
    <3>2. CASE d = e
      <4>1. ReplayOf(d)'
        BY <1>1, <2>1, <3>2 DEF ReplayOf
      <4>2. ManifestOfRun(d)'
        <5>1. PICK p \in Processes :
                RunDir(p) = d /\ at[p] > ManifestAt(Kind(p)) /\ manifest[d] = CompleteManifest(p)
          BY <1>1, <2>1, <3>2 DEF ReadersInv, ManifestOfRun
        <5>2. UNCHANGED <<job, at>>
          BY <1>3 DEF Replay, runVars, processVars
        <5>3. /\ RunDir(p)' = d /\ Kind(p)' = Kind(p)
              /\ CompleteManifest(p)' = CompleteManifest(p)
          BY <5>1, <5>2 DEF RunDir, Kind, CompleteManifest, CompleteTranscript, CompleteJournal
        <5>. QED
          BY <2>1, <5>1, <5>2, <5>3 DEF ManifestOfRun
      <4>. QED
        BY <4>1, <4>2
    <3>. QED
      BY <3>1, <3>2
  <2>. QED
    BY <1>1, <2>1, <2>2 DEF ReadersInv
<1>4. ASSUME UNCHANGED <<manifest, publicReplay>>
      PROVE  ReadersInv' /\ DOMAIN manifest' = Directories
             /\ DOMAIN publicReplay' = Directories
  BY <1>1, <1>4, ReadersKept DEF ReadersInv
<1>5. CASE \E p \in Processes : WriteManifest(p) /\ publicReplay' = publicReplay
  BY <1>1, <1>2, <1>5
<1>6. CASE \E e \in Directories : Replay(e)
  BY <1>3, <1>6
<1>7. ASSUME NEW p \in Processes, ProcessStep(p) PROVE WriteManifest(p) \/ manifest' = manifest
  BY <1>7
  DEF ProcessStep, Check, MakeRunDirectory, WriteSetup, MakeOracleDirectory, WriteFile,
      ReadJournal, HashTranscript, Send, Receive, Stop, BallotChildFails, diskVars
<1>8. CASE ~\E e \in Directories : Replay(e)
  <2>1. CASE RunNext /\ UNCHANGED <<publicReplay, summary>>
    <3>1. CASE \E p \in Processes : ProcessStep(p)
      BY <1>4, <1>5, <1>7, <2>1, <3>1
    <3>2. CASE ~\E p \in Processes : ProcessStep(p)
      <4>1. manifest' = manifest
        BY <2>1, <3>2 DEF RunNext, Mine, Revert, Abandon, BlockTime, diskVars
      <4>. QED
        BY <2>1, <4>1, <1>4
    <3>. QED
      BY <3>1, <3>2
  <2>2. CASE \E d \in Directories : Compare(d) \/ PackByHand(d) \/ DropJournal(d)
    BY <2>2, <1>4 DEF Compare, PackByHand, DropJournal, runVars, diskVars
  <2>3. CASE UNCHANGED vars
    BY <2>3, <1>4 DEF vars, runVars, diskVars
  <2>. QED
    BY <1>8, <2>1, <2>2, <2>3 DEF Next
<1>. QED
  BY <1>6, <1>8
-----------------------------------------------------------------------------
(* The invariant is inductive                                              *)

\* Who took a step: a process, the chain, or a reader.
LEMMA WhoMoves ==
  ASSUME [Next]_vars
  PROVE  \/ \E p \in Processes : ProcessStep(p)
         \/ \E p \in Processes : Mine(p)
         \/ \E p \in Processes : Revert(p)
         \/ \E p \in Processes : Abandon(p)
         \/ BlockTime
         \/ UNCHANGED <<contractVars, processVars>>
<1>1. CASE \E d \in Directories : Replay(d) \/ Compare(d) \/ PackByHand(d) \/ DropJournal(d)
  BY <1>1 DEF Replay, Compare, PackByHand, DropJournal, runVars
<1>2. CASE RunNext
  BY <1>2 DEF RunNext
<1>3. CASE UNCHANGED vars
  BY <1>3 DEF vars, runVars
<1>. QED
  BY <1>1, <1>2, <1>3 DEF Next

LEMMA NextShape ==
  ASSUME EInv, [Next]_vars
  PROVE  ShapeInv'
<1>. USE DEF ShapeInv
<1>1. ShapeInv
  BY DEF EInv, Evidence
<1>2. ASSUME NEW p \in Processes PROVE at'[p] \in 1..(ManifestAt(Kind(p)) + 1)'
  <2>1. /\ job' = job
        /\ \/ at'[p] = at[p]
           \/ at[p] \in 1..ManifestAt(Kind(p)) /\ at'[p] = at[p] + 1
    BY ScriptGoesOn
  <2>2. ManifestAt(Kind(p)) \in Nat
    BY ShapeOf, Positions
  <2>3. Kind(p)' = Kind(p)
    BY <2>1 DEF Kind
  <2>4. at'[p] \in 1..(ManifestAt(Kind(p)) + 1)
    BY <1>1, <2>1, <2>2
  <2>. QED
    BY <2>3, <2>4
<1>3. DOMAIN transcript' = Processes
  <2>1. transcript' = transcript \/ \E p \in Processes : HashTranscript(p)
    <3>1. ASSUME NEW p \in Processes, ProcessStep(p), ~HashTranscript(p)
          PROVE  transcript' = transcript
      BY <3>1 DEF ProcessStep, Check, MakeRunDirectory, WriteSetup, MakeOracleDirectory,
                  WriteFile, ReadJournal, Send, Receive, WriteManifest, Stop, BallotChildFails
    <3>. QED
      BY WhoMoves, <3>1 DEF Mine, Revert, Abandon, BlockTime, processVars
  <2>. QED
    BY <1>1, <2>1 DEF HashTranscript
<1>4. DOMAIN tx' = Processes /\ \A p \in Processes : DOMAIN tx'[p] = {"call", "argument", "state"}
  <2>1. ASSUME NEW p \in Processes, NEW record, DOMAIN record = {"call", "argument", "state"},
               tx' = [tx EXCEPT ![p] = record]
        PROVE  DOMAIN tx' = Processes
               /\ \A q \in Processes : DOMAIN tx'[q] = {"call", "argument", "state"}
    BY <1>1, <2>1
  <2>2. CASE tx' = tx
    BY <1>1, <2>2
  <2>3. CASE \E p \in Processes : Send(p) \/ Receive(p)
    BY <2>1, <2>3 DEF Send, Receive, NoTransaction
  <2>4. CASE \E p \in Processes : Mine(p) \/ Revert(p)
    <3>1. PICK p \in Processes, state \in {"mined", "reverted"} :
            tx' = [tx EXCEPT ![p].state = state]
      BY <2>4 DEF Mine, Revert
    <3>. DEFINE record == [tx[p] EXCEPT !.state = state]
    <3>2. tx' = [tx EXCEPT ![p] = record] /\ DOMAIN record = {"call", "argument", "state"}
      BY <1>1, <3>1
    <3>. HIDE DEF record
    <3>. QED
      BY <2>1, <3>2
  <2>5. \/ tx' = tx
        \/ \E p \in Processes : Send(p) \/ Receive(p)
        \/ \E p \in Processes : Mine(p) \/ Revert(p)
    <3>1. ASSUME NEW p \in Processes, ProcessStep(p), ~(Send(p) \/ Receive(p))
          PROVE  tx' = tx
      BY <3>1 DEF ProcessStep, Check, MakeRunDirectory, WriteSetup, MakeOracleDirectory,
                  WriteFile, ReadJournal, HashTranscript, WriteManifest, Stop, BallotChildFails
    <3>. QED
      BY WhoMoves, <3>1 DEF Abandon, BlockTime, processVars
  <2>. QED
    BY <2>2, <2>3, <2>4, <2>5
<1>5. DOMAIN poll' = Processes /\ \A p \in Processes : DOMAIN poll'[p] = PollFields
  <2>1. CASE poll' = poll
    BY <1>1, <2>1
  <2>2. CASE \E p \in Processes : Mine(p)
    BY <1>1, <2>2, MinedPoll
  <2>3. CASE \E p \in Processes : Abandon(p)
    <3>1. PICK p \in Processes : poll' = [poll EXCEPT ![p].phase = "Abandoned"]
      BY <2>3 DEF Abandon, Contract!Abandon
    <3>. QED
      BY <1>1, <3>1
  <2>4. \/ poll' = poll
        \/ \E p \in Processes : Mine(p) \/ Abandon(p)
    <3>1. ASSUME NEW p \in Processes, ProcessStep(p)
          PROVE  poll' = poll
      BY <3>1 DEF ProcessStep, Check, MakeRunDirectory, WriteSetup, MakeOracleDirectory,
                  WriteFile, ReadJournal, HashTranscript, Send, Receive, WriteManifest, Stop,
                  BallotChildFails, contractVars
    <3>. QED
      BY WhoMoves, <3>1 DEF Revert, BlockTime, Contract!Tick, contractVars
  <2>. QED
    BY <2>1, <2>2, <2>3, <2>4
<1>. QED
  BY <1>2, <1>3, <1>4, <1>5, NextReaders

LEMMA InitEInv == Init => EInv
<1>. SUFFICES ASSUME Init PROVE EInv
  OBVIOUS
<1>1. IInv
  BY InitIInv
<1>2. /\ poll = [p \in Processes |-> Contract!NotDeployed]
      /\ tx = [p \in Processes |-> NoTransaction]
      /\ transcript = [p \in Processes |-> None]
      /\ at = [p \in Processes |-> 1]
      /\ manifest = [d \in Directories |-> None]
      /\ publicReplay = [d \in Directories |-> None]
  BY DEF Init, RunInit, Contract!Init
<1>3. \A p \in Processes :
        /\ Kind(p) \in Kinds /\ ManifestAt(Kind(p)) \in Nat /\ NewAt(Kind(p)) \in Nat
        /\ HashAt(Kind(p)) \in Nat /\ ClaimAt(Kind(p)) = HashAt(Kind(p)) + 1
        /\ NewAt(Kind(p)) > OracleAt
        /\ NewAt(Kind(p)) < ReleaseAt(Kind(p)) /\ ReleaseAt(Kind(p)) < HashAt(Kind(p))
        /\ ReleaseAt(Kind(p)) \in Nat
  <2>1. \A p \in Processes : Kind(p) \in Kinds
    BY <1>1, DirectoriesOf DEF IInv, ProcessInv, Kind
  <2>2. 1 \in 1..Gates
    BY RunAssumption
  <2>3. ASSUME NEW kind \in Kinds
        PROVE  /\ ManifestAt(kind) \in Nat /\ NewAt(kind) \in Nat
               /\ HashAt(kind) \in Nat /\ ClaimAt(kind) = HashAt(kind) + 1
               /\ NewAt(kind) > OracleAt
               /\ NewAt(kind) < ReleaseAt(kind) /\ ReleaseAt(kind) < HashAt(kind)
               /\ ReleaseAt(kind) \in Nat
    <3>1. /\ AppendAt(kind, 1) \in Nat /\ NewAt(kind) < AppendAt(kind, 1)
          /\ AppendAt(kind, 1) < ReleaseAt(kind)
      BY <2>2, Positions
    <3>. QED
      BY <3>1, Positions
  <2>. QED
    BY <2>1, <2>3
<1>4. ShapeInv
  <2>1. ASSUME NEW p \in Processes
        PROVE  /\ DOMAIN poll[p] = PollFields
               /\ DOMAIN tx[p] = {"call", "argument", "state"}
               /\ at[p] \in 1..(ManifestAt(Kind(p)) + 1)
    <3>1. poll[p] = Contract!NotDeployed /\ tx[p] = NoTransaction /\ at[p] = 1
      BY <1>2
    <3>2. DOMAIN Contract!NotDeployed = PollFields
      BY DEF Contract!NotDeployed, PollFields
    <3>3. DOMAIN NoTransaction = {"call", "argument", "state"}
      BY DEF NoTransaction
    <3>. QED
      BY <1>3, <3>1, <3>2, <3>3
  <2>. QED
    BY <1>2, <2>1 DEF ShapeInv
<1>5. ReadersInv
  BY <1>2 DEF ReadersInv, ManifestOfRun, ReplayOf
<1>6. ASSUME NEW p \in Processes PROVE DiskOf(p)
  <2>1. at[p] = 1
    BY <1>2
  <2>2. SetupOf(p) /\ OracleOf(p)
    BY <2>1 DEF SetupOf, OracleOf, OracleAt
  <2>3. CreatedBy(p)
    <3>1. 1..(at[p] - 1) = {}
      BY <2>1
    <3>. QED
      BY <3>1 DEF CreatedBy
  <2>4. \A n \in 0..Gates : ~Appended(p, n)
    BY <1>3, <2>1 DEF Appended, OracleAt
  <2>5. JournalOfRun(p)
    BY <2>4, Zenon DEF JournalOfRun
  <2>. QED
    BY <2>2, <2>3, <2>5 DEF DiskOf
<1>7. ASSUME NEW p \in Processes PROVE MemoryOf(p)
  <2>1. at[p] = 1 /\ tx[p] = NoTransaction /\ poll[p].phase = "None"
    BY <1>2 DEF Contract!NotDeployed
  <2>2. HashAt(Kind(p)) > 1 /\ ClaimAt(Kind(p)) > 1
    BY <1>3 DEF OracleAt
  <2>3. TranscriptOf(p)
    BY <1>3, <2>1, <2>2 DEF TranscriptOf
  <2>4. TransactionOf(p)
    BY <2>1 DEF TransactionOf, NoTransaction
  <2>5. PollOf(p)
    BY <1>3, <2>1, <2>2 DEF PollOf
  <2>. QED
    BY <2>3, <2>4, <2>5 DEF MemoryOf
<1>. QED
  BY <1>1, <1>4, <1>5, <1>6, <1>7 DEF EInv, Evidence

LEMMA NextEInv == EInv /\ [Next]_vars => EInv'
<1>. SUFFICES ASSUME EInv, [Next]_vars PROVE EInv'
  OBVIOUS
<1>1. IInv'
  BY NextIInv DEF EInv
<1>2. ShapeInv' /\ ReadersInv'
  BY NextShape, NextReaders
<1>3. \A q \in Processes : DiskOf(q)' /\ MemoryOf(q)'
  BY NextDisk, NextMemory
<1>. QED
  BY <1>1, <1>2, <1>3 DEF EInv, Evidence

-----------------------------------------------------------------------------
(* What the invariant says of a run                                        *)

\* The files of a run whose transcript hash is made.
LEMMA CompleteFiles ==
  ASSUME EInv, NEW p \in Processes, at[p] > HashAt(Kind(p))
  PROVE  /\ Kind(p) \in Kinds /\ RunDir(p) \in Directories
         /\ JournalOf(RunDir(p)) = CompleteJournal(p)
         /\ \A f \in Hashed(Kind(p)) \ {Journal} : files[RunDir(p)][f] = <<p>>
         /\ files[OracleDir(p)][OracleFile] = <<p>>
         /\ transcript[p] = CompleteTranscript(p)
<1>. DEFINE d == RunDir(p)
            k == Kind(p)
<1>1. /\ k \in Kinds /\ d \in Directories /\ at[p] \in Nat
      /\ SetupOf(p) /\ CreatedBy(p) /\ OracleOf(p) /\ JournalOfRun(p) /\ TranscriptOf(p)
  BY ShapeOf, DirectoriesOf DEF EInv, Evidence, DiskOf, MemoryOf, IInv, ProcessInv
<1>2. Gates \in Nat \ {0} /\ Gates \in 1..Gates
  BY RunAssumption
<1>3. /\ NewAt(k) \in Nat /\ NewAt(k) > OracleAt
      /\ AppendAt(k, Gates) \in Nat /\ ReleaseAt(k) \in Nat /\ HashAt(k) \in Nat
      /\ NewAt(k) < AppendAt(k, Gates) /\ AppendAt(k, Gates) < ReleaseAt(k)
      /\ ReleaseAt(k) < HashAt(k)
  BY <1>1, <1>2, Positions
<1>4. Appended(p, Gates) /\ at[p] > OracleAt
  BY <1>1, <1>2, <1>3 DEF Appended, OracleAt
<1>5. JournalOf(d) = CompleteJournal(p)
  <2>1. Gates \in 0..Gates /\ Prefix(p, Gates) = CompleteJournal(p)
    BY <1>2 DEF Prefix, CompleteJournal
  <2>2. files[d][Journal] = CompleteJournal(p) \/ Dropped(p)
    BY <1>1, <1>4, <2>1 DEF JournalOfRun
  <2>3. CompleteJournal(p) # None
    <3>1. CompleteJournal(p) \in Seq(Processes \cup {Magic})
      BY <1>2, FunctionIsSeq DEF CompleteJournal
    <3>. QED
      BY <3>1, RunAssumption
  <2>. QED
    BY <2>2, <2>3 DEF JournalOf, Dropped
<1>6. ASSUME NEW f \in Hashed(k) \ {Journal} PROVE files[d][f] = <<p>>
  <2>1. CASE f = Setup
    BY <2>1, <1>1, <1>4 DEF SetupOf, OracleAt
  <2>2. CASE f # Setup
    <3>1. f \in CreatedFiles(k)
      BY <2>2 DEF CreatedFiles
    <3>2. PICK j \in 1..ReleaseAt(k) : Script[k][j].op = "create" /\ Script[k][j].file = f
      BY <3>1, <1>1, ScriptAt
    <3>3. j \in 1..(at[p] - 1)
      BY <1>1, <1>3
    <3>. QED
      BY <1>1, <3>2, <3>3, Zenon DEF CreatedBy
  <2>. QED
    BY <2>1, <2>2
<1>7. files[OracleDir(p)][OracleFile] = <<p>> /\ transcript[p] = CompleteTranscript(p)
  BY <1>1, <1>4 DEF OracleOf, TranscriptOf
<1>. QED
  BY <1>1, <1>5, <1>6, <1>7

LEMMA ClaimBacked == EInv => ClaimIsBacked
<1>. SUFFICES ASSUME EInv, NEW p \in Processes, poll[p].phase = "Claimed"
              PROVE  LET d == RunDir(p)
                     IN /\ Recomputed(d, JournalOf(d)) = Stated(poll[p].backendTranscriptHash)
                        /\ files[d]["sealed_board.json"] = <<poll[p].backendTranscriptHash.board>>
                        /\ JournalOf(d) = CompleteJournal(p)
  BY DEF ClaimIsBacked
<1>1. /\ OnChain(p) /\ at[p] >= ClaimAt(Kind(p))
      /\ poll[p].backendTranscriptHash = CompleteTranscript(p)
  BY ShapeOf DEF MemoryOf, PollOf
<1>2. at[p] > HashAt(Kind(p))
  <2>1. at[p] \in Nat /\ Kind(p) \in Kinds
    BY ShapeOf
  <2>. QED
    BY <1>1, <2>1, Positions
<1>3. /\ JournalOf(RunDir(p)) = CompleteJournal(p)
      /\ files[RunDir(p)]["public_setup.json"] = <<p>>
      /\ files[RunDir(p)]["final_release.json"] = <<p>>
      /\ files[RunDir(p)]["sealed_board.json"] = <<p>>
  <2>1. {"public_setup.json", "final_release.json", "sealed_board.json"}
          \subseteq Hashed(Kind(p)) \ {Journal}
    BY <1>1 DEF Hashed, Journal, OnChain, Kind
  <2>. QED
    BY <1>2, <2>1, CompleteFiles
<1>. QED
  BY <1>1, <1>3 DEF Recomputed, Stated, CompleteTranscript

LEMMA ManifestEvidence == EInv => ManifestIsEvidence
<1>. SUFFICES ASSUME EInv, NEW d \in Directories, manifest[d] # None
              PROVE  /\ FilesMatch(d, JournalOf(d))
                     /\ JournalOf(d) = CompleteJournal(manifest[d].by)
                     /\ manifest[d].kind \in OnChainKinds => ClaimMatches(d)
                     /\ files[job[manifest[d].by].oracle]["cleartext_oracle_inputs.json"]
                          = <<manifest[d].by>>
  BY DEF ManifestIsEvidence
<1>1. PICK p \in Processes :
        RunDir(p) = d /\ at[p] > ManifestAt(Kind(p)) /\ manifest[d] = CompleteManifest(p)
  BY DEF EInv, Evidence, ReadersInv, ManifestOfRun
<1>2. /\ manifest[d].by = p /\ manifest[d].kind = Kind(p) /\ manifest[d].resultBit = Decision[p]
      /\ manifest[d].transcriptHash = CompleteTranscript(p)
      /\ manifest[d].hashes =
           [f \in Hashed(Kind(p)) |-> IF f = Journal THEN CompleteJournal(p) ELSE <<p>>]
  BY <1>1 DEF CompleteManifest
<1>3. at[p] > HashAt(Kind(p)) /\ (OnChain(p) => at[p] > ClaimAt(Kind(p)))
  <2>1. Kind(p) \in Kinds /\ at[p] \in Nat
    BY ShapeOf
  <2>. QED
    BY <1>1, <2>1, Positions DEF OnChain, Kind
<1>4. /\ JournalOf(d) = CompleteJournal(p)
      /\ \A f \in Hashed(Kind(p)) \ {Journal} : files[d][f] = <<p>>
      /\ files[OracleDir(p)][OracleFile] = <<p>>
  BY <1>1, <1>3, CompleteFiles
<1>5. FilesMatch(d, JournalOf(d))
  <2>1. \A f \in DOMAIN manifest[d].hashes \ {Journal} : files[d][f] = manifest[d].hashes[f]
    BY <1>2, <1>4
  <2>2. JournalOf(d) = manifest[d].hashes[Journal]
    BY <1>2, <1>4 DEF Hashed
  <2>3. Recomputed(d, JournalOf(d)) = Stated(manifest[d].transcriptHash)
    <3>1. {"public_setup.json", "final_release.json"} \subseteq Hashed(Kind(p)) \ {Journal}
      BY DEF Hashed, Journal
    <3>2. files[d]["public_setup.json"] = <<p>> /\ files[d]["final_release.json"] = <<p>>
      BY <1>4, <3>1
    <3>. QED
      BY <1>2, <1>4, <3>2 DEF Recomputed, Stated, CompleteTranscript
  <2>. QED
    BY <2>1, <2>2, <2>3 DEF FilesMatch
<1>6. ASSUME manifest[d].kind \in OnChainKinds PROVE ClaimMatches(d)
  <2>1. OnChain(p) /\ "chain_snapshot.json" \in Hashed(Kind(p)) \ {Journal}
    BY <1>2, <1>6 DEF OnChain, Kind, Hashed, Journal
  <2>2. Head(files[d]["chain_snapshot.json"]) = p
    BY <1>4, <2>1
  <2>3. PollOf(p)
    BY ShapeOf DEF MemoryOf
  <2>4. /\ poll[p].phase = "Claimed" /\ poll[p].acceptedBallotCount = N
        /\ poll[p].backendTranscriptHash = CompleteTranscript(p)
        /\ poll[p].outcomeBit = Decision[p]
    BY <1>3, <2>1, <2>3 DEF PollOf
  <2>. QED
    BY <1>2, <2>2, <2>4 DEF ClaimMatches
<1>. QED
  BY <1>2, <1>4, <1>5, <1>6 DEF OracleDir, OracleFile

\* What the disk, the chain and the memory of every process hold, as a function of
\* the step it is at.
THEOREM EveryStepLeavesEvidence == Spec => []EInv
<1>1. Init => EInv
  BY InitEInv
<1>2. EInv /\ [Next]_vars => EInv'
  BY NextEInv
<1>. QED
  BY <1>1, <1>2, PTL DEF Spec

\* Whenever a poll is claimed, wherever its process was stopped since, and whoever
\* else ran in the same directories: the files its transcript hash is made of are
\* there.
THEOREM ClaimsAreBacked == Spec => []ClaimIsBacked
BY EveryStepLeavesEvidence, ClaimBacked, PTL

\* Whoever finds a manifest finds all that it hashes, the claim and the oracle
\* inputs of its process.
THEOREM ManifestsAreEvidence == Spec => []ManifestIsEvidence
BY EveryStepLeavesEvidence, ManifestEvidence, PTL

-----------------------------------------------------------------------------
(* A public run implements a published outcome                             *)

TrueOutcome(p) == OutcomeOf(Decision[p], CompleteTranscript(p))

\* The outcomes of a state, in the terms of the invariant.
OutcomesOf(p) ==
  /\ ClaimedOutcome[p] = IF poll[p].phase = "Claimed" THEN TrueOutcome(p) ELSE None
  /\ AttestedOutcome[p] = IF ManifestBy(p) THEN TrueOutcome(p) ELSE None
  /\ ConfirmedOutcome[p] =
       IF ManifestBy(p) /\ publicReplay[RunDir(p)] # None THEN TrueOutcome(p) ELSE None
  /\ ManifestBy(p) =>
       /\ manifest[RunDir(p)] = CompleteManifest(p)
       /\ OnChain(p) => poll[p].phase = "Claimed"
  /\ TrueOutcome(p) \in [result : {0, 1}, transcript : Transcripts]

LEMMA Outcomes == EInv => \A p \in Processes : OutcomesOf(p)
<1>. SUFFICES ASSUME EInv, NEW p \in Processes PROVE OutcomesOf(p)
  OBVIOUS
<1>1. poll[p].phase = "Claimed" =>
        poll[p].outcomeBit = Decision[p] /\ poll[p].backendTranscriptHash = CompleteTranscript(p)
  BY ShapeOf DEF MemoryOf, PollOf
<1>2. ASSUME ManifestBy(p)
      PROVE  /\ manifest[RunDir(p)] = CompleteManifest(p)
             /\ OnChain(p) => poll[p].phase = "Claimed"
  <2>1. manifest[RunDir(p)] # None /\ manifest[RunDir(p)].by = p /\ RunDir(p) \in Directories
    BY <1>2, DirectoriesOf DEF ManifestBy, EInv, IInv, ProcessInv
  <2>2. PICK q \in Processes :
          at[q] > ManifestAt(Kind(q)) /\ manifest[RunDir(p)] = CompleteManifest(q)
    BY <2>1 DEF EInv, Evidence, ReadersInv, ManifestOfRun
  <2>3. q = p
    BY <2>1, <2>2 DEF CompleteManifest
  <2>4. OnChain(p) => at[p] > ClaimAt(Kind(p))
    <3>1. Kind(p) \in Kinds /\ at[p] \in Nat
      BY ShapeOf
    <3>. QED
      BY <2>2, <2>3, <3>1, Positions DEF OnChain, Kind
  <2>5. PollOf(p)
    BY ShapeOf DEF MemoryOf
  <2>. QED
    BY <2>2, <2>3, <2>4, <2>5 DEF PollOf
<1>3. ManifestBy(p) =>
        /\ manifest[RunDir(p)].resultBit = Decision[p]
        /\ manifest[RunDir(p)].transcriptHash = CompleteTranscript(p)
  BY <1>2 DEF CompleteManifest
<1>4. ManifestBy(p) /\ publicReplay[RunDir(p)] # None =>
        /\ publicReplay[RunDir(p)].resultBit = Decision[p]
        /\ publicReplay[RunDir(p)].transcriptHash = CompleteTranscript(p)
  <2>1. ReplayOf(RunDir(p))
    BY DirectoriesOf DEF EInv, Evidence, ReadersInv, IInv, ProcessInv
  <2>. QED
    BY <1>3, <2>1 DEF ReplayOf
<1>5. CompleteTranscript(p) \in Transcripts
  <2>1. CompleteJournal(p) \in Seq(Parts)
    BY RunAssumption, FunctionIsSeq DEF CompleteJournal, Parts
  <2>. QED
    BY <2>1 DEF CompleteTranscript, Transcripts
<1>6. TrueOutcome(p) \in [result : {0, 1}, transcript : Transcripts]
  BY <1>5, RunAssumption DEF TrueOutcome, OutcomeOf
<1>. QED
  BY <1>1, <1>2, <1>3, <1>4, <1>6
  DEF OutcomesOf, ClaimedOutcome, AttestedOutcome, ConfirmedOutcome, TrueOutcome

LEMMA LaterOutcomes == EInv' => (\A p \in Processes : OutcomesOf(p))'
BY Outcomes, PTL

\* A step that changes no manifest and no replay, and claims nothing.
LEMMA NothingPublished ==
  ASSUME UNCHANGED <<job, manifest, publicReplay>>,
         \A p \in Processes :
           poll'[p] = poll[p] \/ (poll[p].phase # "Claimed" /\ poll'[p].phase # "Claimed")
  PROVE  UNCHANGED O!ovars
<1>1. UNCHANGED <<{p \in Processes : OnChain(p)}, AttestedOutcome, ConfirmedOutcome>>
  BY DEF OnChain, AttestedOutcome, ConfirmedOutcome, ManifestBy, RunDir, OutcomeOf
<1>2. UNCHANGED ClaimedOutcome
  BY DEF ClaimedOutcome, OutcomeOf
<1>. QED
  BY <1>1, <1>2 DEF O!ovars

LEMMA InitRefines == Init => O!OInit
<1>. SUFFICES ASSUME Init PROVE O!OInit
  OBVIOUS
<1>1. \A p \in Processes : poll[p].phase = "None"
  BY DEF Init, RunInit, Contract!Init, Contract!NotDeployed
<1>2. \A p \in Processes : ~ManifestBy(p)
  <2>1. \A p \in Processes : RunDir(p) \in Directories
    BY InitIInv, DirectoriesOf DEF IInv, ProcessInv
  <2>. QED
    BY <2>1 DEF Init, RunInit, ManifestBy
<1>. QED
  BY <1>1, <1>2 DEF O!OInit, ClaimedOutcome, AttestedOutcome, ConfirmedOutcome

\* A mined claim is the Claim of a published outcome.
LEMMA MineRefines ==
  ASSUME EInv, EInv', NEW p \in Processes, Mine(p), UNCHANGED publicReplay
  PROVE  O!ONext \/ UNCHANGED O!ovars
<1>0. \A q \in Processes : OutcomesOf(q) /\ OutcomesOf(q)'
  BY Outcomes, LaterOutcomes
<1>1. UNCHANGED <<job, at, manifest, publicReplay>>
  BY DEF Mine, diskVars
<1>2. CASE tx[p].call # "claim"
  <2>1. \A q \in Processes :
          poll'[q] = poll[q] \/ (poll[q].phase # "Claimed" /\ poll'[q].phase # "Claimed")
    BY <1>2, MinedPoll
  <2>. QED
    BY <1>1, <2>1, NothingPublished
<1>3. CASE tx[p].call = "claim"
  <2>1. /\ poll[p].phase = "Sealed" /\ poll'[p].phase = "Claimed"
        /\ \A q \in Processes \ {p} : poll'[q] = poll[q]
    BY <1>3, MinedPoll
  <2>2. OnChain(p)
    <3>1. PollOf(p)'
      BY DEF EInv, Evidence, MemoryOf
    <3>. QED
      BY <1>1, <2>1, <3>1 DEF PollOf, OnChain
  <2>3. UNCHANGED <<{q \in Processes : OnChain(q)}, AttestedOutcome, ConfirmedOutcome>>
    BY <1>1 DEF OnChain, AttestedOutcome, ConfirmedOutcome, ManifestBy, RunDir, OutcomeOf
  <2>4. \A q \in Processes \ {p} : ClaimedOutcome'[q] = ClaimedOutcome[q]
    BY <2>1 DEF ClaimedOutcome, OutcomeOf
  <2>5. ClaimedOutcome[p] = None
    BY <2>1 DEF ClaimedOutcome
  <2>6. ClaimedOutcome'[p] \in [result : {0, 1}, transcript : Transcripts]
    <3>1. ClaimedOutcome'[p] = TrueOutcome(p)'
      BY <1>0, <2>1 DEF OutcomesOf
    <3>2. TrueOutcome(p)' = TrueOutcome(p)
      BY DEF TrueOutcome, OutcomeOf, CompleteTranscript, CompleteJournal
    <3>. QED
      BY <1>0, <3>1, <3>2 DEF OutcomesOf
  <2>7. O!Claim(p)
    BY <2>2, <2>3, <2>4, <2>5, <2>6 DEF O!Claim
  <2>. QED
    BY <2>7 DEF O!ONext
<1>. QED
  BY <1>2, <1>3

\* A written manifest is the Attest of a published outcome.
LEMMA WriteManifestRefines ==
  ASSUME EInv, EInv', NEW p \in Processes, WriteManifest(p), UNCHANGED publicReplay
  PROVE  O!ONext \/ UNCHANGED O!ovars
<1>. DEFINE d == RunDir(p)
<1>0. \A q \in Processes : OutcomesOf(q) /\ OutcomesOf(q)'
  BY Outcomes, LaterOutcomes
<1>1. /\ At(p, "manifest") /\ UNCHANGED <<job, poll, publicReplay>>
      /\ manifest' = [manifest EXCEPT ![d] = ManifestOf(p)]
  BY DEF WriteManifest, contractVars
<1>2. /\ manifest[d] = None /\ publicReplay[d] = None /\ d \in Directories
      /\ DOMAIN manifest = Directories
  BY <1>1, ManifestIsComplete, DirectoriesOf
  DEF EInv, Evidence, ReadersInv, ReplayOf, ShapeInv, IInv, ProcessInv
<1>3. manifest'[d] = CompleteManifest(p)
  BY <1>1, <1>2, ManifestIsComplete
<1>4. /\ UNCHANGED <<{q \in Processes : OnChain(q)}, ClaimedOutcome>>
      /\ \A q \in Processes : RunDir(q)' = RunDir(q) /\ OnChain(q)' = OnChain(q)
                              /\ TrueOutcome(q)' = TrueOutcome(q)
  BY <1>1 DEF OnChain, ClaimedOutcome, OutcomeOf, RunDir, TrueOutcome, CompleteTranscript,
              CompleteJournal
<1>5. ASSUME NEW q \in Processes, q # p PROVE ManifestBy(q)' = ManifestBy(q)
  <2>1. CASE RunDir(q) = d
    <3>1. ~ManifestBy(q)
      BY <2>1, <1>2 DEF ManifestBy
    <3>2. ~ManifestBy(q)'
      BY <2>1, <1>3, <1>4, <1>5 DEF ManifestBy, CompleteManifest
    <3>. QED
      BY <3>1, <3>2 DEF ManifestBy
  <2>2. CASE RunDir(q) # d
    BY <2>2, <1>1, <1>4 DEF ManifestBy
  <2>. QED
    BY <2>1, <2>2
<1>6. ~ManifestBy(p)
  BY <1>2 DEF ManifestBy
<1>7. \A q \in Processes \ {p} : AttestedOutcome'[q] = AttestedOutcome[q]
  BY <1>0, <1>4, <1>5 DEF OutcomesOf
<1>8. UNCHANGED ConfirmedOutcome
  <2>1. \A q \in Processes : ConfirmedOutcome'[q] = ConfirmedOutcome[q]
    <3>1. ASSUME NEW q \in Processes, q # p PROVE ConfirmedOutcome'[q] = ConfirmedOutcome[q]
      BY <1>0, <1>1, <1>4, <1>5, <3>1 DEF OutcomesOf
    <3>2. ConfirmedOutcome'[p] = ConfirmedOutcome[p]
      BY <1>0, <1>1, <1>2, <1>4 DEF OutcomesOf
    <3>. QED
      BY <3>1, <3>2
  <2>. QED
    BY <2>1 DEF ConfirmedOutcome
<1>9. AttestedOutcome[p] = None
  BY <1>0, <1>6 DEF OutcomesOf
<1>10. CASE AttestedOutcome'[p] = None
  <2>1. \A q \in Processes : AttestedOutcome'[q] = AttestedOutcome[q]
    BY <1>7, <1>9, <1>10
  <2>2. UNCHANGED AttestedOutcome
    BY <2>1 DEF AttestedOutcome
  <2>. QED
    BY <1>4, <1>8, <2>2 DEF O!ovars
<1>11. CASE AttestedOutcome'[p] # None
  <2>1. ManifestBy(p)' /\ AttestedOutcome'[p] = TrueOutcome(p)
    BY <1>0, <1>4, <1>11 DEF OutcomesOf
  <2>2. AttestedOutcome'[p] \in [result : {0, 1}, transcript : Transcripts]
    BY <1>0, <2>1 DEF OutcomesOf
  <2>3. OnChain(p) => ClaimedOutcome[p] = TrueOutcome(p)
    <3>1. OnChain(p) => poll[p].phase = "Claimed"
      BY <1>0, <1>1, <1>4, <2>1 DEF OutcomesOf
    <3>. QED
      BY <1>0, <3>1 DEF OutcomesOf
  <2>4. O!Attest(p)
    BY <1>4, <1>7, <1>8, <1>9, <1>11, <2>1, <2>2, <2>3 DEF O!Attest
  <2>. QED
    BY <2>4 DEF O!ONext
<1>. QED
  BY <1>10, <1>11

\* A replay is the Confirm of a published outcome, or says what one said before.
LEMMA ReplayRefines ==
  ASSUME EInv, EInv', NEW d \in Directories, Replay(d)
  PROVE  O!ONext \/ UNCHANGED O!ovars
<1>0. \A q \in Processes : OutcomesOf(q) /\ OutcomesOf(q)'
  BY Outcomes, LaterOutcomes
<1>1. /\ UNCHANGED <<job, poll, manifest>> /\ manifest[d] # None
      /\ publicReplay' = [publicReplay EXCEPT ![d] =
           [transcriptHash |-> manifest[d].transcriptHash, resultBit |-> manifest[d].resultBit]]
  BY DEF Replay, SepoliaReplayPasses, LocalReplayPasses, FilesMatch, runVars, contractVars,
         processVars, diskVars
<1>2. PICK p \in Processes : RunDir(p) = d /\ manifest[d] = CompleteManifest(p)
  BY <1>1 DEF EInv, Evidence, ReadersInv, ManifestOfRun
<1>3. /\ UNCHANGED <<{q \in Processes : OnChain(q)}, ClaimedOutcome, AttestedOutcome>>
      /\ \A q \in Processes : RunDir(q)' = RunDir(q) /\ ManifestBy(q)' = ManifestBy(q)
                              /\ TrueOutcome(q)' = TrueOutcome(q)
  BY <1>1 DEF OnChain, ClaimedOutcome, AttestedOutcome, OutcomeOf, RunDir, ManifestBy,
              TrueOutcome, CompleteTranscript, CompleteJournal
<1>4. \A q \in Processes \ {p} : ConfirmedOutcome'[q] = ConfirmedOutcome[q]
  <2>1. ASSUME NEW q \in Processes \ {p} PROVE ConfirmedOutcome'[q] = ConfirmedOutcome[q]
    <3>1. CASE RunDir(q) = d
      <4>1. ~ManifestBy(q)
        BY <1>2, <3>1 DEF ManifestBy, CompleteManifest
      <4>. QED
        BY <1>0, <4>1, <1>3 DEF OutcomesOf
    <3>2. CASE RunDir(q) # d
      <4>1. publicReplay'[RunDir(q)] = publicReplay[RunDir(q)]
        BY <1>1, <3>2
      <4>. QED
        BY <1>0, <4>1, <1>3 DEF OutcomesOf
    <3>. QED
      BY <3>1, <3>2
  <2>. QED
    BY <2>1
<1>5. ManifestBy(p) /\ AttestedOutcome[p] = TrueOutcome(p)
  <2>1. ManifestBy(p)
    BY <1>1, <1>2 DEF ManifestBy, CompleteManifest
  <2>. QED
    BY <1>0, <2>1 DEF OutcomesOf
<1>6. ConfirmedOutcome'[p] \in {None, TrueOutcome(p)}
      /\ ConfirmedOutcome[p] \in {None, TrueOutcome(p)}
  BY <1>0, <1>3 DEF OutcomesOf
<1>7. CASE ConfirmedOutcome'[p] = ConfirmedOutcome[p]
  <2>1. \A q \in Processes : ConfirmedOutcome'[q] = ConfirmedOutcome[q]
    BY <1>4, <1>7
  <2>2. UNCHANGED ConfirmedOutcome
    BY <2>1 DEF ConfirmedOutcome
  <2>. QED
    BY <1>3, <2>2 DEF O!ovars
<1>8. CASE ConfirmedOutcome'[p] # ConfirmedOutcome[p]
  <2>1. ConfirmedOutcome[p] = None /\ ConfirmedOutcome'[p] = TrueOutcome(p)
        /\ TrueOutcome(p) # None
    <3>1. publicReplay[d] = None
      <4>0. SUFFICES ASSUME publicReplay[d] # None PROVE FALSE
        OBVIOUS
      <4>1. publicReplay'[d] = publicReplay[d]
        <5>1. /\ DOMAIN publicReplay = Directories
              /\ publicReplay[d] = [transcriptHash |-> manifest[d].transcriptHash,
                                    resultBit |-> manifest[d].resultBit]
          BY <4>0 DEF EInv, Evidence, ReadersInv, ReplayOf, ShapeInv
        <5>. QED
          BY <1>1, <5>1
      <4>. QED
        BY <1>0, <1>2, <1>3, <1>8, <4>1 DEF OutcomesOf
    <3>2. ConfirmedOutcome[p] = None
      BY <1>0, <1>2, <3>1 DEF OutcomesOf
    <3>. QED
      BY <3>2, <1>6, <1>8
  <2>2. ConfirmedOutcome' = [ConfirmedOutcome EXCEPT ![p] = AttestedOutcome[p]]
    <3>1. \A q \in Processes :
            ConfirmedOutcome'[q] = IF q = p THEN AttestedOutcome[p] ELSE ConfirmedOutcome[q]
      BY <1>4, <1>5, <2>1
    <3>. QED
      BY <3>1 DEF ConfirmedOutcome
  <2>3. O!Confirm(p)
    BY <1>3, <1>5, <2>1, <2>2 DEF O!Confirm
  <2>. QED
    BY <2>3 DEF O!ONext
<1>. QED
  BY <1>7, <1>8

LEMMA NextRefines == EInv /\ EInv' /\ [Next]_vars => [O!ONext]_(O!ovars)
<1>. SUFFICES ASSUME EInv, EInv', [Next]_vars PROVE O!ONext \/ UNCHANGED O!ovars
  OBVIOUS
<1>1. ASSUME UNCHANGED <<job, manifest, publicReplay, poll>> PROVE UNCHANGED O!ovars
  BY <1>1, NothingPublished
<1>2. ASSUME NEW p \in Processes, ProcessStep(p), UNCHANGED publicReplay
      PROVE  O!ONext \/ UNCHANGED O!ovars
  <2>1. CASE WriteManifest(p)
    BY <1>2, <2>1, WriteManifestRefines
  <2>2. CASE ~WriteManifest(p)
    BY <1>1, <1>2, <2>2
    DEF ProcessStep, Check, MakeRunDirectory, WriteSetup, MakeOracleDirectory, WriteFile,
        ReadJournal, HashTranscript, Send, Receive, Stop, BallotChildFails, contractVars,
        diskVars
  <2>. QED
    BY <2>1, <2>2
<1>3. ASSUME NEW p \in Processes, Mine(p), UNCHANGED publicReplay
      PROVE  O!ONext \/ UNCHANGED O!ovars
  BY <1>3, MineRefines
<1>4. ASSUME NEW p \in Processes, Revert(p), UNCHANGED publicReplay PROVE UNCHANGED O!ovars
  BY <1>1, <1>4 DEF Revert, contractVars, diskVars
<1>5. ASSUME NEW p \in Processes, Abandon(p), UNCHANGED publicReplay PROVE UNCHANGED O!ovars
  <2>1. /\ UNCHANGED <<job, manifest, publicReplay>> /\ poll[p].phase = "Open"
        /\ poll' = [poll EXCEPT ![p].phase = "Abandoned"]
    BY <1>5 DEF Abandon, Contract!Abandon, processVars, diskVars
  <2>2. poll'[p].phase = "Abandoned" /\ \A q \in Processes \ {p} : poll'[q] = poll[q]
    BY <2>1, ShapeOf DEF PollFields
  <2>3. \A q \in Processes :
          poll'[q] = poll[q] \/ (poll[q].phase # "Claimed" /\ poll'[q].phase # "Claimed")
    BY <2>1, <2>2
  <2>. QED
    BY <2>1, <2>3, NothingPublished
<1>6. ASSUME BlockTime, UNCHANGED publicReplay PROVE UNCHANGED O!ovars
  BY <1>1, <1>6 DEF BlockTime, Contract!Tick, processVars, diskVars
<1>7. ASSUME NEW d \in Directories, Replay(d) PROVE O!ONext \/ UNCHANGED O!ovars
  BY <1>7, ReplayRefines
<1>8. ASSUME NEW d \in Directories, Compare(d) \/ PackByHand(d) \/ DropJournal(d)
      PROVE  UNCHANGED O!ovars
  BY <1>1, <1>8 DEF Compare, PackByHand, DropJournal, runVars, contractVars, processVars,
                    diskVars
<1>9. CASE UNCHANGED vars
  BY <1>1, <1>9 DEF vars, runVars, contractVars, processVars, diskVars
<1>. QED
  BY <1>2, <1>3, <1>4, <1>5, <1>6, <1>7, <1>8, <1>9 DEF Next, RunNext

\* Claim, manifest and replay of every process are those of one published outcome.
THEOREM OneOutcomePerRun == Spec => ImplementsPublishedOutcome
BY InitRefines, NextRefines, EveryStepLeavesEvidence, PTL
DEF Spec, ImplementsPublishedOutcome, O!OSpec

-----------------------------------------------------------------------------
(***************************************************************************)
(* Proofs about the compact form, for any journal, any lengths of pieces,  *)
(* chunks and deflated chunks that the format allows, and whatever is      *)
(* written and read at a time.  That the journal has a chunk in every      *)
(* frame needs that pieces are a part of a chunk, since a flush takes all  *)
(* that was gathered.  The invariant says which frames are in the file and *)
(* which of them were taken; the file begins the encoding of the journal,  *)
(* so that whatever unpack finds next is the next frame or a part of it.   *)
(***************************************************************************)

\* A product grows with its factor.
LEMMA ProductsGrow ==
  ASSUME NEW a \in Int, NEW b \in Int, NEW c \in Nat, a <= b
  PROVE  a * c <= b * c
<1>1. (b - a) * c = b * c - a * c
  OBVIOUS
<1>2. b - a \in Nat
  OBVIOUS
<1> DEFINE d == b - a
<1>3. d * c >= 0
  <2> HIDE DEF d
  <2>1. d \in Nat
    BY <1>2 DEF d
  <2> QED
    BY <2>1
<1> QED
  BY <1>1, <1>3

\* A length has one number of chunks that holds it with less than a chunk to
\* spare: the one that the format counts.
LEMMA ChunkCounts ==
  ASSUME NEW n \in Nat
  PROVE  LET k == (n + ChunkBytes - 1) \div ChunkBytes
         IN /\ k \in Nat /\ n <= k * ChunkBytes /\ k * ChunkBytes < n + ChunkBytes
            /\ \A i \in Nat : n <= i * ChunkBytes /\ i * ChunkBytes < n + ChunkBytes => i = k
<1> DEFINE C == ChunkBytes
           x == n + C - 1
           k == x \div C
<1>1. C \in Nat /\ C > 0 /\ x \in Nat
  BY CodecAssumption
<1>2. k \in Int /\ C * k <= x /\ x < C * k + C
  <2> HIDE DEF x, C
  <2> QED
    BY <1>1
<1>3. C * k = k * C /\ k * C \in Int
  <2> HIDE DEF k, C
  <2> QED
    BY <1>1, <1>2
<1>4. n <= k * C /\ k * C < n + C
  <2> DEFINE p == k * C
  <2> HIDE DEF k, C, p
  <2>1. p \in Int /\ p <= n + C - 1 /\ n + C - 1 < p + C
    BY <1>2, <1>3 DEF p
  <2>2. n <= p /\ p < n + C
    BY <1>1, <2>1
  <2> QED
    BY <2>2 DEF p
<1>5. k \in Nat
  <2> HIDE DEF k
  <2> SUFFICES ASSUME k <= -1 PROVE FALSE
    BY <1>2
  <2>1. k * C <= (-1) * C
    BY <1>1, <1>2, ProductsGrow
  <2>2. k * C \in Int /\ (-1) * C < 0
    BY <1>1, <1>2
  <2> QED
    BY <1>1, <1>4, <2>1, <2>2
<1>6. ASSUME NEW i \in Nat, n <= i * C, i * C < n + C PROVE i = k
  <2> HIDE DEF k
  <2>0. i * C \in Nat /\ k * C \in Nat /\ (i + 1) * C = i * C + C /\ (k + 1) * C = k * C + C
    BY <1>1, <1>5
  <2>1. CASE i + 1 <= k
    <3>1. (i + 1) * C <= k * C
      BY <1>1, <1>5, <2>1, ProductsGrow
    <3> QED
      BY <1>1, <1>4, <1>6, <2>0, <3>1
  <2>2. CASE k + 1 <= i
    <3>1. (k + 1) * C <= i * C
      BY <1>1, <1>5, <2>2, ProductsGrow
    <3> QED
      BY <1>1, <1>4, <1>6, <2>0, <3>1
  <2> QED
    BY <1>5, <2>1, <2>2
<1> HIDE DEF k
<1>7. \A i \in Nat : n <= i * C /\ i * C < n + C => i = k
  BY <1>6
<1> QED
  BY <1>4, <1>5, <1>7 DEF k

-----------------------------------------------------------------------------
(* What FlattenSeq computes.                                                *)

\* The function by which FlattenSeq is defined.
Flattens(h, f, n) == h = [i \in 1..n |-> IF i = 1 THEN f[i] ELSE h[i - 1] \o f[i]]

LEMMA FlattensAlone ==
  ASSUME NEW f, NEW n \in Nat, NEW m \in 0..n, NEW h, NEW g, Flattens(h, f, n),
         NEW e, \A i \in 1..m : e[i] = f[i], Flattens(g, e, m)
  PROVE  \A k \in 1..m : g[k] = h[k]
<1> DEFINE T == {i \in 1..m : g[i] = h[i]}
<1>1. m > 0 => 1 \in T
  <2> SUFFICES ASSUME m > 0 PROVE 1 \in T
    OBVIOUS
  <2>1. 1 \in 1..m /\ 1 \in 1..n
    OBVIOUS
  <2>2. g[1] = IF 1 = 1 THEN e[1] ELSE g[1 - 1] \o e[1]
    BY <2>1 DEF Flattens
  <2>3. h[1] = IF 1 = 1 THEN f[1] ELSE h[1 - 1] \o f[1]
    BY <2>1 DEF Flattens
  <2> QED
    BY <2>1, <2>2, <2>3
<1>2. ASSUME NEW b \in 1..m, b \in T, b < m PROVE b + 1 \in T
  <2>1. b + 1 \in 1..m /\ b + 1 \in 1..n /\ b + 1 # 1 /\ (b + 1) - 1 = b
    BY <1>2
  <2> DEFINE c == b + 1
  <2> HIDE DEF c
  <2>2. c \in 1..m /\ c \in 1..n /\ c # 1 /\ c - 1 = b
    BY <2>1 DEF c
  <2>3. g[c] = IF c = 1 THEN e[c] ELSE g[c - 1] \o e[c]
    BY <2>2 DEF Flattens
  <2>4. h[c] = IF c = 1 THEN f[c] ELSE h[c - 1] \o f[c]
    BY <2>2 DEF Flattens
  <2>5. g[c] = h[c]
    BY <1>2, <2>2, <2>3, <2>4
  <2> QED
    BY <2>1, <2>5 DEF c
<1> HIDE DEF T
<1>3. 1..m \subseteq T
  BY <1>1, <1>2, InductionUp
<1> QED
  BY <1>3 DEF T

LEMMA FlattenSeqIs ==
  ASSUME NEW S, NEW n \in Nat, n > 0, NEW f \in [1..n -> Seq(S)]
  PROVE  \E h \in [1..n -> Seq(S)] : Flattens(h, f, n) /\ FlattenSeq(f) = h[n]
<1> DEFINE step == [b \in 1..n |-> [s \in Seq(S) |-> s \o f[b]]]
<1>1. step \in [1..n -> [Seq(S) -> Seq(S)]]
  <2>1. \A b \in 1..n : \A s \in Seq(S) : s \o f[b] \in Seq(S)
    BY ConcatProperties
  <2> QED
    BY <2>1
<1>2. PICK g \in [1..n -> Seq(S)] :
        \A b \in 1..n : g[b] = IF b = 1 THEN f[1] ELSE step[b][g[b - 1]]
  <2> HIDE DEF step
  <2>1. 1 \in Int /\ n \in Int /\ f[1] \in Seq(S)
    OBVIOUS
  <2>2. SolvableUp(1, n, Seq(S), f[1], step)
    BY <1>1, <2>1, RecursionUp
  <2> QED
    BY <2>2, Zenon DEF SolvableUp
<1>3. Flattens(g, f, n)
  <2>1. \A b \in 1..n : g[b] = IF b = 1 THEN f[b] ELSE g[b - 1] \o f[b]
    <3> TAKE b \in 1..n
    <3>1. CASE b = 1
      BY <1>2, <3>1
    <3>2. CASE b # 1
      <4>1. b - 1 \in 1..n
        BY <3>2
      <4>2. g[b - 1] \in Seq(S)
        BY <4>1
      <4>3. step[b][g[b - 1]] = g[b - 1] \o f[b]
        BY <4>2
      <4> QED
        BY <1>2, <3>2, <4>3
    <3> QED
      BY <3>1, <3>2
  <2> QED
    BY <2>1 DEF Flattens
<1> DEFINE flat == CHOOSE h : Flattens(h, f, n)
<1>4. Flattens(flat, f, n)
  BY <1>3
<1>5. FlattenSeq(f) = flat[n]
  <2>1. Len(f) = n /\ Len(f) # 0
    OBVIOUS
  <2> QED
    BY <2>1 DEF FlattenSeq, Flattens
<1> HIDE DEF flat
<1>6. \A i \in 1..n : flat[i] = g[i]
  <2>1. n \in 0..n
    OBVIOUS
  <2> QED
    BY <1>3, <1>4, <2>1, FlattensAlone
<1>7. flat \in [1..n -> Seq(S)]
  <2>1. flat = [i \in 1..n |-> flat[i]]
    BY <1>4 DEF Flattens
  <2>2. \A i \in 1..n : flat[i] \in Seq(S)
    BY <1>6
  <2> QED
    BY <2>1, <2>2
<1> QED
  BY <1>4, <1>5, <1>7

LEMMA FlattensGrows ==
  ASSUME NEW n \in Nat, n > 0, NEW f, NEW e, NEW h, NEW g, Flattens(h, f, n + 1),
         \A i \in 1..n : e[i] = f[i], Flattens(g, e, n)
  PROVE  h[n + 1] = g[n] \o f[n + 1]
<1> DEFINE top == n + 1
<1>1. top \in Nat /\ n \in 0..top /\ n \in 1..n /\ Flattens(h, f, top)
  OBVIOUS
<1>2. top \in 1..top /\ top # 1 /\ top - 1 = n
  OBVIOUS
<1> HIDE DEF top
<1>3. g[n] = h[n]
  BY <1>1, FlattensAlone
<1>4. h[top] = IF top = 1 THEN f[top] ELSE h[top - 1] \o f[top]
  BY <1>1, <1>2 DEF Flattens
<1> QED
  BY <1>2, <1>3, <1>4 DEF top

\* One sequence more is appended.
LEMMA FlattenSeqGrows ==
  ASSUME NEW S, NEW n \in Nat, NEW f, f \in [1..(n + 1) -> Seq(S)],
         NEW e, e \in [1..n -> Seq(S)], \A i \in 1..n : e[i] = f[i]
  PROVE  /\ FlattenSeq(e) \in Seq(S)
         /\ FlattenSeq(f) = FlattenSeq(e) \o f[n + 1]
<1>0. f[n + 1] \in Seq(S)
  OBVIOUS
<1>1. PICK h : /\ h \in [1..(n + 1) -> Seq(S)]
               /\ Flattens(h, f, n + 1) /\ FlattenSeq(f) = h[n + 1]
  BY FlattenSeqIs
<1>2. CASE n = 0
  <2>1. e = <<>> /\ Len(e) = 0
    BY <1>2
  <2>2. FlattenSeq(e) = <<>>
    BY <2>1 DEF FlattenSeq
  <2>3. h[1] = IF 1 = 1 THEN f[1] ELSE h[1 - 1] \o f[1]
    BY <1>1, <1>2 DEF Flattens
  <2>4. FlattenSeq(f) = f[n + 1]
    BY <1>1, <1>2, <2>3
  <2>5. <<>> \o f[n + 1] = f[n + 1]
    BY <1>0
  <2>6. <<>> \in Seq(S)
    BY EmptySeq
  <2> QED
    BY <2>2, <2>4, <2>5, <2>6
<1>3. CASE n > 0
  <2>1. PICK g : g \in [1..n -> Seq(S)] /\ Flattens(g, e, n) /\ FlattenSeq(e) = g[n]
    BY <1>3, FlattenSeqIs
  <2>2. h[n + 1] = g[n] \o f[n + 1]
    BY <1>1, <1>3, <2>1, FlattensGrows
  <2>3. g[n] \in Seq(S)
    BY <1>3, <2>1
  <2> QED
    BY <1>1, <2>1, <2>2, <2>3
<1> QED
  BY <1>2, <1>3

-----------------------------------------------------------------------------
(* The compact form.                                                        *)

Cells ==
  Nat \cup {<<"magic", i>> : i \in Nat}
      \cup {<<"deflated", raw, i>> : raw \in Seq(Bytes), i \in Nat}

\* The first i chunks, and the file that holds them.
Part(bytes, i) == SubSeq(bytes, 1, ChunkEnd(bytes, i))
Beginning(bytes, i) == Header \o FlattenSeq([j \in 1..i |-> Frame(Chunk(bytes, j))])

Begins(s, t) == Len(s) <= Len(t) /\ \A i \in 1..Len(s) : s[i] = t[i]

LEMMA ChunkBytesIs == ChunkBytes \in Nat /\ ChunkBytes > 0
BY CodecAssumption

LEMMA ChunkCountIs ==
  ASSUME NEW b \in Seq(Bytes)
  PROVE  /\ ChunkCount(b) \in Nat
         /\ Len(b) <= ChunkCount(b) * ChunkBytes
         /\ ChunkCount(b) * ChunkBytes < Len(b) + ChunkBytes
         /\ \A i \in Nat :
              Len(b) <= i * ChunkBytes /\ i * ChunkBytes < Len(b) + ChunkBytes => i = ChunkCount(b)
<1>1. Len(b) \in Nat
  OBVIOUS
<1> QED
  BY <1>1, ChunkCounts DEF ChunkCount

\* Every chunk before the last is full.
LEMMA ChunkEnds ==
  ASSUME NEW b \in Seq(Bytes), NEW i \in 0..ChunkCount(b)
  PROVE  /\ ChunkEnd(b, i) \in 0..Len(b)
         /\ i = ChunkCount(b) => ChunkEnd(b, i) = Len(b)
         /\ i < ChunkCount(b) => i * ChunkBytes < Len(b) /\ ChunkEnd(b, i) = i * ChunkBytes
<1> DEFINE C == ChunkBytes
           k == ChunkCount(b)
<1>1. C \in Nat /\ C > 0 /\ Len(b) \in Nat /\ k \in Nat /\ i \in Nat /\ i <= k
  BY ChunkBytesIs, ChunkCountIs
<1>2. i * C \in Nat /\ k * C \in Nat /\ Len(b) <= k * C /\ k * C < Len(b) + C
  <2>1. \A x, y \in Nat : x * y \in Nat
    OBVIOUS
  <2> HIDE DEF C, k
  <2>2. i * C \in Nat /\ k * C \in Nat
    BY <1>1, <2>1
  <2> QED
    BY <2>2, ChunkCountIs DEF C, k
<1>3. ASSUME i < k PROVE i * C < Len(b)
  <2> HIDE DEF C, k
  <2>1. (i + 1) * C <= k * C
    BY <1>1, <1>3, ProductsGrow
  <2>2. (i + 1) * C = i * C + C
    BY <1>1
  <2> DEFINE p == i * C
             q == k * C
  <2>3. p + C <= q /\ p \in Nat /\ q \in Nat /\ q < Len(b) + C
    BY <1>2, <2>1, <2>2
  <2> HIDE DEF p, q
  <2>4. p < Len(b)
    BY <1>1, <2>3
  <2> QED
    BY <2>4 DEF p
<1>4. CASE i < k
  <2>1. ChunkEnd(b, i) = i * C
    BY <1>3, <1>4 DEF ChunkEnd
  <2> HIDE DEF C, k
  <2>2. ChunkEnd(b, i) \in 0..Len(b)
    BY <1>1, <1>2, <1>3, <1>4, <2>1
  <2> QED
    BY <1>1, <1>3, <1>4, <2>1, <2>2 DEF C, k
<1>5. CASE i = k
  <2>1. ~(i * C < Len(b))
    <3> HIDE DEF C, k
    <3> QED
      BY <1>1, <1>2, <1>5
  <2>2. ChunkEnd(b, i) = Len(b)
    BY <2>1 DEF ChunkEnd
  <2> QED
    BY <1>1, <1>5, <2>2
<1> QED
  BY <1>1, <1>4, <1>5

LEMMA ChunkIs ==
  ASSUME NEW b \in Seq(Bytes), NEW i \in Nat, i < ChunkCount(b)
  PROVE  /\ ChunkEnd(b, i) = i * ChunkBytes
         /\ ChunkEnd(b, i + 1) - i * ChunkBytes \in 1..ChunkBytes
         /\ ChunkEnd(b, i + 1) \in 0..Len(b)
         /\ Chunk(b, i + 1) = SubSeq(b, i * ChunkBytes + 1, ChunkEnd(b, i + 1))
         /\ Chunk(b, i + 1) \in Seq(Bytes)
         /\ Len(Chunk(b, i + 1)) \in 1..ChunkBytes
<1> DEFINE C == ChunkBytes
           p == i * C
           e == ChunkEnd(b, i + 1)
<1>1. C \in Nat /\ C > 0 /\ Len(b) \in Nat /\ ChunkCount(b) \in Nat
  BY ChunkBytesIs, ChunkCountIs
<1>2. i \in 0..ChunkCount(b) /\ i + 1 \in 0..ChunkCount(b)
  BY <1>1
<1>3. ChunkEnd(b, i) = p /\ p < Len(b) /\ e \in 0..Len(b)
  BY <1>2, ChunkEnds
<1>4. p \in Nat /\ (i + 1) * C = p + C
  <2>1. \A x, y \in Nat : x * y \in Nat /\ (x + 1) * y = x * y + y
    OBVIOUS
  <2> HIDE DEF C
  <2> QED
    BY <1>1, <2>1
<1>5. e = IF p + C < Len(b) THEN p + C ELSE Len(b)
  BY <1>4 DEF ChunkEnd
<1>6. Chunk(b, i + 1) = SubSeq(b, p + 1, e)
  <2>1. (i + 1) - 1 = i
    OBVIOUS
  <2> QED
    BY <2>1 DEF Chunk
<1> HIDE DEF p, e, C
<1>7. e - p \in 1..C
  BY <1>1, <1>3, <1>4, <1>5
<1>8. \A j \in (p + 1)..e : b[j] \in Bytes
  BY <1>1, <1>3, <1>4
<1>9. SubSeq(b, p + 1, e) \in Seq(Bytes) /\ Len(SubSeq(b, p + 1, e)) = e - p
  <2>1. p + 1 \in Int /\ e \in Int /\ p + 1 <= e /\ e - (p + 1) + 1 = e - p
    BY <1>1, <1>3, <1>4, <1>7
  <2> QED
    BY <1>8, <2>1, SubSeqProperties
<1> QED
  BY <1>3, <1>6, <1>7, <1>9 DEF p, e, C

\* A part is chunked like the whole.
LEMMA PartIs ==
  ASSUME NEW b \in Seq(Bytes), NEW i \in 0..ChunkCount(b)
  PROVE  /\ Part(b, i) \in Seq(Bytes)
         /\ Len(Part(b, i)) = ChunkEnd(b, i)
         /\ \A j \in 1..ChunkEnd(b, i) : Part(b, i)[j] = b[j]
         /\ i = ChunkCount(b) => Part(b, i) = b
         /\ i < ChunkCount(b) => Part(b, i + 1) = Part(b, i) \o Chunk(b, i + 1)
<1> DEFINE e == ChunkEnd(b, i)
<1>1. e \in 0..Len(b) /\ Len(b) \in Nat /\ ChunkCount(b) \in Nat /\ ChunkBytes \in Nat
  BY ChunkBytesIs, ChunkEnds, ChunkCountIs
<1>2. i = ChunkCount(b) => e = Len(b)
  BY ChunkEnds
<1>3. \A j \in 1..e : b[j] \in Bytes
  BY <1>1
<1>4. /\ Part(b, i) \in Seq(Bytes) /\ Len(Part(b, i)) = e
      /\ \A j \in 1..e : Part(b, i)[j] = b[j]
  <2> HIDE DEF e
  <2>1. 1 \in Int /\ e \in Int
    BY <1>1
  <2>2. SubSeq(b, 1, e) \in Seq(Bytes) /\ Len(SubSeq(b, 1, e)) = (IF 1 <= e THEN e - 1 + 1 ELSE 0)
        /\ \A j \in 1..(e - 1 + 1) : SubSeq(b, 1, e)[j] = b[1 + j - 1]
    BY <1>3, <2>1, SubSeqProperties
  <2>3. Len(SubSeq(b, 1, e)) = e /\ e - 1 + 1 = e
    BY <1>1, <2>2
  <2>4. \A j \in 1..e : SubSeq(b, 1, e)[j] = b[j]
    BY <1>1, <2>2, <2>3
  <2> QED
    BY <2>2, <2>3, <2>4 DEF Part, e
<1>5. ASSUME i = ChunkCount(b) PROVE Part(b, i) = b
  <2>1. SubSeq(b, 1, Len(b)) = b
    BY SubSeqFull
  <2> QED
    BY <1>2, <1>5, <2>1 DEF Part
<1>6. ASSUME i < ChunkCount(b) PROVE Part(b, i + 1) = Part(b, i) \o Chunk(b, i + 1)
  <2> DEFINE p == i * ChunkBytes
             n == ChunkEnd(b, i + 1)
  <2>1. e = p /\ n - p \in 1..ChunkBytes /\ n \in 0..Len(b)
        /\ Chunk(b, i + 1) = SubSeq(b, p + 1, n)
    BY <1>6, ChunkIs
  <2> HIDE DEF p, n, e
  <2>2. 1 \in 1..(Len(b) + 1) /\ p \in (1 - 1)..Len(b) /\ n \in p..Len(b)
    BY <1>1, <2>1
  <2>3. SubSeq(b, 1, p) \o SubSeq(b, p + 1, n) = SubSeq(b, 1, n)
    BY <2>2, ConcatAdjacentSubSeq
  <2> QED
    BY <2>1, <2>3 DEF Part, e, n
<1> QED
  BY <1>4, <1>5, <1>6

LEMMA PartHasChunks ==
  ASSUME NEW b \in Seq(Bytes), NEW i \in 0..ChunkCount(b)
  PROVE  /\ ChunkCount(Part(b, i)) = i
         /\ \A j \in 1..i : Chunk(Part(b, i), j) = Chunk(b, j)
<1> DEFINE a == Part(b, i)
           C == ChunkBytes
<1>1. /\ a \in Seq(Bytes) /\ Len(a) = ChunkEnd(b, i)
      /\ \A j \in 1..ChunkEnd(b, i) : a[j] = b[j]
  BY PartIs
<1>2. CASE i = ChunkCount(b)
  BY <1>2, PartIs
<1>3. CASE i < ChunkCount(b)
  <2>1. C \in Nat /\ C > 0 /\ ChunkCount(b) \in Nat /\ i \in Nat /\ Len(b) \in Nat
    BY ChunkBytesIs, ChunkCountIs
  <2>2. ChunkEnd(b, i) = i * C /\ i * C \in 0..Len(b) /\ i * C < Len(b)
    BY <1>3, ChunkEnds
  <2>3. Len(a) = i * C /\ i * C \in Nat
    BY <1>1, <2>2
  <2>4. ChunkCount(a) = i
    <3> HIDE DEF a
    <3>1. Len(a) <= i * ChunkBytes /\ i * ChunkBytes < Len(a) + ChunkBytes
      BY <2>1, <2>3
    <3> QED
      BY <1>1, <2>1, <3>1, ChunkCountIs
  <2>5. ASSUME NEW j \in 1..i PROVE Chunk(a, j) = Chunk(b, j)
    <3> DEFINE p == (j - 1) * C
               q == j * C
               r == i * C
    <3>1. j - 1 \in Nat /\ j \in Nat /\ j <= i /\ j - 1 < ChunkCount(b) /\ (j - 1) + 1 = j
      BY <2>1
    <3>2. ChunkEnd(b, j) = q
      <4>1. j \in 0..ChunkCount(b) /\ j < ChunkCount(b)
        BY <1>3, <2>1, <3>1
      <4> QED
        BY <4>1, ChunkEnds
    <3>3. q <= r
      <4> HIDE DEF C
      <4> QED
        BY <2>1, <3>1, ProductsGrow
    <3>4. ChunkEnd(a, j) = q
      <4> HIDE DEF C, a
      <4>1. q \in Int /\ r \in Int
        <5>1. \A x, y \in Nat : x * y \in Nat
          OBVIOUS
        <5> QED
          BY <2>1, <2>3, <3>1, <5>1
      <4>2. IF q < r THEN q = q ELSE q = r
        <5> HIDE DEF q, r
        <5> QED
          BY <3>3, <4>1
      <4>3. Len(a) = r
        BY <2>3
      <4>4. ChunkEnd(a, j) = IF q < Len(a) THEN q ELSE Len(a)
        BY DEF ChunkEnd, C
      <4> HIDE DEF q, r
      <4> QED
        BY <4>2, <4>3, <4>4
    <3>5. q - p \in 1..C /\ p \in Nat /\ q \in Nat
      <4>1. ChunkEnd(b, (j - 1) + 1) - (j - 1) * ChunkBytes \in 1..ChunkBytes
        BY <3>1, ChunkIs
      <4>2. \A x, y \in Nat : x * y \in Nat
        OBVIOUS
      <4> HIDE DEF C
      <4>3. p \in Nat /\ q \in Nat
        BY <2>1, <3>1, <4>2
      <4>4. q - p \in 1..C
        BY <3>1, <3>2, <4>1 DEF C
      <4> QED
        BY <4>3, <4>4
    <3>6. SubSeq(a, p + 1, q) = SubSeq(b, p + 1, q)
      <4> HIDE DEF a, p, q, r, C
      <4>0. r <= Len(b) /\ r \in Nat /\ Len(a) = r
        BY <2>1, <2>2, <2>3 DEF r
      <4>1. \A k \in (p + 1)..q : k \in 1..r
        BY <3>3, <3>5, <4>0
      <4>2. \A k \in (p + 1)..q : a[k] = b[k] /\ a[k] \in Bytes /\ b[k] \in Bytes
        BY <1>1, <2>2, <4>0, <4>1 DEF r
      <4> DEFINE sa == SubSeq(a, p + 1, q)
                 sb == SubSeq(b, p + 1, q)
      <4>3. p + 1 \in Int /\ q \in Int /\ p + 1 <= q /\ q - (p + 1) + 1 = q - p
        BY <2>1, <3>5
      <4>4. sa \in Seq(Bytes) /\ Len(sa) = q - p /\ \A k \in 1..(q - p) : sa[k] = a[p + 1 + k - 1]
        BY <4>2, <4>3, SubSeqProperties
      <4>5. sb \in Seq(Bytes) /\ Len(sb) = q - p /\ \A k \in 1..(q - p) : sb[k] = b[p + 1 + k - 1]
        BY <4>2, <4>3, SubSeqProperties
      <4>6. \A k \in 1..(q - p) : p + 1 + k - 1 \in (p + 1)..q
        BY <4>3
      <4> HIDE DEF sa, sb
      <4>7. \A k \in 1..Len(sa) : sa[k] = sb[k]
        BY <4>2, <4>4, <4>5, <4>6
      <4>8. sa = sb
        BY <4>4, <4>5, <4>7, SeqEqual
      <4> QED
        BY <4>8 DEF sa, sb
    <3> QED
      BY <3>2, <3>4, <3>6 DEF Chunk
  <2> QED
    BY <2>4, <2>5
<1> QED
  BY <1>2, <1>3, ChunkCountIs

LEMMA HeaderIs ==
  /\ Header \in Seq(Cells) /\ Len(Header) = HeaderLength
  /\ HeaderLength \in Nat /\ HeaderLength > 0
<1>1. HeaderLength \in Nat /\ HeaderLength > 0
  BY CodecAssumption
<1>2. \A i \in 1..HeaderLength : <<"magic", i>> \in Cells
  BY <1>1 DEF Cells
<1> QED
  BY <1>1, <1>2 DEF Header

\* A chunk's frame: its two lengths and its deflated cells, each of which tells
\* the chunk.
LEMMA FrameIs ==
  ASSUME NEW raw \in Seq(Bytes), Len(raw) \in 1..ChunkBytes
  PROVE  LET d == DeflatedLength(Len(raw))
         IN /\ d \in 1..(ChunkBytes + FrameSlack)
            /\ Frame(raw) \in Seq(Cells) /\ Len(Frame(raw)) = 2 + d
            /\ Frame(raw)[1] = Len(raw) /\ Frame(raw)[2] = d
            /\ Len(Deflated(raw)) = d /\ Deflated(raw) \in Seq(Cells)
            /\ \A k \in 1..d : /\ Deflated(raw)[k] = <<"deflated", raw, k>>
                               /\ Frame(raw)[2 + k] = Deflated(raw)[k]
<1> DEFINE d == DeflatedLength(Len(raw))
           z == Deflated(raw)
           lengths == <<Len(raw), Len(z)>>
<1>1. d \in 1..(ChunkBytes + FrameSlack) /\ ChunkBytes \in Nat /\ FrameSlack \in Nat
  BY CodecAssumption
<1>2. z = [k \in 1..d |-> <<"deflated", raw, k>>]
  BY DEF Deflated
<1> HIDE DEF d, z
<1>3. \A k \in 1..d : <<"deflated", raw, k>> \in Cells
  BY DEF Cells
<1>4. d \in Nat
  BY <1>1
<1>5. z \in Seq(Cells) /\ Len(z) = d /\ \A k \in 1..d : z[k] = <<"deflated", raw, k>>
  BY <1>2, <1>3, <1>4
<1>6. lengths \in Seq(Cells) /\ Len(lengths) = 2 /\ lengths[1] = Len(raw) /\ lengths[2] = d
  <2>1. Len(raw) \in Cells /\ d \in Cells
    BY <1>4 DEF Cells
  <2> QED
    BY <1>5, <2>1
<1>7. Frame(raw) = lengths \o z
  BY DEF Frame, z
<1> HIDE DEF lengths
<1>8. /\ Frame(raw) \in Seq(Cells) /\ Len(Frame(raw)) = 2 + d
      /\ \A i \in 1..(2 + d) : Frame(raw)[i] = IF i <= 2 THEN lengths[i] ELSE z[i - 2]
  <2>1. /\ lengths \o z \in Seq(Cells) /\ Len(lengths \o z) = Len(lengths) + Len(z)
        /\ \A i \in 1..(Len(lengths) + Len(z)) :
             (lengths \o z)[i] = IF i <= Len(lengths) THEN lengths[i] ELSE z[i - Len(lengths)]
    <3>1. lengths \in Seq(Cells) /\ z \in Seq(Cells)
      BY <1>5, <1>6
    <3> QED
      BY <3>1, ConcatProperties
  <2> QED
    BY <1>5, <1>6, <1>7, <2>1
<1>9. Frame(raw)[1] = Len(raw) /\ Frame(raw)[2] = d
  BY <1>4, <1>6, <1>8
<1>10. \A k \in 1..d : Frame(raw)[2 + k] = z[k]
  <2> TAKE k \in 1..d
  <2>1. 2 + k \in 1..(2 + d) /\ ~(2 + k <= 2) /\ (2 + k) - 2 = k
    BY <1>4
  <2> QED
    BY <1>8, <2>1
<1> QED
  BY <1>1, <1>5, <1>8, <1>9, <1>10 DEF d, z

LEMMA ChunkFrameIs ==
  ASSUME NEW b \in Seq(Bytes), NEW j \in 1..ChunkCount(b)
  PROVE  Frame(Chunk(b, j)) \in Seq(Cells)
<1>1. ChunkCount(b) \in Nat
  BY ChunkCountIs
<1>2. j - 1 \in Nat /\ j - 1 < ChunkCount(b) /\ (j - 1) + 1 = j
  BY <1>1
<1>3. Chunk(b, (j - 1) + 1) \in Seq(Bytes) /\ Len(Chunk(b, (j - 1) + 1)) \in 1..ChunkBytes
  BY <1>2, ChunkIs
<1> QED
  BY <1>2, <1>3, FrameIs

\* The encoding of a part is the beginning of the file.
LEMMA PartEncodes ==
  ASSUME NEW b \in Seq(Bytes), NEW i \in 0..ChunkCount(b)
  PROVE  Encoding(Part(b, i)) = Beginning(b, i)
<1>1. /\ ChunkCount(Part(b, i)) = i
      /\ \A j \in 1..i : Chunk(Part(b, i), j) = Chunk(b, j)
  BY PartHasChunks
<1>2. [j \in 1..ChunkCount(Part(b, i)) |-> Frame(Chunk(Part(b, i), j))]
        = [j \in 1..i |-> Frame(Chunk(b, j))]
  BY <1>1
<1> QED
  BY <1>2 DEF Encoding, Beginning

\* Files grow by frames.
LEMMA BeginningGrows ==
  ASSUME NEW b \in Seq(Bytes), NEW i \in 0..ChunkCount(b)
  PROVE  /\ Beginning(b, i) \in Seq(Cells)
         /\ i = 0 => Beginning(b, i) = Header
         /\ i < ChunkCount(b) =>
              Beginning(b, i + 1) = Beginning(b, i) \o Frame(Chunk(b, i + 1))
<1> DEFINE frames(n) == [j \in 1..n |-> Frame(Chunk(b, j))]
           flat(n) == FlattenSeq(frames(n))
           k == ChunkCount(b)
<1>1. k \in Nat /\ i \in Nat
  BY ChunkCountIs
<1>2. ASSUME NEW n \in Nat, n < k
      PROVE  flat(n) \in Seq(Cells) /\ flat(n + 1) = flat(n) \o Frame(Chunk(b, n + 1))
  <2>1. \A j \in 1..(n + 1) : j \in 1..ChunkCount(b)
    BY <1>1, <1>2
  <2>2. \A j \in 1..(n + 1) : Frame(Chunk(b, j)) \in Seq(Cells)
    BY <2>1, ChunkFrameIs
  <2>3. frames(n + 1) \in [1..(n + 1) -> Seq(Cells)] /\ frames(n) \in [1..n -> Seq(Cells)]
    BY <2>2
  <2>4. \A j \in 1..n : frames(n)[j] = frames(n + 1)[j]
    OBVIOUS
  <2>5. frames(n + 1)[n + 1] = Frame(Chunk(b, n + 1))
    OBVIOUS
  <2> DEFINE f == frames(n + 1)
             e == frames(n)
  <2> HIDE DEF f, e
  <2>6. f \in [1..(n + 1) -> Seq(Cells)] /\ e \in [1..n -> Seq(Cells)]
        /\ \A j \in 1..n : e[j] = f[j]
    BY <2>3, <2>4 DEF f, e
  <2>7. FlattenSeq(e) \in Seq(Cells) /\ FlattenSeq(f) = FlattenSeq(e) \o f[n + 1]
    BY <2>6, FlattenSeqGrows
  <2> QED
    BY <2>5, <2>7 DEF f, e
<1>3. flat(0) = <<>> /\ <<>> \in Seq(Cells)
  <2>1. frames(0) = <<>> /\ Len(frames(0)) = 0
    OBVIOUS
  <2>2. FlattenSeq(frames(0)) = <<>>
    <3> DEFINE f == frames(0)
    <3> HIDE DEF f
    <3>1. f = <<>> /\ Len(f) = 0
      BY <2>1 DEF f
    <3>2. FlattenSeq(f) = <<>>
      BY <3>1 DEF FlattenSeq
    <3> QED
      BY <3>2 DEF f
  <2> QED
    BY <2>2, EmptySeq
<1>4. flat(i) \in Seq(Cells)
  <2>1. CASE i = 0
    BY <1>3, <2>1
  <2>2. CASE i # 0
    <3> DEFINE n == i - 1
    <3>1. n \in Nat /\ n < k /\ n + 1 = i /\ i \in 1..ChunkCount(b)
      BY <1>1, <2>2
    <3> HIDE DEF k, frames, flat
    <3>2. flat(n) \in Seq(Cells) /\ flat(n + 1) = flat(n) \o Frame(Chunk(b, n + 1))
      BY <1>2, <3>1
    <3>3. Frame(Chunk(b, n + 1)) \in Seq(Cells)
      BY <3>1, ChunkFrameIs
    <3>4. flat(n + 1) \in Seq(Cells)
      BY <3>2, <3>3, ConcatProperties
    <3> QED
      BY <3>1, <3>4
  <2> QED
    BY <2>1, <2>2
<1>5. \A n : Beginning(b, n) = Header \o flat(n)
  BY DEF Beginning
<1> HIDE DEF frames, flat, k
<1>6. Beginning(b, i) \in Seq(Cells)
  BY <1>4, <1>5, HeaderIs, ConcatProperties
<1>7. ASSUME i = 0 PROVE Beginning(b, i) = Header
  <2>1. Beginning(b, i) = Header \o <<>>
    BY <1>3, <1>5, <1>7
  <2> QED
    BY <2>1, HeaderIs, ConcatEmptySeq
<1>8. ASSUME i < ChunkCount(b)
      PROVE  Beginning(b, i + 1) = Beginning(b, i) \o Frame(Chunk(b, i + 1))
  <2> DEFINE f == Frame(Chunk(b, i + 1))
  <2>1. i + 1 \in 1..ChunkCount(b)
    BY <1>1, <1>8 DEF k
  <2>2. f \in Seq(Cells)
    BY <2>1, ChunkFrameIs
  <2>3. flat(i + 1) = flat(i) \o f
    BY <1>1, <1>2, <1>8 DEF k
  <2> HIDE DEF f
  <2>4. (Header \o flat(i)) \o f = Header \o (flat(i) \o f)
    BY <1>4, <2>2, HeaderIs, ConcatAssociative
  <2> QED
    BY <1>5, <2>3, <2>4 DEF f
<1> QED
  BY <1>6, <1>7, <1>8

LEMMA EncodingIs ==
  ASSUME NEW b \in Seq(Bytes)
  PROVE  Encoding(b) = Beginning(b, ChunkCount(b)) /\ Encoding(b) \in Seq(Cells)
<1>1. ChunkCount(b) \in 0..ChunkCount(b)
  BY ChunkCountIs
<1> QED
  BY <1>1, BeginningGrows DEF Encoding, Beginning

LEMMA BeginningsBegin ==
  ASSUME NEW b \in Seq(Bytes), NEW i \in 0..ChunkCount(b)
  PROVE  Begins(Beginning(b, i), Encoding(b))
<1> DEFINE n == ChunkCount(b)
           T == {k \in Nat : k <= n => Begins(Beginning(b, n - k), Encoding(b))}
<1>1. n \in Nat
  BY ChunkCountIs
<1>2. 0 \in T
  <2>1. Beginning(b, n - 0) = Encoding(b)
    BY <1>1, EncodingIs
  <2>2. Begins(Encoding(b), Encoding(b))
    BY EncodingIs DEF Begins
  <2> QED
    BY <2>1, <2>2
<1>3. ASSUME NEW k \in Nat, k \in T PROVE k + 1 \in T
  <2> SUFFICES ASSUME k + 1 <= n PROVE Begins(Beginning(b, n - (k + 1)), Encoding(b))
    OBVIOUS
  <2> DEFINE j == n - (k + 1)
  <2>1. j \in 0..ChunkCount(b) /\ j < ChunkCount(b) /\ j + 1 = n - k /\ j + 1 \in 1..ChunkCount(b)
    BY <1>1
  <2>2. Begins(Beginning(b, n - k), Encoding(b))
    BY <1>1, <1>3
  <2> HIDE DEF n, j
  <2> DEFINE s == Beginning(b, j)
             f == Frame(Chunk(b, j + 1))
             t == Encoding(b)
  <2>3. s \in Seq(Cells) /\ Beginning(b, n - k) = s \o f
    BY <2>1, BeginningGrows
  <2>4. f \in Seq(Cells) /\ t \in Seq(Cells)
    BY <2>1, ChunkFrameIs, EncodingIs
  <2> HIDE DEF s, f, t
  <2>5. Len(s) \in Nat /\ Len(f) \in Nat
    BY <2>3, <2>4
  <2>6. Len(s \o f) = Len(s) + Len(f)
        /\ \A m \in 1..Len(s) + Len(f) : (s \o f)[m] = IF m <= Len(s) THEN s[m] ELSE f[m - Len(s)]
    BY <2>3, <2>4, ConcatProperties
  <2>7. Len(s \o f) <= Len(t) /\ \A m \in 1..Len(s \o f) : (s \o f)[m] = t[m]
    BY <2>2, <2>3 DEF Begins, t
  <2>8. Len(t) \in Nat
    BY <2>4
  <2>9. Len(s) <= Len(t)
    BY <2>5, <2>6, <2>7, <2>8
  <2>10. \A m \in 1..Len(s) : s[m] = t[m]
    <3> TAKE m \in 1..Len(s)
    <3>1. m \in 1..Len(s) + Len(f) /\ m <= Len(s)
      BY <2>5
    <3> QED
      BY <2>6, <2>7, <3>1
  <2>11. Begins(s, t)
    BY <2>9, <2>10 DEF Begins
  <2> QED
    BY <2>11 DEF s, t, j
<1> HIDE DEF T
<1>4. Nat \subseteq T
  BY <1>2, <1>3, Induction
<1>5. n - i \in T /\ n - i <= n /\ n - (n - i) = i
  BY <1>1, <1>4
<1> QED
  BY <1>5 DEF T

LEMMA BeginsShorter ==
  ASSUME NEW s \in Seq(Cells), NEW f \in Seq(Cells), NEW t \in Seq(Cells), Begins(s \o f, t)
  PROVE  Begins(s, t)
<1>1. Len(s) \in Nat /\ Len(f) \in Nat /\ Len(t) \in Nat
  OBVIOUS
<1>2. Len(s \o f) = Len(s) + Len(f)
      /\ \A m \in 1..Len(s) + Len(f) : (s \o f)[m] = IF m <= Len(s) THEN s[m] ELSE f[m - Len(s)]
  BY ConcatProperties
<1>3. Len(s \o f) <= Len(t) /\ \A m \in 1..Len(s \o f) : (s \o f)[m] = t[m]
  BY DEF Begins
<1>4. Len(s) <= Len(t)
  BY <1>1, <1>2, <1>3
<1>5. \A m \in 1..Len(s) : s[m] = t[m]
  <2> TAKE m \in 1..Len(s)
  <2>1. m \in 1..Len(s) + Len(f) /\ m <= Len(s)
    BY <1>1
  <2> QED
    BY <1>2, <1>3, <2>1
<1> QED
  BY <1>4, <1>5 DEF Begins

-----------------------------------------------------------------------------
(* The invariant.                                                           *)

\* i chunks are framed, and the rest of what was read is gathered.
Gathered(i) ==
  /\ i * ChunkBytes <= position /\ position < i * ChunkBytes + ChunkBytes
  /\ chunk = SubSeq(journal, i * ChunkBytes + 1, position)
  /\ position = Len(journal) \/ \E a \in Nat : position = a * PieceLength
  /\ file \o queue = Beginning(journal, i)

\* What is in the file, and what is still to be written, begins the encoding of
\* the whole journal.
PackInv ==
  /\ journal \in Journals /\ position \in 0..Len(journal)
  /\ chunk \in Seq(Bytes) /\ queue \in Seq(Cells) /\ file \in Seq(Cells)
  /\ packer \in {"packing", "ending", "done", "killed"}
  /\ Begins(file, Encoding(journal))
  /\ packer = "packing" => \E i \in 0..ChunkCount(journal) : Gathered(i)
  /\ packer \in {"ending", "done"} => file \o queue = Encoding(journal)
  /\ packer = "done" => queue = <<>>

\* What was consumed are the header and the first i frames.
Consumed(i) ==
  /\ decoded = Part(journal, i)
  /\ read - Len(pending) = Len(Beginning(journal, i))

UnpackInv ==
  /\ unpacker \in {"waiting", "reading", "accepted", "refused"}
  /\ unpacker # "waiting" => packer \in {"done", "killed"}
  /\ read \in 0..Len(file) /\ pending \in Seq(Cells) /\ Len(pending) <= read
  /\ \A k \in 1..Len(pending) : pending[k] = file[read - Len(pending) + k]
  /\ magicChecked \in BOOLEAN
  /\ unpacker = "waiting" => read = 0
  /\ ~magicChecked => read = Len(pending) /\ decoded = <<>>
  /\ magicChecked => \E i \in 0..ChunkCount(journal) : Consumed(i)
  /\ unpacker = "accepted" => magicChecked /\ pending = <<>> /\ read = Len(file)
  /\ packer = "done" => unpacker # "refused"

CodecInv == PackInv /\ UnpackInv

LEMMA JournalIs == PackInv => journal \in Seq(Bytes)
BY CodecAssumption DEF PackInv

LEMMA CodecInvInit == CodecInit => CodecInv
<1> SUFFICES ASSUME CodecInit PROVE CodecInv
  OBVIOUS
<1> USE DEF CodecInit
<1>1. journal \in Seq(Bytes) /\ Len(journal) \in Nat
  BY CodecAssumption
<1>2. 0 \in 0..ChunkCount(journal)
  BY <1>1, ChunkCountIs
<1>3. Begins(file, Encoding(journal))
  <2>1. Encoding(journal) \in Seq(Cells)
    BY <1>1, EncodingIs
  <2>2. Len(Encoding(journal)) \in Nat /\ Len(file) = 0
    BY <2>1
  <2> QED
    BY <2>2 DEF Begins
<1>4. Gathered(0)
  <2>1. 0 * ChunkBytes = 0 /\ ChunkBytes > 0
    BY ChunkBytesIs
  <2>2. SubSeq(journal, 1, 0) = <<>>
    BY SubSeqEmpty
  <2>3. 0 \in Nat /\ 0 = 0 * PieceLength
    BY CodecAssumption
  <2>4. file \o queue = Beginning(journal, 0)
    BY <1>1, <1>2, BeginningGrows, HeaderIs, ConcatEmptySeq
  <2>5. 0 * ChunkBytes <= position /\ position < 0 * ChunkBytes + ChunkBytes
    BY <2>1, ChunkBytesIs
  <2>6. chunk = SubSeq(journal, 0 * ChunkBytes + 1, position)
    BY <2>1, <2>2
  <2>7. \E a \in Nat : position = a * PieceLength
    BY <2>3
  <2> QED
    BY <2>4, <2>5, <2>6, <2>7 DEF Gathered
<1>5. <<>> \in Seq(Bytes) /\ <<>> \in Seq(Cells) /\ Len(<<>>) = 0
  BY EmptySeq
<1>6. PackInv
  BY <1>1, <1>2, <1>3, <1>4, <1>5, HeaderIs DEF PackInv
<1>7. UnpackInv
  <2>1. Len(pending) = 0 /\ Len(file) = 0
    BY <1>5
  <2>2. read \in 0..Len(file) /\ pending \in Seq(Cells) /\ Len(pending) <= read
    BY <1>5, <2>1
  <2>3. \A k \in 1..Len(pending) : pending[k] = file[read - Len(pending) + k]
    BY <2>1
  <2>4. read = Len(pending)
    BY <2>1
  <2> QED
    BY <2>2, <2>3, <2>4 DEF UnpackInv
<1> QED
  BY <1>6, <1>7 DEF CodecInv

\* A step of pack that leaves the file as it is, or what unpack does with it.
LEMMA UnpackInvStays ==
  ASSUME UnpackInv, UNCHANGED <<unpackVars, journal>>, packer \notin {"done", "killed"},
         read = 0 => Len(file') \in Nat
  PROVE  UnpackInv'
<1>1. unpacker = "waiting"
  BY DEF UnpackInv
<1>2. read = 0 /\ Len(pending) <= 0 /\ Len(pending) \in Nat
  BY <1>1 DEF UnpackInv
<1>3. Len(pending) = 0
  BY <1>2
<1>4. /\ read' = read /\ pending' = pending /\ magicChecked' = magicChecked
      /\ decoded' = decoded /\ unpacker' = unpacker /\ journal' = journal
  BY DEF unpackVars
<1>5. magicChecked => \E i \in 0..ChunkCount(journal') : Consumed(i)'
  BY <1>4 DEF UnpackInv, Consumed
<1>6. read' \in 0..Len(file')
  BY <1>2, <1>4
<1>7. \A k \in 1..Len(pending') : pending'[k] = file'[read' - Len(pending') + k]
  BY <1>3, <1>4
<1> QED
  BY <1>1, <1>2, <1>4, <1>5, <1>6, <1>7 DEF UnpackInv

\* A chunk is flushed exactly when it is full: pieces are a part of a chunk.
LEMMA PiecesFill ==
  ASSUME NEW i \in Nat, NEW p \in Nat, NEW a \in Nat, p = a * PieceLength,
         i * ChunkBytes <= p, p < i * ChunkBytes + ChunkBytes
  PROVE  p + PieceLength <= i * ChunkBytes + ChunkBytes
<1> DEFINE P == PieceLength
           C == ChunkBytes
<1>1. P \in Nat /\ P > 0 /\ C \in Nat /\ C % P = 0
  BY CodecAssumption
<1>2. PICK m \in Int : C = m * P
  <2> DEFINE m == C \div P
  <2>1. m \in Int /\ P * m <= C /\ C < P * m + P
    <3> HIDE DEF P, C
    <3> QED
      BY <1>1
  <2>2. C = m * P
    <3> HIDE DEF P, C
    <3> QED
      BY <1>1
  <2> QED
    BY <2>1, <2>2
<1> DEFINE n == (i + 1) * m
<1>3. n \in Int /\ n * P = i * C + C
  <2> HIDE DEF P, C
  <2>1. ((i + 1) * m) * P = (i + 1) * (m * P)
    BY <1>1, <1>2
  <2>2. (i + 1) * C = i * C + C
    BY <1>1
  <2> QED
    BY <1>2, <2>1, <2>2
<1>4. a < n
  <2> HIDE DEF P, C, n
  <2> SUFFICES ASSUME n <= a PROVE FALSE
    BY <1>3
  <2>1. n * P <= a * P
    BY <1>1, <1>3, ProductsGrow
  <2> DEFINE q == n * P
  <2>2. q <= p /\ p < q
    BY <1>3, <2>1 DEF P, C
  <2>3. q \in Int
    BY <1>1, <1>3
  <2> HIDE DEF q
  <2> QED
    BY <2>2, <2>3
<1>5. (a + 1) * P <= n * P
  <2> HIDE DEF P, C, n
  <2> QED
    BY <1>1, <1>3, <1>4, ProductsGrow
<1>6. (a + 1) * P = p + P
  BY <1>1
<1> QED
  BY <1>3, <1>5, <1>6

LEMMA ReadPieceKeeps == CodecInv /\ ReadPiece => CodecInv'
<1> SUFFICES ASSUME CodecInv, ReadPiece PROVE CodecInv'
  OBVIOUS
<1> DEFINE n == Len(journal)
           upTo == IF position + PieceLength < n THEN position + PieceLength ELSE n
           gathered == chunk \o SubSeq(journal, position + 1, upTo)
           C == ChunkBytes
<1>1. journal \in Seq(Bytes) /\ n \in Nat /\ position \in 0..n /\ position < n
  BY JournalIs DEF CodecInv, PackInv, ReadPiece
<1>2. /\ position' = upTo
      /\ chunk' = IF Full(gathered) THEN <<>> ELSE gathered
      /\ queue' = IF Full(gathered) THEN FrameOf(gathered) ELSE <<>>
      /\ queue = <<>> /\ packer = "packing"
      /\ journal' = journal /\ packer' = packer /\ file' = file
      /\ UNCHANGED unpackVars
  BY DEF ReadPiece
<1>3. PieceLength \in Nat /\ PieceLength > 0 /\ C \in Nat /\ C > 0 /\ ChunkCount(journal) \in Nat
      /\ n <= ChunkCount(journal) * ChunkBytes
  BY <1>1, ChunkBytesIs, ChunkCountIs, CodecAssumption
<1>4. upTo \in Nat /\ position < upTo /\ upTo <= n /\ upTo <= position + PieceLength
      /\ (upTo = n \/ upTo = position + PieceLength)
  <2> HIDE DEF n
  <2> QED
    BY <1>1, <1>3
<1>5. PICK i \in 0..ChunkCount(journal) : Gathered(i)
  BY <1>2 DEF CodecInv, PackInv
<1> DEFINE p == i * C
<1>6. /\ p <= position /\ position < p + C /\ chunk = SubSeq(journal, p + 1, position)
      /\ \E a \in Nat : position = a * PieceLength
      /\ file \o queue = Beginning(journal, i)
  <2>1. position # Len(journal)
    BY <1>1
  <2> QED
    BY <1>5, <2>1 DEF Gathered
<1>7. p \in Nat /\ i \in Nat /\ (i + 1) * C = p + C
  <2>1. \A x, y \in Nat : x * y \in Nat /\ (x + 1) * y = x * y + y
    OBVIOUS
  <2> HIDE DEF C
  <2> QED
    BY <1>3, <2>1
<1>8. upTo <= p + C
  <2>1. PICK a \in Nat : position = a * PieceLength
    BY <1>6
  <2>2. position + PieceLength <= p + C
    <3>1. position \in Nat /\ i \in Nat
      BY <1>1
    <3> QED
      BY <1>6, <2>1, <3>1, PiecesFill
  <2> HIDE DEF upTo, p, C
  <2> QED
    BY <1>1, <1>3, <1>4, <1>7, <2>2
<1>9. i < ChunkCount(journal)
  <2> SUFFICES ASSUME i = ChunkCount(journal) PROVE FALSE
    BY <1>3
  <2>1. n <= p
    BY <1>3
  <2> HIDE DEF p, n
  <2> QED
    BY <1>1, <1>6, <1>7, <2>1
<1>10. gathered = SubSeq(journal, p + 1, upTo)
  <2>1. p + 1 \in 1..(Len(journal) + 1) /\ position \in ((p + 1) - 1)..Len(journal)
        /\ upTo \in position..Len(journal)
    <3> HIDE DEF upTo, p
    <3> QED
      BY <1>1, <1>4, <1>6, <1>7
  <2> HIDE DEF upTo, p
  <2>2. SubSeq(journal, p + 1, position) \o SubSeq(journal, position + 1, upTo)
          = SubSeq(journal, p + 1, upTo)
    BY <1>1, <2>1, ConcatAdjacentSubSeq
  <2> QED
    BY <1>6, <2>2
<1> HIDE DEF upTo, gathered, p
<1>11. gathered \in Seq(Bytes) /\ Len(gathered) = upTo - p
  <2>1. p + 1 \in Int /\ upTo \in Int /\ p + 1 <= upTo /\ upTo - (p + 1) + 1 = upTo - p
    BY <1>1, <1>4, <1>6, <1>7
  <2>2. \A j \in (p + 1)..upTo : journal[j] \in Bytes
    BY <1>1, <1>4, <1>7
  <2> QED
    BY <1>10, <2>1, <2>2, SubSeqProperties
<1>12. Full(gathered) <=> upTo = p + C
  <2> HIDE DEF C, n
  <2>1. Full(gathered) <=> upTo - p >= C
    BY <1>11 DEF Full, C
  <2> QED
    BY <1>3, <1>4, <1>7, <1>8, <2>1
<1>13. position' = Len(journal') \/ \E a \in Nat : position' = a * PieceLength
  <2>1. CASE upTo = n
    BY <1>2, <2>1
  <2>2. CASE upTo = position + PieceLength
    <3>1. PICK a \in Nat : position = a * PieceLength
      BY <1>6
    <3>2. a + 1 \in Nat /\ (a + 1) * PieceLength = position + PieceLength
      BY <1>3, <3>1
    <3> QED
      BY <1>2, <2>2, <3>2
  <2> QED
    BY <1>4, <2>1, <2>2
<1>14. file \in Seq(Cells) /\ Begins(file, Encoding(journal))
  BY DEF CodecInv, PackInv
<1>15. file = Beginning(journal, i)
  BY <1>2, <1>6, <1>14, ConcatEmptySeq
<1>16. CASE Full(gathered)
  <2>1. upTo = p + C /\ chunk' = <<>> /\ queue' = FrameOf(gathered)
    BY <1>2, <1>12, <1>16
  <2>2. ChunkEnd(journal, i + 1) = upTo
    <3>1. upTo = (i + 1) * ChunkBytes /\ upTo <= Len(journal) /\ upTo \in Nat
      BY <1>4, <1>7, <2>1
    <3> QED
      BY <1>1, <3>1 DEF ChunkEnd
  <2>3. gathered = Chunk(journal, i + 1)
    BY <1>1, <1>7, <1>9, <1>10, <2>2, ChunkIs DEF p
  <2>4. queue' = Frame(gathered)
    <3>1. gathered # <<>>
      BY <1>4, <1>6, <1>7, <1>1, <1>11
    <3> QED
      BY <2>1, <3>1 DEF FrameOf
  <2>5. file' \o queue' = Beginning(journal', i + 1) /\ queue' \in Seq(Cells)
    <3>1. i + 1 \in 1..ChunkCount(journal)
      BY <1>3, <1>7, <1>9
    <3> QED
      BY <1>1, <1>2, <1>9, <1>15, <2>3, <2>4, <3>1, BeginningGrows, ChunkFrameIs
  <2>6. i + 1 \in 0..ChunkCount(journal')
    BY <1>2, <1>3, <1>7, <1>9
  <2>7. Gathered(i + 1)'
    <3>1. (i + 1) * ChunkBytes <= position'
          /\ position' < (i + 1) * ChunkBytes + ChunkBytes
      BY <1>2, <1>3, <1>4, <1>7, <2>1
    <3>2. chunk' = SubSeq(journal', (i + 1) * ChunkBytes + 1, position')
      <4>1. (i + 1) * ChunkBytes = upTo
        BY <1>7, <2>1
      <4>2. upTo + 1 \in Int /\ upTo \in Int /\ upTo < upTo + 1
        BY <1>4
      <4>3. SubSeq(journal, upTo + 1, upTo) = <<>>
        BY <4>2, SubSeqEmpty
      <4> QED
        BY <1>2, <2>1, <4>1, <4>3
    <3> QED
      BY <1>13, <2>5, <3>1, <3>2 DEF Gathered
  <2>8. chunk' \in Seq(Bytes) /\ position' \in 0..Len(journal')
    <3>1. upTo \in 0..Len(journal)
      BY <1>1, <1>4
    <3>2. <<>> \in Seq(Bytes)
      BY EmptySeq
    <3> QED
      BY <1>2, <2>1, <3>1, <3>2
  <2>9. PackInv'
    BY <1>2, <1>14, <2>5, <2>6, <2>7, <2>8 DEF CodecInv, PackInv
  <2>10. UnpackInv'
    BY <1>2, <1>14, UnpackInvStays DEF CodecInv
  <2> QED
    BY <2>9, <2>10 DEF CodecInv
<1>17. CASE ~Full(gathered)
  <2>1. upTo < p + C /\ chunk' = gathered /\ queue' = <<>>
    BY <1>2, <1>3, <1>4, <1>7, <1>8, <1>12, <1>17
  <2>2. Gathered(i)'
    <3>1. i * ChunkBytes <= position' /\ position' < i * ChunkBytes + ChunkBytes
      BY <1>1, <1>2, <1>4, <1>6, <1>7, <2>1 DEF p
    <3>2. chunk' = SubSeq(journal', i * ChunkBytes + 1, position')
      BY <1>2, <1>10, <2>1 DEF p
    <3>3. file' \o queue' = Beginning(journal', i)
      BY <1>2, <1>6, <2>1
    <3> QED
      BY <1>13, <3>1, <3>2, <3>3 DEF Gathered
  <2>3. i \in 0..ChunkCount(journal')
    BY <1>2
  <2>4. chunk' \in Seq(Bytes) /\ position' \in 0..Len(journal') /\ queue' \in Seq(Cells)
    BY <1>1, <1>2, <1>4, <1>11, <2>1, EmptySeq
  <2>5. PackInv'
    BY <1>2, <1>14, <2>2, <2>3, <2>4 DEF CodecInv, PackInv
  <2>6. UnpackInv'
    BY <1>2, <1>14, UnpackInvStays DEF CodecInv
  <2> QED
    BY <2>5, <2>6 DEF CodecInv
<1> QED
  BY <1>16, <1>17

LEMMA EndInputKeeps == CodecInv /\ EndInput => CodecInv'
<1> SUFFICES ASSUME CodecInv, EndInput PROVE CodecInv'
  OBVIOUS
<1> DEFINE n == Len(journal)
           C == ChunkBytes
<1>1. journal \in Seq(Bytes) /\ n \in Nat /\ position = n
  BY JournalIs DEF CodecInv, PackInv, EndInput
<1>2. /\ queue = <<>> /\ packer = "packing" /\ queue' = FrameOf(chunk) /\ chunk' = <<>>
      /\ packer' = "ending" /\ journal' = journal /\ position' = position /\ file' = file
      /\ UNCHANGED unpackVars
  BY DEF EndInput
<1>3. C \in Nat /\ C > 0 /\ ChunkCount(journal) \in Nat
      /\ n <= ChunkCount(journal) * ChunkBytes
  BY <1>1, ChunkBytesIs, ChunkCountIs
<1>4. PICK i \in 0..ChunkCount(journal) : Gathered(i)
  BY <1>2 DEF CodecInv, PackInv
<1> DEFINE p == i * C
<1>5. p <= n /\ n < p + C /\ chunk = SubSeq(journal, p + 1, n)
      /\ file \o queue = Beginning(journal, i)
  BY <1>1, <1>4 DEF Gathered
<1>6. p \in Nat /\ i \in Nat /\ (i + 1) * C = p + C
  <2>1. \A x, y \in Nat : x * y \in Nat /\ (x + 1) * y = x * y + y
    OBVIOUS
  <2> HIDE DEF C
  <2> QED
    BY <1>3, <2>1
<1>7. file \in Seq(Cells) /\ Begins(file, Encoding(journal)) /\ file = Beginning(journal, i)
  <2>1. file \in Seq(Cells) /\ Begins(file, Encoding(journal))
    BY DEF CodecInv, PackInv
  <2> QED
    BY <1>2, <1>5, <2>1, ConcatEmptySeq
<1>8. file' \o queue' = Encoding(journal') /\ queue' \in Seq(Cells)
  <2>1. CASE p = n
    <3>1. i = ChunkCount(journal)
      <4>1. Len(journal) <= i * ChunkBytes /\ i * ChunkBytes < Len(journal) + ChunkBytes
        BY <1>1, <1>3, <2>1
      <4> QED
        BY <1>1, <1>6, <4>1, ChunkCountIs
    <3>2. chunk = <<>>
      <4>1. p + 1 \in Int /\ n \in Int /\ n < p + 1
        BY <1>1, <2>1
      <4> HIDE DEF p, n
      <4> QED
        BY <1>5, <4>1, SubSeqEmpty
    <3>3. queue' = <<>>
      BY <1>2, <3>2 DEF FrameOf
    <3> QED
      BY <1>1, <1>2, <1>7, <3>1, <3>3, EncodingIs, EmptySeq, ConcatEmptySeq
  <2>2. CASE p < n
    <3>1. i < ChunkCount(journal)
      <4> SUFFICES ASSUME i = ChunkCount(journal) PROVE FALSE
        BY <1>3
      <4>1. n <= p
        BY <1>3
      <4> HIDE DEF p, n
      <4> QED
        BY <1>1, <1>6, <2>2, <4>1
    <3>2. i + 1 = ChunkCount(journal)
      <4> DEFINE k == ChunkCount(journal)
      <4> SUFFICES ASSUME i + 2 <= k PROVE FALSE
        BY <1>3, <3>1
      <4>1. i + 1 \in 0..k /\ i + 1 < k
        BY <1>3, <1>6, <3>1
      <4>2. (i + 1) * ChunkBytes < Len(journal)
        BY <1>1, <4>1, ChunkEnds
      <4>3. p + C < n
        BY <1>6, <4>2
      <4> HIDE DEF p, n, C
      <4> QED
        BY <1>1, <1>3, <1>5, <1>6, <4>3
    <3>3. ChunkEnd(journal, i + 1) = n
      <4>1. i + 1 \in 0..ChunkCount(journal)
        BY <1>3, <3>2
      <4> QED
        BY <1>1, <3>2, <4>1, ChunkEnds
    <3>4. chunk = Chunk(journal, i + 1) /\ Len(chunk) \in 1..ChunkBytes
      BY <1>1, <1>5, <1>6, <3>1, <3>3, ChunkIs
    <3>5. queue' = Frame(Chunk(journal, i + 1))
      <4>1. chunk # <<>>
        BY <1>3, <3>4
      <4> QED
        BY <1>2, <3>4, <4>1 DEF FrameOf
    <3>6. i + 1 \in 1..ChunkCount(journal)
      BY <1>3, <1>6, <3>2
    <3>7. queue' \in Seq(Cells)
      BY <1>1, <3>5, <3>6, ChunkFrameIs
    <3>8. Beginning(journal, i + 1) = file \o queue'
      BY <1>1, <1>7, <3>1, <3>5, BeginningGrows
    <3> QED
      BY <1>1, <1>2, <3>2, <3>7, <3>8, EncodingIs
  <2> HIDE DEF p, n
  <2> QED
    BY <1>1, <1>5, <1>6, <2>1, <2>2
<1>9. PackInv'
  BY <1>2, <1>7, <1>8, EmptySeq DEF CodecInv, PackInv
<1>10. UnpackInv'
  BY <1>2, <1>7, UnpackInvStays DEF CodecInv
<1> QED
  BY <1>9, <1>10 DEF CodecInv

LEMMA WriteCellsKeeps == CodecInv /\ WriteCells => CodecInv'
<1> SUFFICES ASSUME CodecInv, WriteCells PROVE CodecInv'
  OBVIOUS
<1>1. PICK n \in 1..Len(queue) :
        /\ file' = file \o SubSeq(queue, 1, n)
        /\ queue' = SubSeq(queue, n + 1, Len(queue))
  BY DEF WriteCells
<1>2. /\ packer \in {"packing", "ending"}
      /\ UNCHANGED <<journal, position, chunk, packer>> /\ UNCHANGED unpackVars
  BY DEF WriteCells
<1>3. queue \in Seq(Cells) /\ file \in Seq(Cells) /\ journal \in Seq(Bytes) /\ Len(queue) \in Nat
  BY JournalIs DEF CodecInv, PackInv
<1> DEFINE a == SubSeq(queue, 1, n)
           b == SubSeq(queue, n + 1, Len(queue))
<1>4. a \in Seq(Cells) /\ b \in Seq(Cells)
  BY <1>3
<1>5. a \o b = queue
  <2>1. 1 \in 1..(Len(queue) + 1) /\ n \in (1 - 1)..Len(queue) /\ Len(queue) \in n..Len(queue)
    BY <1>3
  <2>2. a \o b = SubSeq(queue, 1, Len(queue))
    BY <1>3, <2>1, ConcatAdjacentSubSeq
  <2> QED
    BY <1>3, <2>2, SubSeqFull
<1> HIDE DEF a, b
<1>6. file' = file \o a /\ queue' = b
  BY <1>1 DEF a, b
<1>7. file' \o queue' = file \o queue /\ file' \in Seq(Cells) /\ queue' \in Seq(Cells)
  <2>1. (file \o a) \o b = file \o (a \o b)
    <3>1. \A s, t, u \in Seq(Cells) : (s \o t) \o u = s \o (t \o u)
      BY ConcatAssociative
    <3> QED
      BY <1>3, <1>4, <3>1, Zenon
  <2>2. file \o a \in Seq(Cells)
    BY <1>3, <1>4, ConcatProperties
  <2> QED
    BY <1>4, <1>5, <1>6, <2>1, <2>2
<1>8. Encoding(journal) \in Seq(Cells)
  BY <1>3, EncodingIs
<1>9. Begins(file' \o queue', Encoding(journal))
  <2>1. CASE packer = "packing"
    <3>1. PICK i \in 0..ChunkCount(journal) : Gathered(i)
      BY <2>1 DEF CodecInv, PackInv
    <3> QED
      BY <1>3, <1>7, <3>1, BeginningsBegin DEF Gathered
  <2>2. CASE packer = "ending"
    <3>1. file \o queue = Encoding(journal)
      BY <2>2 DEF CodecInv, PackInv
    <3> QED
      BY <1>7, <1>8, <3>1 DEF Begins
  <2> QED
    BY <1>2, <2>1, <2>2
<1>10. Begins(file', Encoding(journal))
  BY <1>7, <1>8, <1>9, BeginsShorter
<1>11. packer' = "packing" => \E i \in 0..ChunkCount(journal') : Gathered(i)'
  BY <1>2, <1>7 DEF CodecInv, PackInv, Gathered
<1>12. PackInv'
  BY <1>2, <1>7, <1>10, <1>11 DEF CodecInv, PackInv
<1>13. UnpackInv'
  BY <1>2, <1>7, UnpackInvStays DEF CodecInv
<1> QED
  BY <1>12, <1>13 DEF CodecInv

LEMMA CloseOrKillKeeps == CodecInv /\ (CloseFile \/ Kill) => CodecInv'
<1> SUFFICES ASSUME CodecInv, CloseFile \/ Kill PROVE CodecInv'
  OBVIOUS
<1>1. /\ packer \in {"packing", "ending"} /\ packer' \in {"done", "killed"}
      /\ packer' = "done" => packer = "ending" /\ queue = <<>>
      /\ UNCHANGED <<journal, position, chunk, queue, file>> /\ UNCHANGED unpackVars
  BY DEF CloseFile, Kill
<1>2. file \in Seq(Cells)
  BY DEF CodecInv, PackInv
<1>3. PackInv'
  BY <1>1 DEF CodecInv, PackInv
<1>4. UnpackInv'
  BY <1>1, <1>2, UnpackInvStays DEF CodecInv
<1> QED
  BY <1>3, <1>4 DEF CodecInv

\* What every step of unpack leaves alone.
LEMMA PackInvStays ==
  ASSUME PackInv, UNCHANGED packVars
  PROVE  PackInv'
<1>1. /\ journal' = journal /\ position' = position /\ chunk' = chunk /\ queue' = queue
      /\ packer' = packer /\ file' = file
  BY DEF packVars
<1>2. packer' = "packing" => \E i \in 0..ChunkCount(journal') : Gathered(i)'
  BY <1>1 DEF PackInv, Gathered
<1> QED
  BY <1>1, <1>2 DEF PackInv

\* What is pending is the file from where the consumed part ends.
LEMMA PendingIs ==
  ASSUME CodecInv
  PROVE  /\ journal \in Seq(Bytes) /\ ChunkCount(journal) \in Nat
         /\ Len(pending) \in Nat /\ read \in Nat /\ Len(file) \in Nat
         /\ Len(pending) <= read /\ read <= Len(file) /\ Len(file) <= Len(Encoding(journal))
         /\ Len(Encoding(journal)) \in Nat
         /\ \A k \in 1..Len(pending) :
              pending[k] = Encoding(journal)[read - Len(pending) + k]
<1> DEFINE E == Encoding(journal)
           m == Len(pending)
<1>1. journal \in Seq(Bytes)
  BY JournalIs DEF CodecInv
<1>2. E \in Seq(Cells) /\ ChunkCount(journal) \in Nat
  BY <1>1, EncodingIs, ChunkCountIs
<1>3. /\ file \in Seq(Cells) /\ pending \in Seq(Cells) /\ read \in 0..Len(file) /\ m <= read
      /\ \A k \in 1..m : pending[k] = file[read - m + k]
      /\ Len(file) <= Len(E) /\ \A k \in 1..Len(file) : file[k] = E[k]
  BY DEF CodecInv, PackInv, UnpackInv, Begins
<1> HIDE DEF E
<1>4. m \in Nat /\ Len(file) \in Nat /\ Len(E) \in Nat /\ read \in Nat /\ read <= Len(file)
  BY <1>2, <1>3
<1>5. \A k \in 1..m : read - m + k \in 1..Len(file)
  <2> HIDE DEF m
  <2> QED
    BY <1>3, <1>4
<1>6. \A k \in 1..m : pending[k] = E[read - m + k]
  BY <1>3, <1>5
<1> QED
  BY <1>1, <1>2, <1>3, <1>4, <1>6 DEF E

\* The next frame is that of the next chunk, as far as it was read; and if it
\* begins, there is one.
LEMMA FrameAhead ==
  ASSUME CodecInv, NEW i \in 0..ChunkCount(journal), Consumed(i)
  PROVE  /\ i = ChunkCount(journal) => Len(pending) = 0
         /\ i < ChunkCount(journal) =>
              LET raw == Chunk(journal, i + 1)
              IN /\ read - Len(pending) + Len(Frame(raw)) = Len(Beginning(journal, i + 1))
                 /\ Len(Beginning(journal, i + 1)) <= Len(Encoding(journal))
                 /\ \A k \in 1..Len(pending) : k <= Len(Frame(raw)) => pending[k] = Frame(raw)[k]
<1> DEFINE E == Encoding(journal)
           m == Len(pending)
           c == read - m
           s == Beginning(journal, i)
<1>1. /\ journal \in Seq(Bytes) /\ ChunkCount(journal) \in Nat
      /\ m \in Nat /\ read \in Nat /\ Len(file) \in Nat /\ Len(E) \in Nat
      /\ m <= read /\ read <= Len(file) /\ Len(file) <= Len(E)
      /\ \A k \in 1..m : pending[k] = E[c + k]
  BY PendingIs
<1>2. c = Len(s)
  BY DEF Consumed
<1>3. s \in Seq(Cells) /\ E \in Seq(Cells)
  BY <1>1, BeginningGrows, EncodingIs
<1>4. ASSUME i = ChunkCount(journal) PROVE m = 0
  <2>1. s = E
    BY <1>1, <1>4, EncodingIs
  <2>2. c = Len(E)
    BY <1>2, <2>1
  <2> HIDE DEF m, E
  <2> QED
    BY <1>1, <2>2
<1>5. ASSUME i < ChunkCount(journal)
      PROVE  LET raw == Chunk(journal, i + 1)
             IN /\ c + Len(Frame(raw)) = Len(Beginning(journal, i + 1))
                /\ Len(Beginning(journal, i + 1)) <= Len(E)
                /\ \A k \in 1..m : k <= Len(Frame(raw)) => pending[k] = Frame(raw)[k]
  <2> DEFINE f == Frame(Chunk(journal, i + 1))
             t == Beginning(journal, i + 1)
  <2>1. i + 1 \in 1..ChunkCount(journal) /\ i + 1 \in 0..ChunkCount(journal)
    BY <1>1, <1>5
  <2>2. t = s \o f /\ f \in Seq(Cells)
    BY <1>1, <1>5, <2>1, BeginningGrows, ChunkFrameIs
  <2>3. Begins(t, E)
    BY <1>1, <2>1, BeginningsBegin
  <2> HIDE DEF E, m, s, f, t, c
  <2>4. /\ Len(s \o f) = Len(s) + Len(f) /\ Len(s) \in Nat /\ Len(f) \in Nat
        /\ \A k \in 1..Len(s) + Len(f) : (s \o f)[k] = IF k <= Len(s) THEN s[k] ELSE f[k - Len(s)]
    BY <1>3, <2>2, ConcatProperties
  <2>5. c + Len(f) = Len(t) /\ Len(t) <= Len(E)
    BY <1>2, <2>2, <2>3, <2>4 DEF Begins
  <2>6. ASSUME NEW k \in 1..m, k <= Len(f) PROVE pending[k] = f[k]
    <3>1. c + k \in 1..Len(s) + Len(f) /\ ~(c + k <= Len(s)) /\ (c + k) - Len(s) = k
      BY <1>1, <1>2, <2>4, <2>6
    <3>2. t[c + k] = f[k]
      BY <2>2, <2>4, <3>1
    <3>3. c + k \in 1..Len(t)
      BY <2>2, <2>4, <3>1
    <3>4. t[c + k] = E[c + k]
      BY <2>3, <3>3 DEF Begins
    <3> QED
      BY <1>1, <3>2, <3>4
  <2> QED
    BY <2>5, <2>6 DEF f, t
<1> QED
  BY <1>4, <1>5

\* ... of lengths that unpack takes, and deflated.
LEMMA FrameIsTaken ==
  ASSUME CodecInv, NEW i \in 0..ChunkCount(journal), Consumed(i), Len(pending) >= 2
  PROVE  /\ i < ChunkCount(journal)
         /\ LET raw == Chunk(journal, i + 1)
                d == DeflatedLength(Len(raw))
            IN /\ raw \in Seq(Bytes) /\ Len(raw) \in 1..ChunkBytes
               /\ d \in Nat /\ d > 0 /\ Len(Frame(raw)) = 2 + d
               /\ pending[1] = Len(raw) /\ pending[2] = d /\ ~TooLarge
               /\ Len(Deflated(raw)) = d /\ Deflated(raw) \in Seq(Cells)
               /\ \A k \in 1..d : Deflated(raw)[k] = <<"deflated", raw, k>>
               /\ Len(pending) >= 2 + d =>
                    \A k \in 1..d : pending[2 + k] = Deflated(raw)[k]
<1> DEFINE raw == Chunk(journal, i + 1)
           d == DeflatedLength(Len(raw))
           f == Frame(raw)
           m == Len(pending)
<1>1. journal \in Seq(Bytes) /\ ChunkCount(journal) \in Nat /\ m \in Nat
  BY PendingIs
<1>2. i < ChunkCount(journal)
  BY <1>1, FrameAhead
<1>3. raw \in Seq(Bytes) /\ Len(raw) \in 1..ChunkBytes
  BY <1>1, <1>2, ChunkIs
<1>4. ChunkBytes \in Nat /\ FrameSlack \in Nat
  BY CodecAssumption
<1>5. \A k \in 1..m : k <= Len(f) => pending[k] = f[k]
  BY <1>2, FrameAhead
<1> HIDE DEF raw
<1>6. /\ d \in 1..(ChunkBytes + FrameSlack) /\ Len(f) = 2 + d
      /\ f[1] = Len(raw) /\ f[2] = d
      /\ Len(Deflated(raw)) = d /\ Deflated(raw) \in Seq(Cells)
      /\ \A k \in 1..d : Deflated(raw)[k] = <<"deflated", raw, k>> /\ f[2 + k] = Deflated(raw)[k]
  BY <1>3, FrameIs
<1> HIDE DEF d, f, m
<1>7. d \in Nat /\ d > 0
  BY <1>4, <1>6
<1>8. pending[1] = Len(raw) /\ pending[2] = d
  <2>1. 1 \in 1..m /\ 2 \in 1..m /\ 1 <= Len(f) /\ 2 <= Len(f)
    BY <1>1, <1>6, <1>7 DEF m
  <2> QED
    BY <1>5, <1>6, <2>1
<1>9. ~TooLarge
  BY <1>3, <1>4, <1>6, <1>8 DEF TooLarge
<1>10. ASSUME m >= 2 + d, NEW k \in 1..d PROVE pending[2 + k] = Deflated(raw)[k]
  <2>1. 2 + k \in 1..m /\ 2 + k <= Len(f)
    BY <1>1, <1>6, <1>7, <1>10
  <2> QED
    BY <1>5, <1>6, <2>1
<1> QED
  BY <1>2, <1>3, <1>6, <1>7, <1>8, <1>9, <1>10 DEF raw, d, f, m

LEMMA OpenKeeps == CodecInv /\ Open => CodecInv'
<1> SUFFICES ASSUME CodecInv, Open PROVE CodecInv'
  OBVIOUS
<1>1. /\ packer \in {"done", "killed"} /\ unpacker = "waiting" /\ unpacker' = "reading"
      /\ UNCHANGED <<read, pending, magicChecked, decoded>> /\ UNCHANGED packVars
  BY DEF Open
<1>2. PackInv'
  BY <1>1, PackInvStays DEF CodecInv
<1>3. packer' = packer /\ journal' = journal /\ file' = file
  BY <1>1 DEF packVars
<1>4. UnpackInv'
  BY <1>1, <1>3 DEF CodecInv, UnpackInv, Consumed
<1> QED
  BY <1>2, <1>4 DEF CodecInv

\* The header is right: the file begins with it.
LEMMA CheckMagicKeeps == CodecInv /\ CheckMagic => CodecInv'
<1> SUFFICES ASSUME CodecInv, CheckMagic PROVE CodecInv'
  OBVIOUS
<1> DEFINE H == HeaderLength
           m == Len(pending)
           E == Encoding(journal)
           rest == SubSeq(pending, H + 1, m)
<1>1. unpacker = "reading" /\ ~magicChecked /\ m >= H /\ UNCHANGED packVars
      /\ read' = read /\ decoded' = decoded
  BY DEF CheckMagic, HasMagic
<1>2. /\ journal \in Seq(Bytes) /\ ChunkCount(journal) \in Nat
      /\ m \in Nat /\ read \in Nat /\ Len(file) \in Nat /\ Len(E) \in Nat
      /\ m <= read /\ read <= Len(file) /\ Len(file) <= Len(E)
      /\ \A k \in 1..m : pending[k] = E[read - m + k]
  BY PendingIs
<1>3. read = m /\ decoded = <<>> /\ pending \in Seq(Cells) /\ read \in 0..Len(file)
  BY <1>1 DEF CodecInv, UnpackInv
<1>4. H \in Nat /\ H > 0 /\ Header \in Seq(Cells) /\ Len(Header) = H
  BY HeaderIs
<1>5. 0 \in 0..ChunkCount(journal) /\ Beginning(journal, 0) = Header
  BY <1>2, BeginningGrows
<1>6. Begins(Header, E)
  BY <1>2, <1>5, BeginningsBegin
<1>7. SubSeq(pending, 1, H) = Header
  <2> DEFINE a == SubSeq(pending, 1, H)
  <2> HIDE DEF m, E, H
  <2>1. \A k \in 1..H : pending[k] \in Cells
    BY <1>1, <1>2, <1>3, <1>4 DEF m
  <2>2. 1 \in Int /\ H \in Int /\ 1 <= H /\ H - 1 + 1 = H
    BY <1>4
  <2>3. a \in Seq(Cells) /\ Len(a) = H /\ \A k \in 1..H : a[k] = pending[1 + k - 1]
    BY <2>1, <2>2, SubSeqProperties
  <2>4. \A k \in 1..H : a[k] = Header[k]
    <3> TAKE k \in 1..H
    <3>1. 1 + k - 1 = k /\ k \in 1..m /\ read - m + k = k
      BY <1>1, <1>2, <1>3, <1>4
    <3> QED
      BY <1>2, <1>4, <1>6, <2>3, <3>1 DEF Begins
  <2> HIDE DEF a
  <2>5. a = Header
    BY <1>4, <2>3, <2>4, SeqEqual
  <2> QED
    BY <2>5 DEF a
<1>8. magicChecked' = TRUE /\ pending' = rest /\ unpacker' = unpacker
  BY <1>7 DEF CheckMagic
<1>9. packer' = packer /\ journal' = journal /\ file' = file
  BY <1>1 DEF packVars
<1>10. pending' \in Seq(Cells) /\ Len(pending') = m - H
       /\ \A k \in 1..Len(pending') : pending'[k] = pending[H + k]
  <2> HIDE DEF m, H
  <2>1. H + 1 \in Int /\ m \in Int
    BY <1>2, <1>4
  <2>2. \A k \in (H + 1)..m : pending[k] \in Cells
    BY <1>2, <1>3, <1>4 DEF m
  <2>3. rest \in Seq(Cells) /\ Len(rest) = (IF H + 1 <= m THEN m - (H + 1) + 1 ELSE 0)
        /\ \A k \in 1..(m - (H + 1) + 1) : rest[k] = pending[(H + 1) + k - 1]
    BY <2>1, <2>2, SubSeqProperties
  <2>4. (IF H + 1 <= m THEN m - (H + 1) + 1 ELSE 0) = m - H /\ m - (H + 1) + 1 = m - H
        /\ \A k \in 1..(m - H) : (H + 1) + k - 1 = H + k
    BY <1>1, <1>2, <1>4
  <2> QED
    BY <1>8, <2>3, <2>4
<1>11. \A k \in 1..Len(pending') : pending'[k] = file'[read' - Len(pending') + k]
  <2>1. \A k \in 1..m : pending[k] = file[read - m + k]
    BY DEF CodecInv, UnpackInv
  <2> TAKE k \in 1..Len(pending')
  <2> HIDE DEF m, H
  <2>2. H + k \in 1..m /\ read - m + (H + k) = read' - Len(pending') + k
    BY <1>1, <1>2, <1>3, <1>4, <1>10
  <2> QED
    BY <1>9, <1>10, <2>1, <2>2
<1>12. Consumed(0)'
  <2>1. Part(journal, 0) = <<>>
    <3>1. Part(journal, 0) \in Seq(Bytes) /\ Len(Part(journal, 0)) = ChunkEnd(journal, 0)
      BY <1>2, <1>5, PartIs
    <3>2. ChunkEnd(journal, 0) = 0
      <4>1. 0 * ChunkBytes = 0 /\ Len(journal) \in Nat
        BY <1>2, ChunkBytesIs
      <4> QED
        BY <4>1 DEF ChunkEnd
    <3> QED
      BY <3>1, <3>2
  <2>2. read' - Len(pending') = H
    <3> HIDE DEF m, H
    <3> QED
      BY <1>1, <1>2, <1>3, <1>4, <1>10
  <2> QED
    BY <1>1, <1>3, <1>4, <1>5, <1>9, <2>1, <2>2 DEF Consumed
<1>13. Len(pending') <= read'
  <2> HIDE DEF m, H
  <2> QED
    BY <1>1, <1>2, <1>3, <1>4, <1>10
<1>14. PackInv'
  BY <1>1, PackInvStays DEF CodecInv
<1>15. UnpackInv'
  <2>1. unpacker' = "reading" /\ magicChecked' /\ packer' \in {"done", "killed"}
    BY <1>1, <1>8, <1>9 DEF CodecInv, UnpackInv
  <2>2. read' \in 0..Len(file')
    BY <1>1, <1>3, <1>9
  <2>3. \E i \in 0..ChunkCount(journal') : Consumed(i)'
    BY <1>5, <1>9, <1>12
  <2>4. pending' \in Seq(Cells)
    BY <1>10
  <2>5. magicChecked' = TRUE
    BY <1>8
  <2> QED
    BY <1>11, <1>13, <2>1, <2>2, <2>3, <2>4, <2>5 DEF UnpackInv
<1> QED
  BY <1>14, <1>15 DEF CodecInv

\* The frames are right, and taken one by one.
LEMMA ConsumeFrameKeeps == CodecInv /\ ConsumeFrame => CodecInv'
<1> SUFFICES ASSUME CodecInv, ConsumeFrame PROVE CodecInv'
  OBVIOUS
<1> DEFINE m == Len(pending)
<1>1. /\ unpacker = "reading" /\ magicChecked /\ m >= 2 /\ UNCHANGED packVars
      /\ TooLarge \/ m >= 2 + pending[2]
      /\ read' = read /\ magicChecked' = magicChecked
  BY DEF ConsumeFrame, HasFrame
<1>2. PICK i \in 0..ChunkCount(journal) : Consumed(i)
  BY <1>1 DEF CodecInv, UnpackInv
<1> DEFINE raw == Chunk(journal, i + 1)
           d == DeflatedLength(Len(raw))
           z == Deflated(raw)
           body == SubSeq(pending, 3, 2 + pending[2])
           rest == SubSeq(pending, 3 + pending[2], m)
<1>3. /\ i < ChunkCount(journal)
      /\ raw \in Seq(Bytes) /\ Len(raw) \in 1..ChunkBytes
      /\ d \in Nat /\ d > 0 /\ Len(Frame(raw)) = 2 + d
      /\ pending[1] = Len(raw) /\ pending[2] = d /\ ~TooLarge
      /\ Len(z) = d /\ z \in Seq(Cells)
      /\ \A k \in 1..d : z[k] = <<"deflated", raw, k>>
      /\ m >= 2 + d => \A k \in 1..d : pending[2 + k] = z[k]
  BY <1>1, <1>2, FrameIsTaken
<1>4. m >= 2 + d /\ \A k \in 1..d : pending[2 + k] = z[k]
  BY <1>1, <1>3
<1>5. /\ journal \in Seq(Bytes) /\ ChunkCount(journal) \in Nat
      /\ m \in Nat /\ read \in Nat /\ m <= read
  BY PendingIs
<1>6. pending \in Seq(Cells) /\ read \in 0..Len(file)
      /\ \A k \in 1..m : pending[k] = file[read - m + k]
  BY DEF CodecInv, UnpackInv
<1> HIDE DEF raw, d, z, m
<1>7. \A k \in 1..m : pending[k] \in Cells
  BY <1>5, <1>6 DEF m
<1>8. pending[3][2] = raw
  <2>1. 1 \in 1..d /\ 2 + 1 = 3
    BY <1>3
  <2>2. pending[3] = <<"deflated", raw, 1>>
    BY <1>3, <1>4, <2>1
  <2> QED
    BY <2>2
<1>9. body = z
  <2> DEFINE hi == 2 + d
  <2>1. body = SubSeq(pending, 3, hi)
    BY <1>3
  <2>2. 3 \in Int /\ hi \in Int /\ 3 <= hi /\ hi - 3 + 1 = d
    BY <1>3
  <2>3. \A k \in 3..hi : pending[k] \in Cells
    BY <1>3, <1>4, <1>5, <1>7
  <2> HIDE DEF body, hi
  <2>4. body \in Seq(Cells) /\ Len(body) = d /\ \A k \in 1..d : body[k] = pending[3 + k - 1]
    <3>1. /\ body \in Seq(Cells)
          /\ Len(body) = (IF 3 <= hi THEN hi - 3 + 1 ELSE 0)
          /\ \A k \in 1..(hi - 3 + 1) : body[k] = pending[3 + k - 1]
      BY <2>1, <2>2, <2>3, SubSeqProperties
    <3> QED
      BY <2>2, <3>1
  <2>5. \A k \in 1..d : body[k] = z[k]
    <3> TAKE k \in 1..d
    <3>1. 3 + k - 1 = 2 + k
      BY <1>3
    <3> QED
      BY <1>4, <2>4, <3>1
  <2> QED
    BY <1>3, <2>4, <2>5, SeqEqual
<1>10. Inflates(pending[3][2])
  BY <1>3, <1>8, <1>9 DEF Inflates, z
<1>11. decoded' = decoded \o raw /\ pending' = rest /\ unpacker' = unpacker
  BY <1>3, <1>8, <1>10 DEF ConsumeFrame, m
<1>12. packer' = packer /\ journal' = journal /\ file' = file
  BY <1>1 DEF packVars
<1>13. pending' \in Seq(Cells) /\ Len(pending') = m - (2 + d)
       /\ \A k \in 1..Len(pending') : pending'[k] = pending[(2 + d) + k]
  <2>1. rest = SubSeq(pending, 3 + d, m)
    BY <1>3
  <2>2. 3 + d \in Int /\ m \in Int
    BY <1>3, <1>5
  <2>3. \A k \in (3 + d)..m : pending[k] \in Cells
    BY <1>3, <1>5, <1>7
  <2> HIDE DEF rest
  <2>4. rest \in Seq(Cells) /\ Len(rest) = (IF 3 + d <= m THEN m - (3 + d) + 1 ELSE 0)
        /\ \A k \in 1..(m - (3 + d) + 1) : rest[k] = pending[(3 + d) + k - 1]
    BY <2>1, <2>2, <2>3, SubSeqProperties
  <2>5. (IF 3 + d <= m THEN m - (3 + d) + 1 ELSE 0) = m - (2 + d)
        /\ m - (3 + d) + 1 = m - (2 + d)
        /\ \A k \in 1..(m - (2 + d)) : (3 + d) + k - 1 = (2 + d) + k
    <3>1. m \in Nat /\ d \in Nat /\ m >= 2 + d
      BY <1>3, <1>4, <1>5
    <3> QED
      BY <3>1
  <2> QED
    BY <1>11, <2>4, <2>5
<1>14. Len(pending') <= read'
  BY <1>1, <1>3, <1>4, <1>5, <1>13
<1>15. \A k \in 1..Len(pending') : pending'[k] = file'[read' - Len(pending') + k]
  <2> TAKE k \in 1..Len(pending')
  <2>1. (2 + d) + k \in 1..m /\ read - m + ((2 + d) + k) = read' - Len(pending') + k
    BY <1>1, <1>3, <1>4, <1>5, <1>13
  <2> QED
    BY <1>6, <1>12, <1>13, <2>1
<1>16. Consumed(i + 1)'
  <2>1. decoded' = Part(journal, i + 1)
    <3>1. decoded = Part(journal, i)
      BY <1>2 DEF Consumed
    <3>2. Part(journal, i + 1) = Part(journal, i) \o raw
      BY <1>3, <1>5, PartIs DEF raw
    <3> QED
      BY <1>11, <3>1, <3>2
  <2>2. read - m + (2 + d) = Len(Beginning(journal, i + 1))
    BY <1>2, <1>3, FrameAhead DEF raw, m
  <2>3. read' - Len(pending') = read - m + (2 + d)
    BY <1>1, <1>3, <1>5, <1>13
  <2> QED
    BY <1>12, <2>1, <2>2, <2>3 DEF Consumed
<1>17. PackInv'
  BY <1>1, PackInvStays DEF CodecInv
<1>18. UnpackInv'
  <2>1. unpacker' = "reading" /\ magicChecked' = TRUE /\ packer' \in {"done", "killed"}
    BY <1>1, <1>11, <1>12 DEF CodecInv, UnpackInv
  <2>2. read' \in 0..Len(file')
    BY <1>1, <1>6, <1>12
  <2>3. i + 1 \in 0..ChunkCount(journal')
    BY <1>3, <1>5, <1>12
  <2>4. pending' \in Seq(Cells)
    BY <1>13
  <2> QED
    BY <1>14, <1>15, <1>16, <2>1, <2>2, <2>3, <2>4 DEF UnpackInv
<1> QED
  BY <1>17, <1>18 DEF CodecInv

LEMMA ReadCellsKeeps == CodecInv /\ ReadCells => CodecInv'
<1> SUFFICES ASSUME CodecInv, ReadCells PROVE CodecInv'
  OBVIOUS
<1> DEFINE m == Len(pending)
<1>1. unpacker = "reading" /\ UNCHANGED packVars /\ UNCHANGED <<magicChecked, decoded, unpacker>>
  BY DEF ReadCells
<1>2. PICK n \in 1..(Len(file) - read) :
        /\ pending' = pending \o SubSeq(file, read + 1, read + n)
        /\ read' = read + n
  BY DEF ReadCells
<1> DEFINE piece == SubSeq(file, read + 1, read + n)
<1>3. packer' = packer /\ journal' = journal /\ file' = file
  BY <1>1 DEF packVars
<1>4. /\ pending \in Seq(Cells) /\ file \in Seq(Cells) /\ read \in 0..Len(file) /\ m <= read
      /\ \A k \in 1..m : pending[k] = file[read - m + k]
  BY DEF CodecInv, PackInv, UnpackInv
<1>5. m \in Nat /\ Len(file) \in Nat /\ read \in Nat /\ n \in Nat /\ read + n <= Len(file)
  <2>1. m \in Nat /\ Len(file) \in Nat
    BY <1>4
  <2> HIDE DEF m
  <2> QED
    BY <1>4, <2>1
<1>6. piece \in Seq(Cells) /\ Len(piece) = n /\ \A k \in 1..n : piece[k] = file[read + k]
  <2> DEFINE lo == read + 1
             hi == read + n
  <2>1. lo \in Int /\ hi \in Int /\ lo <= hi /\ hi - lo + 1 = n
    BY <1>5
  <2>2. \A k \in lo..hi : file[k] \in Cells
    BY <1>4, <1>5
  <2>3. piece = SubSeq(file, lo, hi)
    OBVIOUS
  <2> HIDE DEF piece, lo, hi
  <2>4. /\ piece \in Seq(Cells) /\ Len(piece) = (IF lo <= hi THEN hi - lo + 1 ELSE 0)
        /\ \A k \in 1..(hi - lo + 1) : piece[k] = file[lo + k - 1]
    BY <2>1, <2>2, <2>3, SubSeqProperties
  <2>5. \A k \in 1..n : lo + k - 1 = read + k
    BY <1>5 DEF lo
  <2> QED
    BY <2>1, <2>4, <2>5
<1> HIDE DEF piece, m
<1>7. /\ pending' \in Seq(Cells) /\ Len(pending') = m + n
      /\ \A k \in 1..(m + n) : pending'[k] = IF k <= m THEN pending[k] ELSE piece[k - m]
  <2>1. /\ pending \o piece \in Seq(Cells) /\ Len(pending \o piece) = Len(pending) + Len(piece)
        /\ \A k \in 1..(Len(pending) + Len(piece)) :
             (pending \o piece)[k] = IF k <= Len(pending) THEN pending[k] ELSE piece[k - Len(pending)]
    BY <1>4, <1>6, ConcatProperties
  <2>2. pending' = pending \o piece
    BY <1>2 DEF piece
  <2> QED
    BY <1>6, <2>1, <2>2 DEF m
<1>8. \A k \in 1..Len(pending') : pending'[k] = file'[read' - Len(pending') + k]
  <2> TAKE k \in 1..Len(pending')
  <2>1. read' - Len(pending') + k = read - m + k
    <3>1. k \in 1..(m + n)
      BY <1>7
    <3>2. read' - Len(pending') = (read + n) - (m + n)
      BY <1>2, <1>7
    <3>3. k \in Int /\ (read + n) - (m + n) + k = read - m + k
      BY <1>5, <3>1
    <3> QED
      BY <3>2, <3>3
  <2>2. CASE k <= m
    <3>1. k \in 1..m
      BY <1>5, <1>7, <2>2
    <3> QED
      BY <1>3, <1>4, <1>7, <2>1, <2>2, <3>1
  <2>3. CASE ~(k <= m)
    <3>1. k - m \in 1..n /\ read + (k - m) = read - m + k
      BY <1>5, <1>7, <2>3
    <3> QED
      BY <1>3, <1>6, <1>7, <2>1, <2>3, <3>1
  <2> QED
    BY <2>2, <2>3
<1>9. read' - Len(pending') = read - Len(pending)
  BY <1>2, <1>5, <1>7 DEF m
<1>10. magicChecked' => \E i \in 0..ChunkCount(journal') : Consumed(i)'
  <2> SUFFICES ASSUME magicChecked' PROVE \E i \in 0..ChunkCount(journal') : Consumed(i)'
    OBVIOUS
  <2>1. PICK i \in 0..ChunkCount(journal) : Consumed(i)
    BY <1>1 DEF CodecInv, UnpackInv
  <2>2. Consumed(i)'
    BY <1>1, <1>3, <1>9, <2>1 DEF Consumed
  <2> QED
    BY <1>3, <2>1, <2>2
<1>11. ~magicChecked' => read' = Len(pending') /\ decoded' = <<>>
  <2> SUFFICES ASSUME ~magicChecked' PROVE read' = Len(pending') /\ decoded' = <<>>
    OBVIOUS
  <2>1. read = m /\ decoded = <<>>
    BY <1>1 DEF CodecInv, UnpackInv, m
  <2> QED
    BY <1>1, <1>2, <1>5, <1>7, <2>1
<1>12. read' \in 0..Len(file') /\ Len(pending') <= read'
  BY <1>2, <1>3, <1>4, <1>5, <1>7 DEF m
<1>13. unpacker' = "reading" /\ magicChecked' \in BOOLEAN /\ packer' \in {"done", "killed"}
  BY <1>1, <1>3 DEF CodecInv, UnpackInv
<1>14. PackInv'
  BY <1>1, PackInvStays DEF CodecInv
<1>15. UnpackInv'
  <2>1. pending' \in Seq(Cells)
    BY <1>7
  <2> QED
    BY <1>8, <1>10, <1>11, <1>12, <1>13, <2>1 DEF UnpackInv
<1> QED
  BY <1>14, <1>15 DEF CodecInv

\* The end of a file that was packed to its end comes after a whole frame.
LEMMA EndOfFileKeeps == CodecInv /\ EndOfFile => CodecInv'
<1> SUFFICES ASSUME CodecInv, EndOfFile PROVE CodecInv'
  OBVIOUS
<1>1. /\ unpacker = "reading" /\ ~Consumable /\ read = Len(file)
      /\ unpacker' = IF Whole THEN "accepted" ELSE "refused"
      /\ UNCHANGED <<read, pending, magicChecked, decoded>> /\ UNCHANGED packVars
  BY DEF EndOfFile
<1>2. packer' = packer /\ journal' = journal /\ file' = file
  BY <1>1 DEF packVars
<1>3. packer = "done" => Whole
  <2> SUFFICES ASSUME packer = "done" PROVE Whole
    OBVIOUS
  <2> DEFINE E == Encoding(journal)
             m == Len(pending)
  <2>1. /\ journal \in Seq(Bytes) /\ ChunkCount(journal) \in Nat
        /\ m \in Nat /\ read \in Nat /\ Len(E) \in Nat /\ m <= read
    BY PendingIs
  <2>2. read = Len(E)
    <3>1. file \o <<>> = E /\ file \in Seq(Cells)
      BY DEF CodecInv, PackInv
    <3>2. file = E
      BY <3>1, ConcatEmptySeq
    <3> QED
      BY <1>1, <3>2
  <2>3. magicChecked
    <3> SUFFICES ASSUME ~magicChecked PROVE FALSE
      OBVIOUS
    <3>1. m = Len(E)
      BY <2>2 DEF CodecInv, UnpackInv
    <3>2. 0 \in 0..ChunkCount(journal) /\ Beginning(journal, 0) = Header
      BY <2>1, BeginningGrows
    <3>3. Len(Header) <= Len(E) /\ Len(Header) = HeaderLength /\ HeaderLength \in Nat
      BY <2>1, <3>2, BeginningsBegin, HeaderIs DEF Begins
    <3>4. HasMagic
      <4>1. m >= HeaderLength
        BY <2>1, <3>1, <3>3
      <4> QED
        BY <4>1 DEF HasMagic
    <3> QED
      BY <1>1, <3>4 DEF Consumable
  <2>4. PICK i \in 0..ChunkCount(journal) : Consumed(i)
    BY <2>3 DEF CodecInv, UnpackInv
  <2>5. CASE i = ChunkCount(journal)
    <3>1. Len(pending) = 0 /\ pending \in Seq(Cells)
      BY <2>4, <2>5, FrameAhead DEF CodecInv, UnpackInv
    <3>2. pending = <<>>
      BY <3>1
    <3> QED
      BY <2>3, <3>2 DEF Whole
  <2>6. CASE i < ChunkCount(journal)
    <3> DEFINE raw == Chunk(journal, i + 1)
               f == Frame(raw)
    <3>1. read - m + Len(f) <= Len(E)
      BY <2>4, <2>6, FrameAhead
    <3>2. raw \in Seq(Bytes) /\ Len(raw) \in 1..ChunkBytes
      BY <2>1, <2>6, ChunkIs
    <3>3. Len(f) = 2 + DeflatedLength(Len(raw)) /\ DeflatedLength(Len(raw)) \in Nat
      <4> HIDE DEF raw
      <4>1. ChunkBytes + FrameSlack \in Nat
        BY CodecAssumption
      <4> QED
        BY <3>2, <4>1, FrameIs
    <3>4. m >= Len(f)
      <4>1. Len(f) \in Nat
        BY <3>3
      <4> HIDE DEF E, m, f
      <4> QED
        BY <2>1, <2>2, <3>1, <4>1
    <3>5. m >= 2
      <4> HIDE DEF m, raw
      <4> QED
        BY <2>1, <3>3, <3>4
    <3>6. pending[2] = DeflatedLength(Len(raw))
      BY <2>4, <3>5, FrameIsTaken
    <3>7. HasFrame
      BY <2>3, <3>3, <3>4, <3>5, <3>6 DEF HasFrame
    <3> QED
      BY <1>1, <3>7 DEF Consumable
  <2> QED
    BY <2>1, <2>5, <2>6
<1>4. PackInv'
  BY <1>1, PackInvStays DEF CodecInv
<1>5. UnpackInv'
  <2>1. /\ read' = read /\ pending' = pending /\ magicChecked' = magicChecked
        /\ decoded' = decoded /\ unpacker' \in {"accepted", "refused"}
        /\ unpacker' = "accepted" => Whole
        /\ packer' = "done" => unpacker' # "refused"
        /\ packer' \in {"done", "killed"}
    BY <1>1, <1>2, <1>3 DEF CodecInv, UnpackInv
  <2>2. magicChecked' => \E i \in 0..ChunkCount(journal') : Consumed(i)'
    BY <1>2, <2>1 DEF CodecInv, UnpackInv, Consumed
  <2>3. unpacker' = "accepted" => magicChecked' /\ pending' = <<>> /\ read' = Len(file')
    BY <1>1, <1>2, <2>1 DEF Whole
  <2> QED
    BY <1>2, <2>1, <2>2, <2>3 DEF CodecInv, UnpackInv
<1> QED
  BY <1>4, <1>5 DEF CodecInv

\* The invariant holds in every run of pack and unpack (compact_transcript.js:30,70).
THEOREM CodecInvariant == CodecSpec => []CodecInv
<1>1. CodecInv /\ [CodecNext]_codecVars => CodecInv'
  <2> SUFFICES ASSUME CodecInv, [CodecNext]_codecVars PROVE CodecInv'
    OBVIOUS
  <2>1. CASE ReadPiece
    BY <2>1, ReadPieceKeeps
  <2>2. CASE EndInput
    BY <2>2, EndInputKeeps
  <2>3. CASE WriteCells
    BY <2>3, WriteCellsKeeps
  <2>4. CASE CloseFile \/ Kill
    BY <2>4, CloseOrKillKeeps
  <2>5. CASE Open
    BY <2>5, OpenKeeps
  <2>6. CASE CheckMagic
    BY <2>6, CheckMagicKeeps
  <2>7. CASE ConsumeFrame
    BY <2>7, ConsumeFrameKeeps
  <2>8. CASE ReadCells
    BY <2>8, ReadCellsKeeps
  <2>9. CASE EndOfFile
    BY <2>9, EndOfFileKeeps
  <2>10. CASE UNCHANGED codecVars
    <3>1. UNCHANGED packVars /\ UNCHANGED unpackVars
      BY <2>10 DEF codecVars
    <3>2. PackInv'
      BY <3>1, PackInvStays DEF CodecInv
    <3>3. UnpackInv'
      BY <3>1 DEF packVars, unpackVars, CodecInv, UnpackInv, Consumed
    <3> QED
      BY <3>2, <3>3 DEF CodecInv
  <2> QED
    BY <2>1, <2>2, <2>3, <2>4, <2>5, <2>6, <2>7, <2>8, <2>9, <2>10 DEF CodecNext
<1> QED
  BY <1>1, CodecInvInit, PTL DEF CodecSpec

\* What was accepted is the first chunks, and the file their encoding.
LEMMA AcceptedIsPart ==
  ASSUME CodecInv, unpacker = "accepted"
  PROVE  \E i \in 0..ChunkCount(journal) :
           /\ decoded = Part(journal, i) /\ file = Beginning(journal, i)
           /\ packer = "done" => i = ChunkCount(journal)
<1>1. magicChecked /\ pending = <<>> /\ read = Len(file)
  BY DEF CodecInv, UnpackInv
<1>2. PICK i \in 0..ChunkCount(journal) : Consumed(i)
  BY <1>1 DEF CodecInv, UnpackInv
<1> DEFINE s == Beginning(journal, i)
           E == Encoding(journal)
<1>3. journal \in Seq(Bytes) /\ ChunkCount(journal) \in Nat
      /\ Len(file) \in Nat /\ read \in Nat /\ Len(E) \in Nat
  BY PendingIs
<1>4. s \in Seq(Cells) /\ Begins(s, E) /\ file \in Seq(Cells) /\ Begins(file, E)
  BY <1>3, BeginningGrows, BeginningsBegin DEF CodecInv, PackInv
<1>5. Len(file) = Len(s)
  <2>1. read - Len(pending) = Len(s) /\ Len(pending) = 0
    BY <1>1, <1>2 DEF Consumed
  <2> HIDE DEF s
  <2> QED
    BY <1>1, <1>3, <2>1
<1>6. file = s
  <2> HIDE DEF s, E
  <2>1. \A k \in 1..Len(file) : file[k] = s[k]
    BY <1>4, <1>5 DEF Begins
  <2> QED
    BY <1>4, <1>5, <2>1, SeqEqual
<1>7. ASSUME packer = "done", i < ChunkCount(journal) PROVE FALSE
  <2>1. file \o <<>> = E
    BY <1>7 DEF CodecInv, PackInv
  <2>2. file = E
    BY <1>4, <2>1, ConcatEmptySeq
  <2> DEFINE raw == Chunk(journal, i + 1)
             f == Frame(raw)
  <2>3. read - Len(pending) + Len(f) <= Len(E)
    BY <1>2, <1>7, FrameAhead
  <2>4. Len(f) \in Nat /\ Len(f) > 0
    <3>1. raw \in Seq(Bytes) /\ Len(raw) \in 1..ChunkBytes
      BY <1>3, <1>7, ChunkIs
    <3> HIDE DEF raw
    <3>2. ChunkBytes + FrameSlack \in Nat
      BY CodecAssumption
    <3>3. Len(f) = 2 + DeflatedLength(Len(raw)) /\ DeflatedLength(Len(raw)) \in Nat
      BY <3>1, <3>2, FrameIs
    <3> QED
      BY <3>3
  <2>5. read = Len(E) /\ Len(pending) = 0
    BY <1>1, <2>2
  <2> HIDE DEF E, f
  <2> QED
    BY <1>3, <2>3, <2>4, <2>5
<1>8. packer = "done" => i = ChunkCount(journal)
  BY <1>3, <1>7
<1>9. decoded = Part(journal, i)
  BY <1>2 DEF Consumed
<1> QED
  BY <1>6, <1>8, <1>9

\* A file that unpack accepts is, to the cell, the encoding of what it put out,
\* and that is a beginning of the journal, whatever was read and written at a time
\* and wherever pack was killed.
THEOREM AcceptedFilesAreEncodings == CodecSpec => []AcceptedFileIsEncoding
<1>1. CodecInv => AcceptedFileIsEncoding
  <2> SUFFICES ASSUME CodecInv, unpacker = "accepted"
               PROVE  file = Encoding(decoded) /\ IsPrefix(decoded, journal)
    BY DEF AcceptedFileIsEncoding
  <2>1. PICK i \in 0..ChunkCount(journal) :
          decoded = Part(journal, i) /\ file = Beginning(journal, i)
    BY AcceptedIsPart
  <2>2. journal \in Seq(Bytes)
    BY PendingIs
  <2>3. file = Encoding(decoded)
    BY <2>1, <2>2, PartEncodes
  <2>4. decoded \in Seq(Bytes) /\ Len(decoded) = ChunkEnd(journal, i)
        /\ ChunkEnd(journal, i) \in 0..Len(journal)
    BY <2>1, <2>2, PartIs, ChunkEnds
  <2>5. SubSeq(decoded, 1, Len(decoded)) = decoded
    BY <2>4, SubSeqFull
  <2>6. SubSeq(journal, 1, Len(decoded)) = decoded
    BY <2>1, <2>4 DEF Part
  <2>7. Len(decoded) <= Len(journal)
    BY <2>2, <2>4
  <2> QED
    BY <2>3, <2>5, <2>6, <2>7 DEF IsPrefix
<1> QED
  BY <1>1, CodecInvariant, PTL

\* What pack() finished is not refused by unpack(), and nothing of it is lost.
PackLosesNothing ==
  packer = "done" => /\ unpacker # "refused"
                     /\ unpacker = "accepted" => decoded = journal

\* A file that was packed to its end is never refused, and comes back whole ("canonical
\* JSONL round-trips byte-for-byte", compact_transcript.test.js:17) once unpack ends.
THEOREM PackedFilesReturn == CodecSpec => []PackLosesNothing
<1>1. CodecInv => PackLosesNothing
  <2> SUFFICES ASSUME CodecInv, packer = "done"
               PROVE  unpacker # "refused" /\ (unpacker = "accepted" => decoded = journal)
    BY DEF PackLosesNothing
  <2>1. unpacker # "refused"
    BY DEF CodecInv, UnpackInv
  <2>2. ASSUME unpacker = "accepted" PROVE decoded = journal
    <3>1. decoded = Part(journal, ChunkCount(journal))
      BY <2>2, AcceptedIsPart
    <3>2. journal \in Seq(Bytes) /\ ChunkCount(journal) \in 0..ChunkCount(journal)
      BY PendingIs
    <3> QED
      BY <3>1, <3>2, PartIs
  <2> QED
    BY <2>1, <2>2
<1> QED
  BY <1>1, CodecInvariant, PTL
=============================================================================
