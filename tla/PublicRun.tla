------------------------------ MODULE PublicRun -----------------------------
(***************************************************************************)
(* The producers of a public run: run_sepolia_pipeline.js with its ballot  *)
(* child (generate_n8_ballots_child.js) and run_local_scale.js with its    *)
(* own (generate_local_ballots_child.js), over the files of their          *)
(* directories and the transactions they send to StrongPoll.               *)
(*                                                                         *)
(* A process opens its directories and then goes through the steps of its  *)
(* script, one file operation or transaction at a time.  It may stop at    *)
(* any step, by an error it throws or by being killed; nothing resumes it. *)
(* A transaction it sent is mined whether it still runs or not, and so     *)
(* does a child it started run on.                                         *)
(*                                                                         *)
(* Abstractions:                                                           *)
(*  - a file is the sequence of the parts appended to it, and a part is    *)
(*    the process that wrote it (a journal has one part per gate); SHA-256 *)
(*    is injective: a hash is the content it was made of;                  *)
(*  - what a script computes between two effects (ballots, admission,      *)
(*    gates, release) is modelled in the other modules; an error there is  *)
(*    a Stop;                                                              *)
(*  - the verifier's deployment has no effect a later step depends on.     *)
(***************************************************************************)
EXTENDS Naturals, Sequences

CONSTANTS
  Processes,     \* executions of a producer script
  Directories,
  Jobs,          \* assignments of a script and of directories to each process
  Decision,      \* the decision bit each process's tally ends in
  N,             \* ballots of a poll
  Gates,         \* gates of a tally
  ProgressFile,  \* the name of a gate's progress file
  Window,        \* 86400 seconds, from the last block to the deadline
  MaxTime,       \* bound: the last block timestamp considered
  Magic,         \* the header of a compact transcript
  None

Kinds == {"sepolia", "reference", "local", "stream"}
OnChainKinds == {"sepolia", "reference"}

FixedNames ==
  {"public_setup.json", "ballot_public_proofs.json", "ballot_public_context.json",
   "cleartext_oracle_inputs.json", "ballot_generation.log", "verification_key.json",
   "chain_snapshot.json", "sealed_board.json", "local_admission_board.json",
   "gate_transcript.jsonl", "native_gate_records.jsonl", "final_release.json",
   "gate_transcript.compact.bin", "manifest.json"}
Names == FixedNames \cup {ProgressFile[k] : k \in 1..Gates}

\* A run directory is nobody's oracle directory; a progress file has a name of its
\* own (progress_001.json); a file that is not there is no content.
ASSUME RunAssumption ==
  /\ Jobs \subseteq [Processes -> [kind : Kinds, run : Directories, oracle : Directories]]
  /\ \A j \in Jobs : \A p, q \in Processes : j[p].run # j[q].oracle
  /\ Decision \in [Processes -> {0, 1}]
  /\ N \in Nat \ {0}
  /\ Gates \in Nat \ {0}
  /\ \A k \in 1..Gates : ProgressFile[k] \notin FixedNames
  /\ Window \in Nat \ {0}
  /\ MaxTime \in Nat
  /\ Magic \notin Processes
  /\ None \notin Processes
  /\ None \notin Seq(Processes \cup {Magic})

VARIABLES
  clock, poll, log,  \* the contract, see StrongPoll
  job,               \* what each process was started for
  status,            \* how far a process has come: opening, steps, or its end
  at,                \* the step it is at
  tx,                \* its transaction under way
  transcript,        \* the complete transcript whose hash it holds
  dirs,              \* directories that exist
  files,             \* their files
  manifest           \* the fields of their manifests

contractVars == <<clock, poll, log>>
processVars == <<job, status, at, tx, transcript>>
diskVars == <<dirs, files, manifest>>
runVars == <<contractVars, processVars, diskVars>>

-----------------------------------------------------------------------------
(* The contract, with one deployment per process and fresh ballots         *)

Parts == Processes \cup {Magic}
Transcripts ==
  [setup : Processes, board : Processes, journal : Seq(Parts), release : Processes]
Hashes == Processes \cup Transcripts

PollConfig(p, now) ==
  [verifier |-> "verifier", publisher |-> "publisher", tau |-> 0,
   deadline |-> now + Window, setupHash |-> p]

Contract == INSTANCE StrongPoll WITH
  Deployments  <- Processes,
  Accounts     <- {"verifier", "publisher"},
  Configs      <- {PollConfig(p, now) : p \in Processes, now \in 0..MaxTime},
  ZeroAddress  <- "zero",
  ZeroHash     <- None,
  Transcripts  <- Hashes,
  MaxTau       <- 0,
  FieldOrder   <- N + 1,
  WordBound    <- N + 1,
  IdentityWord <- 0,
  Voters       <- 1..N,
  NullifierOf  <- [v \in 1..N |-> v]

FreshBallot(k) == [nullifier |-> k, ciphertext |-> k, context |-> TRUE, proven |-> TRUE]

-----------------------------------------------------------------------------
(* The scripts, as sequences of steps                                      *)

Step(op, file) == [op |-> op, file |-> file, child |-> FALSE]
ChildStep(op, file) == [op |-> op, file |-> file, child |-> TRUE]
Times(n, step) == [k \in 1..n |-> step]

Journal == "gate_transcript.jsonl"
Compact == "gate_transcript.compact.bin"
NativeRecords == "native_gate_records.jsonl"

BallotChild ==
  << ChildStep("mkdir", "oracle"),
     ChildStep("create", "ballot_public_proofs.json"),
     ChildStep("create", "ballot_public_context.json"),
     ChildStep("oracle", "cleartext_oracle_inputs.json") >>

\* The tally of each script: in one piece, gate by gate with a progress file
\* (the JS backend), or through a file of the native process.
Tally(kind) ==
  CASE kind \in {"sepolia", "local"} ->
         <<Step("empty", Journal)>> \o Times(Gates, Step("append", Journal))
    [] kind = "reference" ->
         [k \in 1..(2 * Gates) |->
            IF k % 2 = 1 THEN Step("append", Journal)
                         ELSE Step("create", ProgressFile[k \div 2])]
    [] kind = "stream" ->
         <<ChildStep("truncate", NativeRecords)>>
         \o Times(Gates, ChildStep("append", NativeRecords))
         \o <<Step("empty", Journal)>>
         \o Times(Gates, Step("append", Journal))
         \o <<Step("unlink", NativeRecords)>>

\* (Faulty: the result is claimed before its release is on disk; the manifest
\* is written before the claim.)
Publication_EarlyClaim ==
  << Step("hash", Journal), Step("claim", ""),
     Step("create", "final_release.json"), Step("manifest", "manifest.json") >>
Publication_LateClaim ==
  << Step("create", "final_release.json"), Step("hash", Journal),
     Step("manifest", "manifest.json"), Step("claim", "") >>
Publication ==
  << Step("create", "final_release.json"), Step("hash", Journal),
     Step("claim", ""), Step("manifest", "manifest.json") >>

SepoliaScript(kind) ==
  BallotChild
  \o << Step("create", "ballot_generation.log"), Step("create", "verification_key.json"),
        Step("deploy", "") >>
  \o [k \in 1..N |-> Step("submit", k)]
  \o << Step("create", "chain_snapshot.json"), Step("create", "sealed_board.json"),
        Step("new", Journal) >>
  \o Tally(kind)
  \o Publication

LocalScript(kind) ==
  BallotChild
  \o << Step("create", "local_admission_board.json"), Step("new", Journal) >>
  \o Tally(kind)
  \o << Step("create", "final_release.json"), Step("complete", Journal),
        Step("hash", Journal), Step("new", Compact), Step("magic", Compact) >>
  \o Times(Gates, Step("append", Compact))
  \o << Step("manifest", "manifest.json") >>

Script == [kind \in Kinds |-> IF kind \in OnChainKinds THEN SepoliaScript(kind)
                                                      ELSE LocalScript(kind)]

-----------------------------------------------------------------------------
(* Processes                                                               *)

OnChain(p) == job[p].kind \in OnChainKinds
RunDir(p) == job[p].run
At(p, op) ==
  /\ status[p] \in {"steps", "orphan"}
  /\ Script[job[p].kind][at[p]].op = op
File(p) == Script[job[p].kind][at[p]].file

NoTransaction == [call |-> "none", argument |-> None, state |-> "none"]

\* The script goes on, ends, or ends with the child that outlived its parent.
Advance(p) ==
  LET script == Script[job[p].kind]
      next == at[p] + 1
  IN /\ at' = [at EXCEPT ![p] = next]
     /\ status' = [status EXCEPT ![p] =
                     CASE next > Len(script) -> "done"
                       [] next <= Len(script) /\ @ = "orphan" /\ ~script[next].child -> "failed"
                       [] OTHER -> @]

Put(d, f, content) == files' = [files EXCEPT ![d][f] = content]

\* existsSync, twice; what the script makes of it comes later.
Check(p) ==
  /\ status[p] = "check"
  /\ RunDir(p) \notin dirs
  /\ job[p].oracle \notin dirs
  /\ status' = [status EXCEPT ![p] = "mkdir"]
  /\ UNCHANGED <<contractVars, job, at, tx, transcript, diskVars>>

\* mkdirSync(recursive) does not mind that the directory exists by now.
MakeRunDirectory(p) ==
  /\ status[p] = "mkdir"
  /\ dirs' = dirs \cup {RunDir(p)}
  /\ status' = [status EXCEPT ![p] = "setup"]
  /\ UNCHANGED <<contractVars, job, at, tx, transcript, files, manifest>>

\* writeNew and writeJsonNew: the flag "wx".  (Faulty: an existing file is
\* replaced.)
Absent_Overwrites(d, f) == TRUE
Absent(d, f) == files[d][f] = None

WriteSetup(p) ==
  /\ status[p] = "setup"
  /\ Absent(RunDir(p), "public_setup.json")
  /\ Put(RunDir(p), "public_setup.json", <<p>>)
  /\ status' = [status EXCEPT ![p] = "steps"]
  /\ UNCHANGED <<contractVars, job, at, tx, transcript, dirs, manifest>>

\* The child's mkdirSync is not recursive.
MakeOracleDirectory(p) ==
  /\ At(p, "mkdir")
  /\ job[p].oracle \notin dirs
  /\ dirs' = dirs \cup {job[p].oracle}
  /\ Advance(p)
  /\ UNCHANGED <<contractVars, job, tx, transcript, files, manifest>>

\* The file operations of a step and what they leave in the file; "wx" refuses
\* one that exists, File::create of the native process truncates it.
Written(p, op, old) ==
  CASE op \in {"create", "oracle"} -> <<p>>
    [] op \in {"new", "truncate"}  -> <<>>
    [] op = "magic"                -> Append(old, Magic)
    [] op = "append"               -> Append(old, p)
    [] op = "unlink"               -> None

WriteFile(p) ==
  \E op \in {"create", "oracle", "new", "truncate", "magic", "append", "unlink"} :
    LET d == IF op = "oracle" THEN job[p].oracle ELSE RunDir(p)
    IN /\ At(p, op)
       /\ op \in {"create", "oracle", "new"} => Absent(d, File(p))
       /\ op \in {"magic", "append", "unlink"} => files[d][File(p)] # None
       /\ Put(d, File(p), Written(p, op, files[d][File(p)]))
       /\ Advance(p)
       /\ UNCHANGED <<contractVars, job, tx, transcript, dirs, manifest>>

\* E_NATIVE_JOURNAL_NOT_EMPTY, and the replay a local run makes of its journal.
CompleteJournal(p) == [k \in 1..Gates |-> p]
ReadJournal(p) ==
  /\ \/ At(p, "empty") /\ files[RunDir(p)][Journal] = <<>>
     \/ At(p, "complete") /\ files[RunDir(p)][Journal] = CompleteJournal(p)
  /\ Advance(p)
  /\ UNCHANGED <<contractVars, job, tx, transcript, diskVars>>

\* The journal is read back from disk; setup, board and release are at hand.
HashTranscript(p) ==
  /\ At(p, "hash")
  /\ files[RunDir(p)][Journal] # None
  /\ transcript' = [transcript EXCEPT ![p] =
       [setup |-> p, board |-> p, journal |-> files[RunDir(p)][Journal], release |-> p]]
  /\ Advance(p)
  /\ UNCHANGED <<contractVars, job, tx, diskVars>>

\* A transaction is sent with what the script has read before.
Arguments(p) ==
  [deploy |-> PollConfig(p, clock),
   submit |-> File(p),
   claim  |-> [commitment |-> poll[p].ballotSetCommitment, transcript |-> transcript[p]]]

Send(p) ==
  \E call \in {"deploy", "submit", "claim"} :
    /\ At(p, call)
    /\ tx[p] = NoTransaction
    /\ tx' = [tx EXCEPT ![p] =
                [call |-> call, argument |-> Arguments(p)[call], state |-> "pending"]]
    /\ UNCHANGED <<contractVars, job, status, at, transcript, diskVars>>

\* wait() returns the receipt of a transaction that did not revert.  (Faulty:
\* the script does not wait.)
Receive_NoWait(p) ==
  /\ \E call \in {"deploy", "submit", "claim"} : At(p, call)
  /\ tx[p].state \in {"pending", "mined"}
  /\ tx' = [tx EXCEPT ![p] = NoTransaction]
  /\ Advance(p)
  /\ UNCHANGED <<contractVars, job, transcript, diskVars>>
Receive(p) ==
  /\ \E call \in {"deploy", "submit", "claim"} : At(p, call)
  /\ tx[p].state = "mined"
  /\ At(p, "claim") => poll[p].outcomeBit = Decision[p]
  /\ tx' = [tx EXCEPT ![p] = NoTransaction]
  /\ Advance(p)
  /\ UNCHANGED <<contractVars, job, transcript, diskVars>>

\* What the manifest says of its files: three are read again, the hashes of the
\* others are those of what the process wrote.
ReadAgain == {"public_setup.json", "ballot_public_proofs.json",
              "chain_snapshot.json", "local_admission_board.json"}
Hashed(kind) ==
  {"public_setup.json", "ballot_public_proofs.json", "final_release.json", Journal}
  \cup IF kind \in OnChainKinds
       THEN {"chain_snapshot.json", "sealed_board.json", "verification_key.json"}
       ELSE {"local_admission_board.json"}

ManifestOf(p) ==
  [by |-> p, kind |-> job[p].kind, resultBit |-> Decision[p], transcriptHash |-> transcript[p],
   hashes |-> [f \in Hashed(job[p].kind) |->
                 CASE f = Journal -> transcript[p].journal
                   [] f \in ReadAgain -> files[RunDir(p)][f]
                   [] OTHER -> <<p>>]]

WriteManifest(p) ==
  /\ At(p, "manifest")
  /\ \A f \in ReadAgain \cap Hashed(job[p].kind) : files[RunDir(p)][f] # None
  /\ Absent(RunDir(p), "manifest.json")
  /\ Put(RunDir(p), "manifest.json", <<p>>)
  /\ manifest' = [manifest EXCEPT ![RunDir(p)] = ManifestOf(p)]
  /\ Advance(p)
  /\ UNCHANGED <<contractVars, job, tx, transcript, dirs>>

\* A thrown error or a kill; a child that is running goes on to its end.
Stop(p) ==
  /\ status[p] \in {"check", "mkdir", "setup", "steps", "orphan"}
  /\ status' = [status EXCEPT ![p] =
       IF @ = "steps" /\ Script[job[p].kind][at[p]].child THEN "orphan" ELSE "failed"]
  /\ UNCHANGED <<contractVars, job, at, tx, transcript, diskVars>>

\* The ballot child exits with an error: run_sepolia keeps its output, then both
\* scripts throw.
BallotChildFails(p) ==
  /\ status[p] = "steps"
  /\ at[p] <= Len(BallotChild)
  /\ IF OnChain(p)
     THEN /\ Absent(RunDir(p), "ballot_generation.log")
          /\ Put(RunDir(p), "ballot_generation.log", <<p>>)
     ELSE UNCHANGED files
  /\ status' = [status EXCEPT ![p] = "failed"]
  /\ UNCHANGED <<contractVars, job, at, tx, transcript, dirs, manifest>>

-----------------------------------------------------------------------------
(* The chain                                                               *)

\* A pending transaction is mined: the contract runs it, or it reverts.
Applied(p) ==
  \/ tx[p].call = "deploy" /\ Contract!Constructor(p, tx[p].argument)
  \/ tx[p].call = "submit" /\ Contract!SubmitBallot(p, FreshBallot(tx[p].argument))
  \/ /\ tx[p].call = "claim"
     /\ Contract!PublishOutcomeClaim(p, "publisher", tx[p].argument.commitment,
                                     tx[p].argument.transcript, Decision[p])

Mine(p) ==
  /\ tx[p].state = "pending"
  /\ Applied(p)
  /\ tx' = [tx EXCEPT ![p].state = "mined"]
  /\ UNCHANGED <<job, status, at, transcript, diskVars>>

Reverts(p) ==
  CASE tx[p].call = "deploy" -> tx[p].argument.deadline <= clock
    [] tx[p].call = "submit" -> ~Contract!Acceptable(p, FreshBallot(tx[p].argument))
    [] OTHER -> poll[p].phase # "Sealed"

Revert(p) ==
  /\ tx[p].state = "pending"
  /\ Reverts(p)
  /\ tx' = [tx EXCEPT ![p].state = "reverted"]
  /\ UNCHANGED <<contractVars, job, status, at, transcript, diskVars>>

BlockTime == Contract!Tick /\ UNCHANGED <<processVars, diskVars>>

\* Anyone may call abandon() after the deadline.
Abandon(p) == Contract!Abandon(p) /\ UNCHANGED <<processVars, diskVars>>

-----------------------------------------------------------------------------
RunInit ==
  /\ Contract!Init
  /\ job \in Jobs
  /\ status = [p \in Processes |-> "check"]
  /\ at = [p \in Processes |-> 1]
  /\ tx = [p \in Processes |-> NoTransaction]
  /\ transcript = [p \in Processes |-> None]
  /\ dirs = {}
  /\ files = [d \in Directories |-> [f \in Names |-> None]]
  /\ manifest = [d \in Directories |-> None]

ProcessStep(p) ==
  \/ Check(p)
  \/ MakeRunDirectory(p)
  \/ WriteSetup(p)
  \/ MakeOracleDirectory(p)
  \/ WriteFile(p)
  \/ ReadJournal(p)
  \/ HashTranscript(p)
  \/ Send(p)
  \/ Receive(p)
  \/ WriteManifest(p)
  \/ Stop(p)
  \/ BallotChildFails(p)

RunNext ==
  \/ \E p \in Processes : ProcessStep(p) \/ Mine(p) \/ Revert(p) \/ Abandon(p)
  \/ BlockTime
=============================================================================
