---------------------------- MODULE PublicReplay ----------------------------
(***************************************************************************)
(* The readers of a public run: replay_sepolia_public.js,                  *)
(* replay_local_run.js and compare_replay_with_oracle.js, and what the     *)
(* author may do to the gate transcript before handing a run out (the      *)
(* README takes it as JSONL or in the compact form).                       *)
(*                                                                         *)
(* A replay reads files that no longer change and the state of a claimed   *)
(* poll, which does not change either: it is one step, and a failed one    *)
(* (an endpoint that does not answer included) leaves nothing.  The        *)
(* verifiers it calls are those of the other modules; here they tell the   *)
(* gates of one process from those of another and from missing ones.       *)
(***************************************************************************)
EXTENDS PublicRun

VARIABLES
  publicReplay,  \* public_replay.json of every directory
  summary        \* benchmark_summary.json

vars == <<runVars, publicReplay, summary>>

\* unpack: the frames behind the header; a file without one is refused.
Unpack(content) ==
  IF content # None /\ content # <<>> /\ Head(content) = Magic THEN Tail(content) ELSE None

\* The journal the Sepolia replay reads.  (Faulty: the JSONL form only.)
JournalOf_JsonlOnly(d) == files[d][Journal]
JournalOf(d) ==
  IF files[d][Journal] # None THEN files[d][Journal] ELSE Unpack(files[d][Compact])

\* What both replays demand: the hashes of the files, the gates of the native
\* backend, and a transcript hash recomputed from what was read.
Recomputed(d, journal) ==
  [setup |-> files[d]["public_setup.json"], journal |-> journal,
   release |-> files[d]["final_release.json"]]
Stated(transcriptHash) ==
  [setup |-> <<transcriptHash.setup>>, journal |-> transcriptHash.journal,
   release |-> <<transcriptHash.release>>]

FilesMatch(d, journal) ==
  /\ manifest[d] # None
  /\ \A f \in DOMAIN manifest[d].hashes \ {Journal} : files[d][f] = manifest[d].hashes[f]
  /\ journal = manifest[d].hashes[Journal]
  /\ Recomputed(d, journal) = Stated(manifest[d].transcriptHash)

\* verifyNativeDagFile: every gate, and the entries' backend is "RUST".
NativeDagVerifies(d, journal) ==
  /\ manifest[d].kind # "reference"
  /\ journal = CompleteJournal(manifest[d].by)

\* The poll is the one the chain snapshot names.
ClaimMatches(d) ==
  LET p == Head(files[d]["chain_snapshot.json"])
  IN /\ poll[p].phase = "Claimed"
     /\ poll[p].acceptedBallotCount = N
     /\ poll[p].backendTranscriptHash = manifest[d].transcriptHash
     /\ poll[p].outcomeBit = manifest[d].resultBit

SepoliaReplayPasses(d) ==
  /\ FilesMatch(d, JournalOf(d))
  /\ manifest[d].kind \in OnChainKinds
  /\ NativeDagVerifies(d, JournalOf(d))
  /\ ClaimMatches(d)

\* No compact form here.
LocalReplayPasses(d) ==
  /\ FilesMatch(d, files[d][Journal])
  /\ manifest[d].kind \notin OnChainKinds
  /\ files[d]["ballot_public_context.json"] # None
  /\ NativeDagVerifies(d, files[d][Journal])

Replay(d) ==
  /\ SepoliaReplayPasses(d) \/ LocalReplayPasses(d)
  /\ publicReplay' = [publicReplay EXCEPT ![d] =
       [transcriptHash |-> manifest[d].transcriptHash, resultBit |-> manifest[d].resultBit]]
  /\ UNCHANGED <<runVars, summary>>

\* "count" is a field of the manifests of local runs.
HasCount(m) == m.kind \notin OnChainKinds

\* compare_replay_with_oracle.js; the oracle inputs are those of the process
\* that wrote them.
Compare(d) ==
  /\ manifest[d] # None
  /\ publicReplay[d] # None
  /\ publicReplay[d].transcriptHash = manifest[d].transcriptHash
  /\ publicReplay[d].resultBit = manifest[d].resultBit
  /\ LET oracle == files[job[manifest[d].by].oracle]["cleartext_oracle_inputs.json"]
     IN /\ oracle # None
        /\ HasCount(manifest[d])
        /\ summary' = [summary EXCEPT ![d] =
             [resultBit |-> publicReplay[d].resultBit,
              oracleResultBit |-> Decision[Head(oracle)]]]
  /\ UNCHANGED <<runVars, publicReplay>>

-----------------------------------------------------------------------------
(* The author of a run                                                     *)

\* compact_transcript.js pack, by hand: killed after any number of frames, or
\* not at all.  (A frame cut short is CompactTranscript's matter.)
PackByHand(d) ==
  /\ files[d][Journal] # None
  /\ Absent(d, Compact)
  /\ \E frames \in 0..Len(files[d][Journal]) :
       Put(d, Compact, <<Magic>> \o SubSeq(files[d][Journal], 1, frames))
  /\ UNCHANGED <<contractVars, processVars, dirs, manifest, publicReplay, summary>>

\* The JSONL of a Sepolia run is left out of the bundle once "verify" prints the
\* manifest's hash for the compact form.
DropJournal(d) ==
  /\ manifest[d] # None
  /\ manifest[d].kind \in OnChainKinds
  /\ Unpack(files[d][Compact]) = manifest[d].hashes[Journal]
  /\ Put(d, Journal, None)
  /\ UNCHANGED <<contractVars, processVars, dirs, manifest, publicReplay, summary>>

-----------------------------------------------------------------------------
Init ==
  /\ RunInit
  /\ publicReplay = [d \in Directories |-> None]
  /\ summary = [d \in Directories |-> None]

Next ==
  \/ RunNext /\ UNCHANGED <<publicReplay, summary>>
  \/ \E d \in Directories : Replay(d) \/ Compare(d) \/ PackByHand(d) \/ DropJournal(d)

\* Somebody who has a run replays it and then compares it, until it works.
Fairness == \A d \in Directories : WF_vars(Replay(d)) /\ WF_vars(Compare(d))

Spec == Init /\ [][Next]_vars
FairSpec == Spec /\ Fairness

-----------------------------------------------------------------------------
(* Properties                                                              *)

WritersOf(content) == {content[i] : i \in DOMAIN content} \ {Magic}
Writers(d) == UNION {WritersOf(files[d][f]) : f \in {g \in Names : files[d][g] # None}}

\* A directory never mixes the files of two processes, although both may have
\* found it missing, both made it, and each checks only the file it is about to
\* write: the replays check files against one manifest and not against each
\* other.
OneRunPerDirectory == \A d \in Directories : \A p, q \in Writers(d) : p = q

\* A claimed poll is backed by files: the setup, the board, the whole journal and
\* the release its transcript hash was made of are in the directory of its run,
\* wherever the process was stopped and although it may have left no manifest.
ClaimIsBacked ==
  \A p \in Processes :
    poll[p].phase = "Claimed" =>
      LET d == RunDir(p)
      IN /\ Recomputed(d, JournalOf(d)) = Stated(poll[p].backendTranscriptHash)
         /\ files[d]["sealed_board.json"] = <<poll[p].backendTranscriptHash.board>>
         /\ JournalOf(d) = CompleteJournal(p)

\* A manifest is written last: whoever finds one finds every file it hashes
\* complete and unchanged, and, for a run on chain, the poll claimed with its
\* result and its transcript.  A run that was stopped anywhere has none.
ManifestIsEvidence ==
  \A d \in Directories :
    manifest[d] # None =>
      /\ FilesMatch(d, JournalOf(d))
      /\ JournalOf(d) = CompleteJournal(manifest[d].by)
      /\ manifest[d].kind \in OnChainKinds => ClaimMatches(d)
      /\ files[job[manifest[d].by].oracle]["cleartext_oracle_inputs.json"]
           = <<manifest[d].by>>

\* A replay that passed, and the comparison after it, say what the tally decided.
\* A run with a manifest can be replayed, in whichever form its journal is kept,
\* if its gates were made by the native backend.
CompletedRunReplays ==
  \A d \in Directories :
    (manifest[d] # None /\ manifest[d].kind # "reference") ~> publicReplay[d] # None

\* "It refuses to open oracle inputs until the independent public replay has
\* passed" (compare_replay_with_oracle.js:3): once it has, the comparison is made.
ReplayedRunCompares ==
  \A d \in Directories : publicReplay[d] # None ~> summary[d] # None

-----------------------------------------------------------------------------
(* The outcome of a run                                                    *)

OutcomeOf(result, transcriptHash) == [result |-> result, transcript |-> transcriptHash]
ManifestBy(p) == manifest[RunDir(p)] # None /\ manifest[RunDir(p)].by = p

ClaimedOutcome ==
  [p \in Processes |->
     IF poll[p].phase = "Claimed"
     THEN OutcomeOf(poll[p].outcomeBit, poll[p].backendTranscriptHash) ELSE None]
AttestedOutcome ==
  [p \in Processes |->
     IF ManifestBy(p)
     THEN OutcomeOf(manifest[RunDir(p)].resultBit, manifest[RunDir(p)].transcriptHash)
     ELSE None]
ConfirmedOutcome ==
  [p \in Processes |->
     IF ManifestBy(p) /\ publicReplay[RunDir(p)] # None
     THEN OutcomeOf(publicReplay[RunDir(p)].resultBit, publicReplay[RunDir(p)].transcriptHash)
     ELSE None]

O == INSTANCE PublishedOutcome WITH
       Runs      <- Processes,
       Outcomes  <- [result : {0, 1}, transcript : Transcripts],
       Nothing   <- None,
       onChain   <- {p \in Processes : OnChain(p)},
       claimed   <- ClaimedOutcome,
       attested  <- AttestedOutcome,
       confirmed <- ConfirmedOutcome

\* Claim, manifest and replay name one outcome of each run, in that order, and
\* none of them is ever replaced, by a second process in the same directory or by
\* a transaction mined after its sender is gone.
ImplementsPublishedOutcome == O!OSpec
=============================================================================
