# Formal model of the winner-only weighted vote

This directory models the program of this repository in TLA+: an on-chain poll takes
encrypted weighted ballots, a committee of trustees tallies them without opening
them, and only the bit "the weighted sum reaches the threshold tau" is decrypted,
published and claimed on chain. TLC checks small instances of every module; TLAPS
proves the central properties for all values of the constants.

Paths below are relative to `src/`; `js/` abbreviates `backend/js_protocol/src/`.

## 1. The system

| component | code | state it keeps | operations | modelled in |
|---|---|---|---|---|
| On-chain poll | `implementation/arbitrum/contracts/StrongN8Poll.sol`, `SignalIndex.sol` | phase, ballot count, nullifiers, hash accumulator, commitment, claim | constructor, submitBallot, abandon, publishOutcomeClaim | `StrongPoll` |
| Groth16 verifier, ballot circuit | `verifier.sol`, `circuits/` | none | verifyProof | partly, `StrongPoll` |
| Sealed board and admission | `board_binding/lib/sealed_board.js`, `js/accepted_board.js` | none (pure functions over a snapshot) | fromChainSnapshot, validateSealedBoard, admitSealedBoard | partly, `SealedBoard` |
| Local admission | `js/local_admission.js` | none | admitLocalProofBoard | `LocalAdmission` |
| Ballot generation | `backend/js_protocol/scripts/generate_*_ballots_child.js`, `js/n8_ballots.js` | files of a run | prepareFreshN8Ballots, the ballot children | partly, `PublicRun` |
| Broadcast board | `js/broadcast_board.js` | status, abort record, phases with staged and sealed submissions | definePhase, submit, readPhase, exportTranscript, verifyBroadcastTranscript | `BroadcastBoard`, `BoardTranscript` |
| Decryption typestate | `js/validation_state.js` | the state object of one ciphertext | receive ... authorizeForDecryption, emitPartialShare | partly, `Rerandomization` and its users |
| Threshold setup and decryption | `js/threshold_setup.js`, `js/threshold_decryption.js` | shares, verification keys | verifyPublicSetup, verifySecretShare, create/verify/combine shares | `ThresholdElGamal` |
| Conditional gate | `js/conditional_gate.js`, `js/rerandomization.js`, `js/proofs.js` | the board, the masking chain | runConditionalGate, verifyConditionalGateTranscript | `Rerandomization`, `ConditionalGate`, `GateBoard`, `GateTranscript` |
| Native gate and its adapter | `backend/cgy_native/src/gate.rs`, `backend/cgy_native/tools/native_gate_adapter.js` | none (a record, a board rebuilt from it) | run_gate_core, verify_gate_json_with_setup, the adapters | `GateBoard`, `GateTranscript` |
| Bit arithmetic | `js/arithmetic.js` | none | addBits, balancedAggregate, subLTBits | `BitArithmetic` |
| Native tally DAG | `backend/cgy_native/src/gate.rs` and `backend/cgy_native/tools/` | gate counter, transcript | run/verify DAG, streaming verifier | `TallyDag`, `TallyTranscript` |
| Final release | `js/final_release.js` | the board | buildLogicalDecisionCiphertext, runFinalRelease, verifyFinalRelease | `FinalRelease` |
| Producer pipelines | `backend/js_protocol/scripts/run_sepolia_pipeline.js`, `run_local_scale.js`, the arithmetic scheduler of `cgy_native/tools` | directories, files, a manifest, transactions under way | the steps of the scripts and of their children | `PublicRun` |
| Public replay | `scripts/replay_sepolia_public.js`, `replay_local_run.js`, `compare_replay_with_oracle.js` | `public_replay.json`, `benchmark_summary.json` | replay, compare | `PublicReplay` |
| Native process bridge | `backend/cgy_native/tools/native_gate_bridge.js` | none | one process per request | partly, steps of `PublicRun` |
| Compact transcript | `backend/cgy_native/tools/compact_transcript.js` | the file being written or read | pack, unpack | `CompactTranscript` |
| Curve, hashing, codecs | `js/group.js`, `js/hash_to_scalar.js`, `js/codec.js`, `lib.rs` | none | arithmetic and encodings | not modelled |

How they interact: voters call the poll; its events are the only input of the
tally. The pipeline snapshots the events of a sealed poll, converts them to a sealed
board, and the backend admits it. The tally runs conditional gates over the
admitted ciphertexts; in each gate the trustees talk only through the broadcast
board. The final release decrypts one bit, again through the board, and the publisher
claims it on chain under the ballot-set commitment.

What is hard, component by component, is the `hazards` list of `PROJECT.json`, each at
its line: barriers counted by size, retries after a seal, submissions overtaking their
prerequisites, exports in the middle of a phase, words that alias modulo the field
order, races of the N-th ballot with the deadline, replays between deployments,
off-chain refusal of what the chain accepted, runs that share a directory, crashes between
any two files of a run, transactions mined after their sender is gone, files cut short,
messages of one gate taken for another's, exact thresholds and widths.

## 2. Modules

### BroadcastBoard, AtomicBroadcast, BoardTranscript, Ordering

`BroadcastBoard` is the class `CanonicalBroadcastBoard`. Its variables are the object's
fields (`status`, `abortRecord`, `phases`) with the answer of the last call (`reply`)
and, as history, what `readPhase` has handed out (`delivered`). `definePhase` is
`DefinePhase` / `DefinePhaseRejected`; `submit` is the five outcomes `SubmitWait`,
`SubmitRetry`, `SubmitConflict`, `SubmitStore`, `SubmitRejected`, in the order of the
code's checks; `readPhase` is `ReadSealed` / `ReadNothing`. Callers may deliver any
signed request at any time, repeatedly or never; a signature exists only for what
`Signs` says its trustee signed, and a trustee is honest when it signs one payload per
slot. `AtomicBroadcast` is the promise: each slot decides at most one vector of
signed payloads, after the slot it depends on, everyone is told the same one, and the
board stops only on proof of equivocation. `BoardTranscript` adds the exported
transcript and its verifier as operators on a state. Its `sort` and `filter` are those of
`Ordering`.

### StrongPoll, BallotBox, SealedBoard, LocalAdmission

`StrongPoll` is the contract, in several deployments that share `clock`
(block.timestamp), the registry and the poll id. A reverted call changes nothing and is
a stuttering step, so the guards are the `require`s. keccak256 is injective: a chained
hash is the record it was made of. The thirty-two ciphertext words are one word, and a
word is a number below `WordBound`, which is larger than `FieldOrder`, so that every
field element has aliases. `VerifyProof` is the range check of `verifier.sol` and the
circuit's nullifier constraint. `BallotBox` is the promise, in terms of voters and
ballots. `SealedBoard` adds, as operators, the pipeline's snapshot, the board
validation and the backend's admission; `LocalAdmission` the admission of a list of
proofs, which takes the place of poll and sealed board in a local run.

### ThresholdElGamal, Rerandomization, ConditionalGate, ProductGate, GateBoard, GateTranscript

`ThresholdElGamal` is the ciphertext algebra and the trustees' sharing. A point is its
discrete logarithm to the generator, an integer modulo the subgroup order, so that
group operations are the arithmetic they stand for; what the dealer refuses is the
module's assumption. `Rerandomization` is what gate and release share: the joint
rerandomization, its record and verifier, and shares that belong to one authorization.

`ConditionalGate` is `runConditionalGate`. Its variables are the vectors that the trustees
have posted so far (`masks`, `xZeros`, `yZeros`, `partials`), the inputs and the outcome,
with the secret signs as history. `Mask` is a trustee's step in the chain,
`ContributeX` and `ContributeY` are the two rerandomizations, `EmitShare` is the authorized
partial decryption, `OpenSelector` and `RefuseOpening` are the two ends of the opening,
`RefuseMasks` is the one refusal an honest chain can meet. A posted message is one the
board has sealed, which `BroadcastBoard` says all see alike. `ProductGate` is the promise:
one answer, the product, or a failure.

`GateBoard` composes the gate with `BroadcastBoard`: it is the board a gate leaves, with
the phases, dependencies and sub-sessions (`invocation * 16 + offset`) that
`runConditionalGate` and the adapter of a native record define, next to those of other gates
(`BaseSessions`) that used the same board before. The export is sorted as `BroadcastBoard`
sorts it, and `WithoutShares` is the filter by which the verifier finds the
prefix the opening is bound to. A native record is the same messages without a board.

`GateTranscript` adds the record and its two verifiers as operators; the JavaScript one reads
its messages out of the exported board. A proof is the relation it proves (one sign for X and
Y; an encryption of zero; a share of the right key), and a hash is the value hashed. `Forged`
and `Altered` are the records no honest run made: one message any its type allows, with what
follows honest, or one part exchanged; `Displaced` and `Rebased` ones have phases in
another session, or parts made for another gate.

### FinalRelease, DecisionRelease

`FinalRelease` is `final_release.js`. `BuildDecision` checks Q = D - C\* and negates the
borrow; `Call` and `RefuseCall` begin `runFinalRelease` with any list of trustee ids, also
again after a failure, on the board as it was left; `Contribute` and `EmitShare` are the
trustees' posts, `RefuseTrustee` an id found out of range when its turn comes, `Release` and
`RefuseResult` the two ends. The board is its two kinds of phases, `zeros` and `shares`.
`DecisionRelease` is the promise: the decision is opened once, and nothing else. `Verify` is
`verifyFinalRelease`; `Altered` are records with a part exchanged or a message forged.

### BitArithmetic, WeightedVote, TallyDag, TallyTranscript

`BitArithmetic` has the adder and the comparison as circuits: given the answers of the
gates so far, an operator returns all gate calls and the output wires. The JavaScript and
the Rust code have the same formulas. A ciphertext is its plaintext here, and a gate
multiplies in one step, which is what `ImplementsProductGate` says of the protocol. `SequenceSum` is
the weighted sum that both the promise and the tally speak of.

`TallyDag` is `run_dag_request`. Each node of a level has a worker, which runs its gates
one by one (`RunGate`) and may fail (`GateFails`); when all have joined, `CollectLevel`
concatenates their records in the order of the nodes and launches the next level,
`Conclude` ends the comparison, and `GiveUp` fails the request as a whole. `nextGateId` is
not advanced while workers run; each computes its own start. `WeightedVote` is the
promise. `TallyTranscript` replays a journal: `VerifyDag` is the verifier that holds the
whole journal, `VerifyDagFile` the streaming one, which loads a batch, checks its gates
and walks them. The replay compares plaintexts where the code compares ciphertexts.

### PublicRun, PublicReplay, PublishedOutcome

`PublicRun` is the two producer scripts as processes. `Script` lists, for each kind of run
(Sepolia with the native or the JavaScript backend, local in memory or streaming), its file
operations and transactions in their order, and which of them a child process does; an
action is one step. `Check`, `MakeRunDirectory`, `WriteSetup` are the opening of a directory,
`WriteFile` every write with its flag ("wx", truncating, appending), `Send`, `Mine`, `Revert`
and `Receive` a transaction, `WriteManifest` the end. `Stop` is an error or a kill at any
point; a running child goes on without its parent (`orphan`), and a transaction that was sent
is still mined. The contract is `StrongPoll` itself, instantiated with one deployment per
process. `PublicReplay` adds the readers: both replays, the comparison with the oracle, and
the author's packing of the journal and leaving out of the JSONL. `PublishedOutcome` is
the promise: an outcome is claimed, then attested, then confirmed, the same one each
time, and never replaced.

### CompactTranscript

`pack` and `unpack` cell by cell: what a read returns, when a chunk is flushed, the
frame's lengths, short writes, a kill between two writes, and every refusal, the one
of a compressed chunk beyond `CHUNK_BYTES` by more than `FrameSlack` included. `PublicRun`
uses its outcome only: a packed file is a header and as many frames as were written.

## 3. Runs

| run | instance | what it shows |
|---|---|---|
| `board` | 3 trustees, one may equivocate; a commit phase of all, a reveal of two that depends on it, a third phase that depends on the reveal or on itself; two malformed definitions | all invariants, action properties and liveness of the board, exports that verify, and refinement of `AtomicBroadcast` |
| `board_retry` | the same | violation: a retry that arrives after its phase sealed is refused |
| `board_export_order` | the same, phase names that two comparisons sort differently | violation: the board's own export is refused by its verifier |
| `poll` | 2 deployments, 3 voters for 2 places, 4 field elements in 8 words, deadline 2 of 3 instants | one ballot per voter, hidden ballots, commitments that follow from the events and differ, both admissions agreeing with the contract, polls that close, and refinement of `BallotBox` |
| `gate` | 3 trustees, threshold 2, exponents modulo 5, x in -1..1, y in 0..2, every choice of signs and of three nonces | agreement of all quorums, the opened sign masked by every trustee, failure only for cause, and refinement of `ProductGate` |
| `gate_transcript` | 2 trustees, threshold 2, modulo 5; the board was used by gates of two other base sessions, one below and one above | both verifiers accept an honest record, native or not; they accept no forged or altered one with a wrong output, and none with phases or parts of another gate or session |
| `gate_native_subset` | 3 trustees, threshold 2 | violation: the native runner does not open the selector |
| `release` | 3 trustees, threshold 2, every quorum in every order and six invalid ones, borrows that are bits and that are not, three nonces | the release opens the rerandomized decision only and once, whatever calls fail; the verifier accepts its record and no record with a wrong bit; refinement of `DecisionRelease` |
| `tally` | all requests of 2 voters with 3 bits, every threshold; of 4 voters with 2 bits and of 8 with 1, the threshold at the sum and above it; journals of 2 voters with 2 bits and 4 with 1 altered by one record | gate numbers, selectors that are bits, conservation of the sum, the two replaying verifiers agreeing on every altered journal and deciding right what they accept, refinement of `WeightedVote`, and the end of every run |
| `pipeline` | 2 processes in five pairs: the same directories twice; another script in them; another backend; the same oracle directory; nothing but the clock | no directory with files of two runs, claims and manifests backed by files, completed native runs that replay, and refinement of `PublishedOutcome` |
| `sepolia_oracle` | the same | violation: a replayed Sepolia run is never compared with its oracle |
| `compact` | journals of 0 to 9 bytes, pieces of 2, chunks of 4, frames up to one beyond | an accepted file is the encoding of a beginning of the journal; one packed to its end comes back |

Bounds. Three trustees are the least with a proper subset of two required and a
third to equivocate; one session is enough because dependencies never leave a session
and no code path relates two. Two deployments are the least for a replay; two places and
three voters allow a full poll, one that does not fill, and a ballot too many. `MaxTime`
is one instant after the deadline, so that both sides of it are reached. The poll
run switches the deadlock check off: the life of a poll really ends, and so do a gate,
a release and a tally.

In the gate runs 5 is the least prime above the number of trustees with a value that is
no bit and no negated bit, and every field element is reached as randomness of some
ciphertext; the forged messages range over the whole field. Two of three trustees is the
least proper quorum, two of two the least instance of the n-of-n profile that the
runners use. In the tally runs eight voters give three levels of parallel workers; the
order 7 exceeds every sum of two bits and a carry, which is all the adder needs.
`BatchSize` 4 makes one of the journals end with a batch (8 gates) and the other within
one (10).

In the pipeline runs two processes are the least that can collide; two ballots and two gates
(`N`, `Gates`) let a process stop within the ballots and within the journal; `Window` 1 and
`MaxTime` 2 allow the deadline to pass with transactions pending. The five pairs of jobs
are the ways in which scripts can share directories; all pairs at once would only multiply the
interleavings. In the compact run the journals have up to three chunks, with and without a
rest, and the compressed length is the largest a frame may have.

`SealedIffComplete`, `FirstWriteWins`, `AbortIsFinal`, `DecisionsStand` and the `TypeOK` of board,
poll, gate and release are theorems (section 4), so no run repeats them; the properties of
the runs compute with every part of the state.

Fairness. In `BroadcastBoard`, an honest trustee resubmits what it signed until the
board takes it (weak fairness of `HonestStore`); nothing is assumed of the others, of
readers or of definitions. In `StrongPoll`, blocks keep coming and somebody calls
`abandon()`, which anyone may; nobody has to vote or to claim. In `TallyDag`, the thread
pool runs every worker it was given and the main thread goes on when all have joined
(weak fairness of `Next`). In
`PublicReplay`, somebody who has a run replays it and compares it, per directory; nobody has
to finish one. In `CompactTranscript`, a process that was not killed goes on.

## 4. Proofs

Seven modules hold the theorems, `Foundations` the lemmas they share: the least-element
principle, induction and the existence of recursive functions over an interval, and
sorting. An induction over data takes the set of the numbers that have the property, a
recursion its steps as a function, an order its pairs: no theorem with an operator for a
parameter is needed. The order in which trustees, keys and phases are listed is
`InOrder` of `Ordering`, the element with i - 1 others before it at place i, which a proof can
reason about; `Foundations` proves that it sorts, and that there is one way to sort.

**`BoardTranscript_proofs`**, for any trustees, sessions, phase names, payloads,
definitions and signatures: the type invariant, `SealedIffComplete`,
`SealedVectorAuthentic`, `CommitBeforeReveal`, `CommonView`, `AbortOnlyOnEquivocation`,
`FirstWriteWins`, `AbortIsFinal`, the refinement `ImplementsAtomicBroadcast`, and
`ExportVerifies` for phase names that the two comparisons order alike. The
inductive invariant adds to them what `submit` relies on without checking: that a defined
phase has a canonical participant list, that only required trustees have submissions
(so that equal sizes mean equal sets, by the cardinality of a strictly ascending list),
that a staging phase is incomplete, and that what is staged is signed. The verifier of an
export re-checks exactly these.

**`StrongPoll_proofs`**, for any deployments, voters, configurations, number of places
and field: the type invariant, `OneBallotPerVoter`, `BallotsAreHidden`,
`CommitmentFromLog`, `CommitmentsAreDistinct`, `SealedPollIsAdmitted`,
`LocalAdmissionAgrees`, `DecisionsStand` and the refinement `ImplementsBallotBox`. The
inductive invariant is per deployment: the log holds canonical words of distinct voters'
nullifiers, equal to the used ones, none with an identity, and storage is the function of
the log that `CommitmentFromLog` says.

**`ThresholdElGamal_proofs`**, for any order whose nonzero elements have inverses, any
number of trustees, threshold and polynomial: `QuorumsDecrypt`. The divided
difference of a polynomial vanishes on more points than its degree; taken on a quorum and 0
for the secret polynomial, and multiplied by the product of the negated ids, it is the
secret minus the weighed sum of the shares. Rerandomizing with encryptions of zero keeps the
plaintext, for the vector that trustees posted and for any that its verifier accepts.

**`GateTranscript_proofs`**: `QuorumsAgree`, `OpenedIsMasked`, `FailsForCause` and the
refinement of `ProductGate`. The inductive invariant `GateInv` says that the pair masked last
carries both inputs under the product of the signs so far, that contributions encrypt
zero, that shares belong to the rerandomized selector, that phases follow each other, and
what the outcome was computed from. Then `VerifiedGateMultiplies` and
`NativeVerifiedGateMultiplies`, of any record at all, not only those of the runs: one that a
verifier accepts is of a selector that is a bit and has an output that decrypts to the
product. From a record alone, the proofs of the masking steps chain up to one sign
that both inputs carry; the rest is as in a run. The native verifier weighs the first
`threshold` shares, whose trustees the record names, with the coefficients of the ids
1..threshold, so its theorem asks that they are these trustees (in any order), as in the n-of-n
setups that all scripts make; finding 3 is the same confusion in the runner.
`AcceptedRecordMultiplies` follows for such setups: the forged and altered records decode, and what
is read from the board of an adapted record is what the record holds.

The other two theorems are about boards, of any number of sessions. `HonestRecordsVerify`
(`RecordVerifies`) goes from `GateInv` to the record of the run: its proofs were made for what
they are checked against. On the board an export is the list of the posted phases in the order of
their keys; there is one such list (two sequences with the same elements in the same strict order
are equal), so every lookup finds the phase of the gate, and taking this gate's shares off
the list leaves the export of what was there before them. `AcceptedRecordsAreOwn`
(`AcceptedRecordIsOwn`) goes the other way: sub-sessions of different gates differ, which excludes
parts of other gates; a phase that was lost, moved or reopened is not found under its key; and if
none is missing, the count of the shares and the prefix that the verifier recomputes leave
nothing else to differ.

**`FinalRelease_proofs`**: `FailedCallsOpenNothing`, `OpensOnlyRerandomized`, `VerifierIsExact` and
the refinement of `DecisionRelease`, for any quorums, however often and with whatever ids the
release is called. The inductive invariant `ReleaseInv` says that the board holds at most
one complete rerandomization and the shares of one quorum, authorized for what it ends in. It
is needed because a second call goes on from the board that a failed one left.
`VerifiedIsRight` is the verifier alone: what it accepts decides right.

**`TallyTranscript_proofs`**, for any number of voters that is a power of two, any width, any
odd order and any order in which the workers run. `AdderIsExact` and `ComparisonIsExact`:
the circuits, whose carry and borrow are recursive functions of the bit, add and compare.
`GateNumbering`: gate numbers are unique and those of the sequential run, since the blocks
of a level's workers have the size of one node's gates, and the blocks in the order of the
nodes are the places of the concatenated journal. `SelectorsAreBits`, `AggregateConserved` and the
refinement of `WeightedVote` come from `TInv`, which adds to the numbering that every vector
of the frontier is of bits and that each worker is somewhere in an exact addition of its
pair; without the place of a worker in its circuit no answer of a gate could be said to be a
product of bits. `StreamAgrees` and `AcceptedIsRight` are of any journal: both verifiers
accept the same ones, and an accepted one decides right. With `RInv`, that the journal of
a run replays level by level, they give `VerifiersAgree` and `AcceptedJournalDecides`.

**`PublicReplay_proofs`**, for any number of processes, gates and ballots, any of the four
scripts, and any sharing of directories in which no run directory is an oracle directory:
`OneRunPerDirectory`, `ClaimIsBacked`, `ManifestIsEvidence` and the refinement of
`PublishedOutcome`. The first rests on who wrote `public_setup.json`: whoever is at a step
of its script wrote the one in its run directory, and so did whoever left a part of any
file there. It is needed because neither the check for the directory nor its creation
excludes a second process; only the first exclusive file does. An oracle directory holds a
single file, written in one piece. The others rest on `EInv`, which says of each position in
each script which files, transactions and remembered values a process that got there has
left behind, stopped or not, and of each file what it is evidence of.

The same module holds the theorems about `CompactTranscript`, since its runs take for given
what they say: `AcceptedFilesAreEncodings` (`AcceptedFileIsEncoding`) and `PackedFilesReturn`
(`PackLosesNothing`), for any journals, lengths of pieces, chunks and frames, whatever the reads
return and wherever the packer is killed. `CodecInv` says that the cells written and queued are
a beginning of the encoding of the whole journal, that what is gathered is what was read
since the last flush, and that the unpacker has consumed the header and the frames of what it
has put out. Because a piece is a part of a chunk, a flush always finds exactly a chunk; only the
last frame can be shorter, so there is one encoding, and no frame exceeds the unpacker's limits.

The assumptions are those of the modules. `OddOrder` and `SetupAssumption` say of the group
order what being an odd prime gives, and what the dealer refuses; `ThresholdsAreReachable` is
the contract's bound on tau (`StrongN8Poll.sol:21,96`) for any number and width of the votes;
`SessionAssumption` and `OrderAssumption` say that lists of sessions and names are sorted as the
code sorts them; `ReleaseAssumption`, `GateAssumption`, `BatchSizeAssumption` and `CodecAssumption` give
the inputs their types, the last one also that pieces divide chunks, 64 KiB and 4 MiB, and that a
frame's slack is enough for deflate; `RunAssumption` keeps run and oracle directories apart.

Only model-checked: `AcceptedRecordMultiplies` for a threshold below the number of trustees
(its records include some outside the native theorem's hypothesis: shares in another
order may open anything, and it depends on the field whether that can be a sign); all
liveness properties (`OpenBarrierSettles`, `OpenPollCloses`, `TallyEnds`, `CompletedRunReplays`,
`PackedJournalReturns`), which need fairness; and everything in the violation runs.

## 5. Findings

- `broadcast_board.js:206`: any request to a sealed phase is an error, so a retry of the
  request that sealed the phase is not idempotent, which the board's test says retries
  are. Every single-trustee phase seals at its first submission.
- `broadcast_board.js:266`: the export sorts phase names with `localeCompare`, the
  verifier demands the order of `<`. The names in use agree in both; names that differ
  in case or underscores need not.
- `gate.rs:556`: the native runner sums the weighted shares of all trustees under the ids
  1..threshold. For a 5-of-5 setup this is right; for any other setup, which
  `setup_from_json` accepts and the helpers' default is (3-of-5), the selector does not
  open. The native verifier and the JavaScript gate take the first `threshold` shares.

- `compare_replay_with_oracle.js:37`: the comparison asks for `manifest.count`, which
  local runs write and Sepolia runs do not (theirs has `gateCount`), so a Sepolia run that was
  replayed with success is never compared, against README.md:195-201.

## 6. Plan

1. Proofs: `AcceptedRecordMultiplies` for other thresholds, of the records whose shares are
   in order.
2. The decryption typestate as a module of its own, if it gains a hazard that its
   users' modules do not already cover.

## 7. Not modelled

Curve arithmetic, hash functions and byte encodings (assumed injective or sound where
they matter), the zero-knowledge proofs' internals, the pairing, JSON wording, timing and
memory sampling, CI and fixture generation. TLC and the proofs say nothing about secrecy in
the cryptographic sense.

- Ballot generation: the Merkle tree, Poseidon and the Groth16 prover are mathematics; the
  model keeps what they give, fresh ballots with different nullifiers for one poll, and
  the files that hold them.
- The native process bridge: a request and its answer are one step of the script that
  waits for it; the requests for single gates and batches are used by no pipeline.
- The typestate's evidence objects: gate and release check an authorization's session and
  ciphertext, which is all that their modules need of it.
- Resolution of paths: `run_sepolia_pipeline.js` resolves its directories against the working
  directory, the comparison against the repository root. A directory of the model is
  what the path means in the end.
- `broadcast_board.js:274` exports the staged submissions of open phases, and
  `gate.rs:989` takes the vectors of a level in pairs and would drop an odd one. The first
  promises nothing about readers of an export; no script reaches the second, which only
  ever run with 8, 64 or 1024 ballots (`run_local_scale.js:82`).
