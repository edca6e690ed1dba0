----------------------------- MODULE StrongPoll -----------------------------
(***************************************************************************)
(* The on-chain poll (implementation/arbitrum/contracts/StrongN8Poll.sol)  *)
(* and the public-signal checks of its Groth16 verifier (verifier.sol).    *)
(*                                                                         *)
(* A poll takes one encrypted ballot per nullifier until a deadline, seals *)
(* itself at the N-th, and then takes one outcome claim of its publisher.  *)
(* A poll that does not fill up can be abandoned after the deadline.       *)
(* Several deployments share a clock, a voter registry and a poll id, so a *)
(* proof made for one of them is valid for the others too.                 *)
(*                                                                         *)
(* Abstractions:                                                           *)
(*  - a call that fails a require reverts and changes nothing: it is a     *)
(*    stuttering step, so the guards of an action are its requires;        *)
(*  - keccak256 is injective: a chained hash is the record it was made of; *)
(*  - the thirty-two ciphertext words are one word, that of CT.R, and the  *)
(*    identity point is one word;                                          *)
(*  - the root, poll-id and committee-key signals match or they do not;    *)
(*  - Groth16 is sound for the signals reduced modulo the field order: the *)
(*    pairing cannot tell a signal from the same signal plus that order.   *)
(***************************************************************************)
EXTENDS Integers, Sequences, FiniteSets

CONSTANTS
  Deployments,   \* contract addresses
  Accounts,      \* who sends transactions
  Configs,       \* constructor arguments callers try
  ZeroAddress,
  ZeroHash,
  Transcripts,   \* backend transcript hashes, the zero one excluded
  N,             \* ballots of a full poll
  MaxTau,
  MaxTime,       \* bound: the last block timestamp considered
  FieldOrder,    \* order of the scalar field
  WordBound,     \* uint256 words are 0..WordBound - 1
  IdentityWord,  \* the canonical word of the identity point
  Voters,        \* the members of the registry
  NullifierOf    \* a voter's nullifier in this poll, a field element

Words == 0..(WordBound - 1)
FieldElements == 0..(FieldOrder - 1)

ASSUME PollAssumption ==
  /\ N \in Nat \ {0}
  /\ MaxTau \in Nat
  /\ MaxTime \in Nat
  /\ FieldOrder \in Nat \ {0}
  /\ WordBound \in Nat
  /\ FieldOrder <= WordBound
  /\ IdentityWord \in FieldElements
  /\ ZeroHash \notin Transcripts
  /\ Configs \subseteq [verifier  : Accounts \cup {ZeroAddress},
                        publisher : Accounts \cup {ZeroAddress},
                        tau : Nat, deadline : Nat,
                        setupHash : Transcripts \cup {ZeroHash}]

\* Poseidon(identitySecret, pollId) is collision free.
ASSUME NullifierAssumption ==
  /\ NullifierOf \in [Voters -> FieldElements]
  /\ \A v, w \in Voters : NullifierOf[v] = NullifierOf[w] => v = w

\* The public signals of a transaction and whether its proof was made for them.
Signals == [nullifier : Words, ciphertext : Words, context : BOOLEAN, proven : BOOLEAN]

VARIABLES
  clock,  \* block.timestamp
  poll,   \* storage and immutables of every deployment
  log     \* the BallotAccepted events of every deployment

vars == <<clock, poll, log>>

\* The storage of an address without code.
NoConfig ==
  [verifier |-> ZeroAddress, publisher |-> ZeroAddress, tau |-> 0, deadline |-> 0,
   setupHash |-> ZeroHash]

NotDeployed ==
  [phase |-> "None", config |-> NoConfig, acceptedBallotCount |-> 0,
   accumulator |-> ZeroHash, ballotSetCommitment |-> ZeroHash,
   backendTranscriptHash |-> ZeroHash, outcomeBit |-> 0, usedNullifiers |-> {}]

Init ==
  /\ clock = 0
  /\ poll = [p \in Deployments |-> NotDeployed]
  /\ log = [p \in Deployments |-> <<>>]

-----------------------------------------------------------------------------
(* Hashes                                                                  *)

\* POLL_DOMAIN: the address and the parameters a tally depends on; deadline and
\* publisher are not in it.  (Faulty: the address is left out.)
PollDomain_NoAddress(p, c) ==
  [verifier |-> c.verifier, setupHash |-> c.setupHash, tau |-> c.tau]
PollDomain(p, c) ==
  [address |-> p, verifier |-> c.verifier, setupHash |-> c.setupHash, tau |-> c.tau]

Seed(domain) == [domain |-> domain, leaves |-> <<>>]
Leaf(domain, index, s) ==
  [domain |-> domain, ballotIndex |-> index,
   nullifier |-> s.nullifier, ciphertext |-> s.ciphertext]
\* (Faulty: every ballot starts a new chain.)
Node_Unchained(acc, leaf) == [acc EXCEPT !.leaves = <<leaf>>]
Node(acc, leaf) == [acc EXCEPT !.leaves = Append(@, leaf)]
Final(acc) == [ballots |-> N, accumulator |-> acc]

-----------------------------------------------------------------------------
(* The verifier                                                            *)

\* Every public signal is a canonical field element.  (Faulty: not looked at;
\* the nullifier only.)
CheckField_Skipped(s) == TRUE
CheckField_NullifierOnly(s) == s.nullifier < FieldOrder
CheckField(s) == s.nullifier < FieldOrder /\ s.ciphertext < FieldOrder

\* The circuit proves that the nullifier is the caster's own; it takes any
\* encryption randomness, zero included.
Relation(s) == \E v \in Voters : NullifierOf[v] = s.nullifier % FieldOrder

VerifyProof(s) == CheckField(s) /\ s.proven /\ Relation(s)

-----------------------------------------------------------------------------
(* The contract                                                            *)

Constructor(p, c) ==
  /\ poll[p].phase = "None"
  /\ c.verifier # ZeroAddress
  /\ c.publisher # ZeroAddress
  /\ c.tau <= MaxTau
  /\ c.deadline > clock
  /\ c.setupHash # ZeroHash
  /\ poll' = [poll EXCEPT ![p].phase = "Open",
                          ![p].config = c,
                          ![p].accumulator = Seed(PollDomain(p, c))]
  /\ UNCHANGED <<clock, log>>

BeforeDeadline(p) == clock < poll[p].config.deadline

\* The requires of submitBallot.  (Faulty: the deadline is not checked; the
\* identity is not refused.)
Acceptable_Late(p, s) ==
  /\ poll[p].phase = "Open"
  /\ poll[p].acceptedBallotCount < N
  /\ s.context
  /\ s.ciphertext # IdentityWord
  /\ s.nullifier \notin poll[p].usedNullifiers
  /\ VerifyProof(s)
Acceptable_Identity(p, s) ==
  /\ poll[p].phase = "Open"
  /\ BeforeDeadline(p)
  /\ poll[p].acceptedBallotCount < N
  /\ s.context
  /\ s.nullifier \notin poll[p].usedNullifiers
  /\ VerifyProof(s)
Acceptable(p, s) ==
  /\ poll[p].phase = "Open"
  /\ BeforeDeadline(p)
  /\ poll[p].acceptedBallotCount < N
  /\ s.context
  /\ s.ciphertext # IdentityWord
  /\ s.nullifier \notin poll[p].usedNullifiers
  /\ VerifyProof(s)

\* The storage after an accepted ballot; the N-th seals.  (Faulty: it does not.)
WithBallot_NeverSeals(p, s) ==
  LET domain == PollDomain(p, poll[p].config)
      leaf == Leaf(domain, poll[p].acceptedBallotCount, s)
  IN [poll[p] EXCEPT !.usedNullifiers = @ \cup {s.nullifier},
                     !.accumulator = Node(@, leaf),
                     !.acceptedBallotCount = @ + 1]
WithBallot(p, s) ==
  LET domain == PollDomain(p, poll[p].config)
      leaf == Leaf(domain, poll[p].acceptedBallotCount, s)
      next == [poll[p] EXCEPT !.usedNullifiers = @ \cup {s.nullifier},
                              !.accumulator = Node(@, leaf),
                              !.acceptedBallotCount = @ + 1]
  IN IF next.acceptedBallotCount = N
     THEN [next EXCEPT !.ballotSetCommitment = Final(next.accumulator),
                       !.phase = "Sealed"]
     ELSE next

BallotAccepted(p, s) ==
  [ballotIndex |-> poll[p].acceptedBallotCount, nullifier |-> s.nullifier,
   ciphertext |-> s.ciphertext]

SubmitBallot(p, s) ==
  /\ Acceptable(p, s)
  /\ poll' = [poll EXCEPT ![p] = WithBallot(p, s)]
  /\ log' = [log EXCEPT ![p] = Append(@, BallotAccepted(p, s))]
  /\ UNCHANGED clock

Abandon(p) ==
  /\ poll[p].phase = "Open"
  /\ ~BeforeDeadline(p)
  /\ poll[p].acceptedBallotCount < N
  /\ poll' = [poll EXCEPT ![p].phase = "Abandoned"]
  /\ UNCHANGED <<clock, log>>

PublishOutcomeClaim(p, sender, commitment, transcript, b) ==
  /\ poll[p].phase = "Sealed"
  /\ sender = poll[p].config.publisher
  /\ commitment = poll[p].ballotSetCommitment
  /\ transcript # ZeroHash
  /\ b \in {0, 1}
  /\ poll' = [poll EXCEPT ![p].backendTranscriptHash = transcript,
                          ![p].outcomeBit = b,
                          ![p].phase = "Claimed"]
  /\ UNCHANGED <<clock, log>>

\* The next block may carry a later timestamp, or the same.
Tick ==
  /\ clock < MaxTime
  /\ clock' = clock + 1
  /\ UNCHANGED <<poll, log>>

\* Any commitment visible on chain may be claimed, for any deployment.
VisibleCommitments == {poll[q].ballotSetCommitment : q \in Deployments}

Next ==
  \/ Tick
  \/ \E p \in Deployments, c \in Configs : Constructor(p, c)
  \/ \E p \in Deployments, s \in Signals : SubmitBallot(p, s)
  \/ \E p \in Deployments : Abandon(p)
  \/ \E p \in Deployments, a \in Accounts, h \in VisibleCommitments,
        t \in Transcripts \cup {ZeroHash}, b \in 0..2 :
       PublishOutcomeClaim(p, a, h, t, b)

Spec == Init /\ [][Next]_vars

\* Blocks keep coming, and somebody calls abandon(), which is open to anyone,
\* once it stays possible.  Nobody has to vote or to claim.
Fairness == WF_vars(Tick) /\ \A p \in Deployments : WF_vars(Abandon(p))

FairSpec == Spec /\ Fairness

-----------------------------------------------------------------------------
(* Properties                                                              *)

Phases == {"None", "Open", "Sealed", "Claimed", "Abandoned"}

Domains ==
  {PollDomain(p, c) : p \in Deployments, c \in Configs}

Leaves ==
  [domain : Domains, ballotIndex : Nat, nullifier : Words, ciphertext : Words]

Accumulators == [domain : Domains, leaves : Seq(Leaves)]

Commitments == [ballots : {N}, accumulator : Accumulators]

PollRecords ==
  [phase                 : Phases,
   config                : Configs \cup {NoConfig},
   acceptedBallotCount   : 0..N,
   accumulator           : Accumulators \cup {ZeroHash},
   ballotSetCommitment   : Commitments \cup {ZeroHash},
   backendTranscriptHash : Transcripts \cup {ZeroHash},
   outcomeBit            : {0, 1},
   usedNullifiers        : SUBSET Words]

Events == [ballotIndex : Nat, nullifier : Words, ciphertext : Words]

\* The shape of the storage and the logs.
TypeOK ==
  /\ clock \in 0..MaxTime
  /\ poll \in [Deployments -> PollRecords]
  /\ log \in [Deployments -> Seq(Events)]

Deployed(p) == poll[p].phase # "None"

\* No voter has two ballots in one poll: two accepted nullifiers differ as
\* field elements, which is all the circuit knows of them, although the
\* contract compares them as 256-bit words.
OneBallotPerVoter ==
  \A p \in Deployments : \A i, j \in DOMAIN log[p] :
    log[p][i].nullifier % FieldOrder = log[p][j].nullifier % FieldOrder => i = j

\* Every accepted ballot is encrypted with randomness: its CT.R is not the
\* identity point, in whatever word the caller wrote it.
BallotsAreHidden ==
  \A p \in Deployments : \A i \in DOMAIN log[p] :
    log[p][i].ciphertext % FieldOrder # IdentityWord

\* The leaves and the accumulator a reader recomputes from the events
\* (StrongN8Poll.test.js, "JS leaves and accumulators match events").
LeavesOf(domain, entries) ==
  [i \in DOMAIN entries |-> Leaf(domain, entries[i].ballotIndex, entries[i])]

AccumulatorFromLog(p) ==
  LET domain == PollDomain(p, poll[p].config)
  IN [domain |-> domain, leaves |-> LeavesOf(domain, log[p])]

\* Anyone can recompute the accumulator and the sealed commitment from the
\* events alone, and a commitment exists exactly for the polls that filled up.
CommitmentFromLog ==
  \A p \in Deployments :
    Deployed(p) =>
      /\ poll[p].accumulator = AccumulatorFromLog(p)
      /\ poll[p].ballotSetCommitment =
           IF poll[p].phase \in {"Sealed", "Claimed"}
           THEN Final(AccumulatorFromLog(p))
           ELSE ZeroHash
      /\ \A i \in DOMAIN log[p] : log[p][i].ballotIndex = i - 1
      /\ Len(log[p]) = N <=> poll[p].phase \in {"Sealed", "Claimed"}

\* A commitment belongs to one deployment, even when all of them accepted the
\* same ballots in the same order: a claim prepared for one poll is refused by
\* every other.
CommitmentsAreDistinct ==
  \A p, q \in Deployments :
    (poll[p].ballotSetCommitment = poll[q].ballotSetCommitment /\ p # q) =>
      poll[p].ballotSetCommitment = ZeroHash

TerminalPhases == {"Claimed", "Abandoned"}

\* What is decided stays: from the deadline on and from sealing on the ballots
\* are frozen, a poll is never abandoned before its deadline, and a claimed or
\* abandoned poll never changes again.
DecisionsStand ==
  [][\A p \in Deployments :
       /\ (Deployed(p) /\ ~(poll[p].phase = "Open" /\ BeforeDeadline(p))) =>
            /\ log'[p] = log[p]
            /\ poll'[p].ballotSetCommitment = poll[p].ballotSetCommitment
       /\ poll[p].phase \in TerminalPhases => poll'[p] = poll[p]
       /\ (poll[p].phase = "Open" /\ BeforeDeadline(p)) =>
            poll'[p].phase \in {"Open", "Sealed"}]_vars

\* A poll does not stay open for ever: it fills up or can be abandoned, with no
\* instant at which it accepts neither a ballot nor abandon() for good.
OpenPollCloses ==
  \A p \in Deployments :
    poll[p].phase = "Open" ~> poll[p].phase \in {"Sealed", "Claimed", "Abandoned"}

-----------------------------------------------------------------------------
(* The abstract ballot boxes these contracts implement                     *)

CasterOf(nullifier) == CHOOSE v \in Voters : NullifierOf[v] = nullifier % FieldOrder

CastOf(entries) ==
  [i \in DOMAIN entries |->
     [voter |-> CasterOf(entries[i].nullifier), ballot |-> entries[i].ciphertext]]

\* What a claim is about is read from the commitment it names.
DeclarationOf(p) ==
  IF poll[p].phase = "Claimed"
  THEN {[outcome |-> poll[p].outcomeBit,
         ballots |-> CastOf(poll[p].ballotSetCommitment.accumulator.leaves)]}
  ELSE {}

Closings == [p \in Deployments |-> poll[p].config.deadline]
CastBallots == [p \in Deployments |-> CastOf(log[p])]
Expired == {p \in Deployments : poll[p].phase = "Abandoned"}
Declarations == [p \in Deployments |-> DeclarationOf(p)]

B == INSTANCE BallotBox WITH
       Boxes    <- Deployments,
       Ballots  <- FieldElements \ {IdentityWord},
       Size     <- N,
       LastTime <- MaxTime,
       now      <- clock,
       closing  <- Closings,
       cast     <- CastBallots,
       expired  <- Expired,
       declared <- Declarations

\* The contracts implement ballot boxes that know voters instead of nullifiers
\* and no hashes: each takes one ballot of a voter before its closing time and
\* declares at most one outcome, about exactly the ballots cast.
ImplementsBallotBox == B!BSpec
=============================================================================
