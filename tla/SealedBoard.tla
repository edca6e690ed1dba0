---------------------------- MODULE SealedBoard -----------------------------
(***************************************************************************)
(* From a sealed poll to the inputs of the tally: the snapshot the         *)
(* pipeline takes of the contract's events (run_sepolia_pipeline.js), its  *)
(* conversion to a sealed board (implementation/arbitrum/board_binding/lib *)
(* /sealed_board.js) and the admission of that board by the backend        *)
(* (backend/js_protocol/src/accepted_board.js).  These are functions of    *)
(* what the chain shows; none of them keeps state.  Ciphertexts are one    *)
(* word as in StrongPoll; JSON and the board's own hash are left out.      *)
(***************************************************************************)
EXTENDS StrongPoll

\* canonicalField: decimal text of a number below the field modulus.
CanonicalField(w) == w < FieldOrder

\* The snapshot of poll p that the pipeline writes once the poll has sealed.
ChainSnapshot(p) ==
  [contract |-> p, setupHash |-> poll[p].config.setupHash,
   ballotSetCommitment |-> poll[p].ballotSetCommitment,
   ballots |-> [i \in DOMAIN log[p] |->
                  [position |-> log[p][i].ballotIndex, nullifier |-> log[p][i].nullifier,
                   ciphertext |-> log[p][i].ciphertext]]]

\* fromChainSnapshot ends in validateSealedBoard: a board, or an error.
ValidSealedBoard(board) ==
  /\ board.ballots # <<>>
  /\ \A i \in DOMAIN board.ballots :
       /\ board.ballots[i].position = i - 1
       /\ CanonicalField(board.ballots[i].nullifier)
       /\ CanonicalField(board.ballots[i].ciphertext)
       /\ \A j \in DOMAIN board.ballots :
            board.ballots[i].nullifier = board.ballots[j].nullifier => i = j

\* validateAcceptedCiphertext: CT.R is a point other than the identity.
ValidAcceptedCiphertext(w) == w # IdentityWord

\* admitSealedBoard, given the hash of the public setup the backend verified.
Admissible(board, setupHash) ==
  /\ ValidSealedBoard(board)
  /\ board.setupHash = setupHash
  /\ \A i \in DOMAIN board.ballots : ValidAcceptedCiphertext(board.ballots[i].ciphertext)

\* The inputs of the tally: one ciphertext vector per ballot, in board order.
BackendInputs(board) == [i \in DOMAIN board.ballots |-> board.ballots[i].ciphertext]

-----------------------------------------------------------------------------
\* Every poll that sealed on chain is admitted off chain: the contract accepts
\* no set of ballots that the board validation, the point checks or the backend
\* would refuse, which would leave the poll sealed and for ever without outcome.
\* The admitted inputs are the ballots the commitment was made of, in order.
SealedPollIsAdmitted ==
  \A p \in Deployments :
    poll[p].phase \in {"Sealed", "Claimed"} =>
      LET board == ChainSnapshot(p)
          leaves == board.ballotSetCommitment.accumulator.leaves
      IN /\ Admissible(board, poll[p].config.setupHash)
         /\ BackendInputs(board) = [i \in DOMAIN leaves |-> leaves[i].ciphertext]
         /\ Len(BackendInputs(board)) = N
=============================================================================
