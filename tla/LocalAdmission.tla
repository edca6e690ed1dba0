--------------------------- MODULE LocalAdmission ---------------------------
(***************************************************************************)
(* The admission of a local run (backend/js_protocol/src/                  *)
(* local_admission.js): a list of proofs takes the place of the poll, of   *)
(* its events and of the sealed board.  The texts of the public signals    *)
(* are those that snarkjs writes, so that equal numbers are equal texts.   *)
(***************************************************************************)
EXTENDS SealedBoard

\* (Faulty: the set of seen nullifiers stays empty.)
NullifiersDiffer_Unseen(proofs) == TRUE
NullifiersDiffer(proofs) ==
  \A i, j \in DOMAIN proofs :
    proofs[i].signals.nullifier = proofs[j].signals.nullifier => i = j

\* admitLocalProofBoard: the board, or an error.
AdmittedLocally(proofs, count) ==
  /\ Len(proofs) = count
  /\ \A i \in DOMAIN proofs :
       /\ proofs[i].index = i - 1
       /\ VerifyProof(proofs[i].signals)
       /\ proofs[i].signals.context
       /\ ValidAcceptedCiphertext(proofs[i].signals.ciphertext)
  /\ NullifiersDiffer(proofs)

LocalBoard(proofs) ==
  [ballots |-> [i \in DOMAIN proofs |->
                  [position |-> i - 1, nullifier |-> proofs[i].signals.nullifier,
                   ciphertext |-> proofs[i].signals.ciphertext]]]

-----------------------------------------------------------------------------
\* The proofs of the ballots that poll p has accepted, in their order, and one
\* more.
ProofsOf(p) ==
  [i \in DOMAIN log[p] |->
     [index |-> i - 1,
      signals |-> [nullifier |-> log[p][i].nullifier, ciphertext |-> log[p][i].ciphertext,
                   context |-> TRUE, proven |-> TRUE]]]
WithProof(p, s) == Append(ProofsOf(p), [index |-> Len(log[p]), signals |-> s])

\* "It uses the unchanged Groth16 relation, public signals, registry/nullifier
\* checks, and accepted ciphertext encoding" (local_admission.js:3): at every
\* point of a poll, the local profile admits the ballots so far and one more
\* exactly if the contract would take that one next; and the tally gets the same
\* inputs from both.
LocalAdmissionAgrees ==
  \A p \in Deployments :
    /\ (poll[p].phase = "Open" /\ BeforeDeadline(p)) =>
         \A s \in Signals :
           Acceptable(p, s) <=> AdmittedLocally(WithProof(p, s), Len(log[p]) + 1)
    /\ poll[p].phase \in {"Sealed", "Claimed"} =>
         BackendInputs(LocalBoard(ProofsOf(p))) = BackendInputs(ChainSnapshot(p))
=============================================================================
