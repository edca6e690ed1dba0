--------------------------- MODULE Rerandomization ---------------------------
(* What gate and final release share: all trustees add encryptions of zero  *)
(* to a ciphertext (js_protocol/src/rerandomization.js), and decrypt only   *)
(* what was authorized in that form (validation_state.js).  A hash is the   *)
(* value hashed; a proof binds what its challenge was computed from.        *)
EXTENDS ThresholdElGamal, SequencesExt

Rerandomized(c, zeros) == FoldLeft(AddCiphertexts, c, zeros)

(* The record of a rerandomization whose vector is on the board.            *)
RerandomizationRecord(session, input, zeros) ==
  [session |-> session, input |-> input,
   vector |-> [t \in DOMAIN zeros |->
                [session |-> session, input |-> input,
                 contribution |-> zeros[t]]],
   output |-> Rerandomized(input, zeros)]

(* verifyRerandomizationRecord; `sessions` are those the caller accepts.    *)
RerandomizationVerifies(r, input, sessions) ==
  /\ r.session \in sessions
  /\ r.input = input
  /\ Len(r.vector) = Trustees
  /\ \A t \in TrusteeIds :
       /\ r.vector[t].session = r.session
       /\ r.vector[t].input = r.input
       /\ EncryptsZero(r.vector[t].contribution)
  /\ r.output = FoldLeft(LAMBDA c, e : AddCiphertexts(c, e.contribution), r.input, r.vector)

(* A share names the session and the ciphertext it was authorized for.      *)
Authorization(session, c) == [session |-> session, ciphertext |-> c]

AuthorizedShare(t, authorization, w) ==
  [trustee |-> t, authorization |-> authorization, w |-> w]

ShareProofValid(share, c) == share.w = PartialDecryption(share.trustee, c)
=============================================================================
