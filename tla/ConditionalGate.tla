--------------------------- MODULE ConditionalGate ---------------------------
(* runConditionalGate of js_protocol/src/conditional_gate.js, with          *)
(* rerandomization.js and the decryption states of validation_state.js.     *)
(* The trustees mask (X, 2Y - 1) one after the other with a common sign,    *)
(* rerandomize both, and decrypt the masked selector, which is +1 or -1;    *)
(* the sign tells whether the masked X is to be added or subtracted.        *)
(* A message is posted on the broadcast board and read back sealed before   *)
(* the next step: it is a component of the vectors below.                   *)
EXTENDS Rerandomization

CONSTANTS
  XPlaintexts, YPlaintexts,   \* what the two inputs may encrypt
  MaskNonces,                 \* the scalars randomScalar() may draw for masks,
  Nonces                      \* and for the inputs and the rerandomizations

ASSUME GateAssumption ==
  /\ XPlaintexts \subseteq Field
  /\ YPlaintexts \subseteq Field
  /\ MaskNonces \subseteq Field /\ Nonces \subseteq Field

VARIABLES
  inputX, inputY,
  masks,        \* masking vector: the ciphertexts next to X and Y, per trustee
  xZeros,       \* contributions to the rerandomization of X, per trustee
  yZeros,       \* the same for Y
  partials,     \* partial decryptions of the rerandomized Y, per trustee
  outcome,      \* "running", "failed" or "opened"
  openedSign, output,
  signs         \* history: the secret sign of each masking step

inputs == <<inputX, inputY>>
result == <<outcome, openedSign, output>>
vars == <<inputX, inputY, masks, xZeros, yZeros, partials, outcome,
          openedSign, output, signs>>

Signs == {1, -1}

-----------------------------------------------------------------------------
(* The chain, from the vectors on the board.                                *)

(* (Faulty: the sign is drawn, and not applied.)                            *)
SignedRerandomize_Unsigned(c, sign, r) == AddCiphertexts(c, EncZero(r))
SignedRerandomize(c, sign, r) ==
  AddCiphertexts(ScaleCiphertext(c, sign), EncZero(r))

(* (Faulty: the selector is doubled, and not centred.)                      *)
InitialSignedSelector_Uncentred(c) == ScaleCiphertext(c, 2)
InitialSignedSelector(c) ==
  AddCiphertexts(PublicValue(-1), ScaleCiphertext(c, 2))

(* What the t-th trustee masks: the inputs or its predecessor's output.     *)
Previous(ms, t) ==
  IF t = 1 THEN [X |-> inputX, Y |-> InitialSignedSelector(inputY)]
           ELSE ms[t - 1]
Masked(ms) == Previous(ms, Trustees + 1)

(* Algorithm 10 refuses an X whose first component is the identity.         *)
MaskRefused(m) == m.X.R = 0

RerandomizedX == Rerandomized(Masked(masks).X, xZeros)
RerandomizedY == Rerandomized(Masked(masks).Y, yZeros)

(* verifiedPartials.slice(0, threshold).                                    *)
Quorum == 1..Threshold
Opened == Combine(RerandomizedY, partials, Quorum)

(* (Faulty: the masked X is added whatever the sign.)                       *)
GateOutput_Unsigned(c, sign, xr) ==
  ScaleCiphertext(AddCiphertexts(c, xr), InverseTwo)
GateOutput(c, sign, xr) ==
  ScaleCiphertext(AddCiphertexts(c, ScaleCiphertext(xr, sign)), InverseTwo)

-----------------------------------------------------------------------------
Init ==
  /\ inputX \in {EncryptScalar(x, r) : x \in XPlaintexts, r \in Nonces}
  /\ inputY \in {EncryptScalar(y, r) : y \in YPlaintexts, r \in Nonces}
  /\ masks = <<>> /\ xZeros = <<>> /\ yZeros = <<>> /\ partials = <<>>
  /\ outcome = "running" /\ openedSign = 0 /\ output = PublicValue(0)
  /\ signs = <<>>

Running == outcome = "running"

Mask ==
  /\ Running /\ Len(masks) < Trustees
  /\ \E sign \in Signs, rX \in MaskNonces, rY \in MaskNonces :
       LET previous == Previous(masks, Len(masks) + 1)
       IN /\ masks' = Append(masks,
                        [X |-> SignedRerandomize(previous.X, sign, rX),
                         Y |-> SignedRerandomize(previous.Y, sign, rY)])
          /\ signs' = Append(signs, sign)
  /\ UNCHANGED <<inputs, xZeros, yZeros, partials, result>>

MasksComplete == Len(masks) = Trustees
MasksValid == \A t \in DOMAIN masks : ~MaskRefused(masks[t])

(* verifyMaskingRecords throws: only an identity makes an honest one fail.  *)
RefuseMasks ==
  /\ Running /\ MasksComplete /\ ~MasksValid
  /\ outcome' = "failed"
  /\ UNCHANGED <<inputs, masks, xZeros, yZeros, partials, openedSign, output,
                 signs>>

ContributeX ==
  /\ Running /\ MasksComplete /\ MasksValid
  /\ Len(xZeros) < Trustees
  /\ \E r \in Nonces : xZeros' = Append(xZeros, EncZero(r))
  /\ UNCHANGED <<inputs, masks, yZeros, partials, result, signs>>

ContributeY ==
  /\ Running /\ Len(xZeros) = Trustees
  /\ Len(yZeros) < Trustees
  /\ \E r \in Nonces : yZeros' = Append(yZeros, EncZero(r))
  /\ UNCHANGED <<inputs, masks, xZeros, partials, result, signs>>

(* The selector is authorized in its rerandomized form, and only then does  *)
(* a trustee emit its partial decryption.                                   *)
EmitShare ==
  /\ Running /\ Len(yZeros) = Trustees
  /\ Len(partials) < Trustees
  /\ partials' = Append(partials,
                        PartialDecryption(Len(partials) + 1, RerandomizedY))
  /\ UNCHANGED <<inputs, masks, xZeros, yZeros, result, signs>>

SharesComplete == Len(partials) = Trustees

OpenSelector ==
  /\ Running /\ SharesComplete
  /\ \E sign \in Signs :
       /\ Opened = ScalarMod(sign)
       /\ openedSign' = sign
       /\ output' = GateOutput(inputX, sign, RerandomizedX)
  /\ outcome' = "opened"
  /\ UNCHANGED <<inputs, masks, xZeros, yZeros, partials, signs>>

(* E_GATE_SELECTOR_OPENING.                                                 *)
RefuseOpening ==
  /\ Running /\ SharesComplete
  /\ \A sign \in Signs : Opened # ScalarMod(sign)
  /\ outcome' = "failed"
  /\ UNCHANGED <<inputs, masks, xZeros, yZeros, partials, openedSign, output,
                 signs>>

Next ==
  \/ Mask \/ RefuseMasks
  \/ ContributeX \/ ContributeY
  \/ EmitShare \/ OpenSelector \/ RefuseOpening

Spec == Init /\ [][Next]_vars

-----------------------------------------------------------------------------
Vectors(S) == {v \in Seq(S) : Len(v) <= Trustees}

(* Type invariant: ciphertexts are pairs of group elements, and every       *)
(* vector has at most one entry per trustee.                                *)
TypeOK ==
  /\ {inputX, inputY, output} \subseteq Ciphertexts
  /\ masks \in Vectors([X : Ciphertexts, Y : Ciphertexts])
  /\ xZeros \in Vectors(Ciphertexts)
  /\ yZeros \in Vectors(Ciphertexts)
  /\ partials \in Vectors(Field)
  /\ outcome \in {"running", "failed", "opened"}
  /\ openedSign \in Signs \cup {0}
  /\ signs \in Vectors(Signs)

(* Whichever `threshold` of the trustees' partial decryptions are combined, *)
(* the masked selector opens to the same point, its plaintext: the gate may *)
(* take the first ones of the vector, and a replay any others.              *)
QuorumsAgree ==
  SharesComplete =>
    \A quorum \in SUBSET TrusteeIds :
      Cardinality(quorum) = Threshold =>
        Combine(RerandomizedY, partials, quorum) = Plaintext(RerandomizedY)

(* The sign that the gate makes public is the selector's, times the secret  *)
(* sign of every trustee: the signs of all but one trustee tell nothing of  *)
(* the selector, since the last one's two choices give both results.        *)
OpenedIsMasked ==
  outcome = "opened" =>
    ScalarMod(openedSign) =
      ScalarMod((2 * Plaintext(inputY) - 1) * FoldLeft(LAMBDA a, b : a * b, 1, signs))

(* A gate with honest trustees fails for two reasons only: its selector is  *)
(* no bit, or a masked X happened to have the identity as first component.  *)
FailsForCause ==
  outcome = "failed" => Plaintext(inputY) \notin {0, 1} \/ ~MasksValid

(* The protocol implements a gate that multiplies once: whatever the signs, *)
(* the nonces and the quorum, the output decrypts to x * y.                 *)
Product == INSTANCE ProductGate WITH
  Modulus <- SubgroupOrder,
  x <- Plaintext(inputX),
  y <- Plaintext(inputY),
  answer <- [status |-> outcome,
             value |-> IF outcome = "opened" THEN Plaintext(output) ELSE 0]

ImplementsProductGate == Product!Spec
=============================================================================
