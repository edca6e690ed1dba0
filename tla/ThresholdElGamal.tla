-------------------------- MODULE ThresholdElGamal --------------------------
(* Exponent ElGamal under a key that trustees share by a polynomial:        *)
(* js_protocol/src/elgamal.js, threshold_setup.js, threshold_decryption.js. *)
(* A point is its discrete logarithm to Base8, an integer modulo the        *)
(* subgroup order; the identity is 0 and Base8 is 1.  A zero-knowledge      *)
(* proof is the relation it proves.                                         *)
EXTENDS Integers, Sequences, FiniteSets, Functions

CONSTANTS
  SubgroupOrder,      \* a prime
  Trustees,           \* number of trustees
  Coefficients        \* of the secret polynomial, the constant one first

Field == 0..(SubgroupOrder - 1)
TrusteeIds == 1..Trustees
Threshold == Len(Coefficients)

ScalarMod(n) == n % SubgroupOrder
ScalarInverse(a) == CHOOSE b \in Field : ScalarMod(a * b) = 1
InverseTwo == (SubgroupOrder + 1) \div 2

EvaluatePolynomial(x) ==
  LET after[i \in 0..Threshold] ==
        IF i = 0 THEN [result |-> 0, power |-> 1]
        ELSE [result |-> ScalarMod(after[i - 1].result + Coefficients[i] * after[i - 1].power),
              power  |-> ScalarMod(after[i - 1].power * x)]
  IN after[Threshold].result

SecretShare(t) == EvaluatePolynomial(t)
CommitteeSecret == Coefficients[1]

(* What constructSetup refuses.                                             *)
ASSUME SetupAssumption ==
  /\ SubgroupOrder \in Nat /\ SubgroupOrder > Trustees
  /\ \A a \in Field \ {0} : \E b \in Field : ScalarMod(a * b) = 1
  /\ Trustees \in Nat /\ Trustees >= 2
  /\ Coefficients \in Seq(Field)
  /\ Threshold \in 2..Trustees
  /\ Coefficients[1] # 0 /\ Coefficients[Threshold] # 0
  /\ \A t \in TrusteeIds : SecretShare(t) # 0

-----------------------------------------------------------------------------
(* Ciphertexts.                                                             *)
Ciphertexts == [R : Field, S : Field]
Cipher(r, s) == [R |-> ScalarMod(r), S |-> ScalarMod(s)]

EncryptScalar(message, r) == Cipher(r, message + CommitteeSecret * r)
EncZero(r) == EncryptScalar(0, r)
PublicValue(message) == Cipher(0, message)

AddCiphertexts(a, b) == Cipher(a.R + b.R, a.S + b.S)
ScaleCiphertext(c, k) == Cipher(k * c.R, k * c.S)

(* What a ciphertext encrypts: the reference the trustees' work is held to. *)
Plaintext(c) == ScalarMod(c.S - CommitteeSecret * c.R)
EncryptsZero(c) == Plaintext(c) = 0

-----------------------------------------------------------------------------
(* Partial decryption and its combination.                                  *)
PartialDecryption(t, c) == ScalarMod(SecretShare(t) * c.R)

ModProduct(f, S) == FoldFunctionOnSet(LAMBDA a, b : ScalarMod(a * b), 1, f, S)
ModSum(f, S) == FoldFunctionOnSet(LAMBDA a, b : ScalarMod(a + b), 0, f, S)

(* (Faulty: the numerator without its signs.)                               *)
LagrangeCoefficientAtZero_Unsigned(ids, target) ==
  LET others == ids \ {target}
      numerator == ModProduct([other \in others |-> other], others)
      denominator == ModProduct([other \in others |-> target - other], others)
  IN ScalarMod(numerator * ScalarInverse(denominator))
LagrangeCoefficientAtZero(ids, target) ==
  LET others == ids \ {target}
      numerator == ModProduct([other \in others |-> -other], others)
      denominator == ModProduct([other \in others |-> target - other], others)
  IN ScalarMod(numerator * ScalarInverse(denominator))

(* The point that the shares w of the trustees `ids` open c to.             *)
Combine(c, w, ids) ==
  ScalarMod(c.S - ModSum([t \in ids |-> LagrangeCoefficientAtZero(ids, t) * w[t]], ids))
=============================================================================
