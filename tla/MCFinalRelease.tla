--------------------------- MODULE MCFinalRelease ---------------------------
(* An instance of the final release for TLC.                                *)
EXTENDS FinalRelease

(* s(t) = 1 + t modulo 5: two of three trustees, shares 2, 3, 4.            *)
TwoOfThree == <<1, 1>>

(* Every quorum in every order, a repeated id, too few and too many, an id  *)
(* out of range in either place.                                            *)
AllQuorums ==
  {<<t, u>> : t, u \in TrusteeIds}
  \cup {<<1>>, <<1, 2, 3>>, <<0, 1>>, <<2, 0>>, <<3, Trustees + 1>>}

(* A borrow of 0 or 1, or one that is no bit; and a Q that is not D - C_*.  *)
Tallied ==
  {[D |-> d, CStar |-> c, Q |-> AddCiphertexts(d, ScaleCiphertext(c, -1))] :
     d \in {EncryptScalar(m, 1) : m \in {0, 1, 2}},
     c \in {EncryptScalar(m, r) : m \in {0, 1}, r \in {1, 3}}}
  \cup {[D |-> EncryptScalar(1, 1), CStar |-> EncryptScalar(0, 3), Q |-> EncryptScalar(1, 2)]}
=============================================================================
