------------------------- MODULE FinalRelease_proofs -------------------------
(***************************************************************************)
(* What every run of the final release keeps, however often and with       *)
(* whatever ids it is called (ReleaseInv): the board holds one complete    *)
(* rerandomization and at most one quorum's shares of what it ends in.     *)
(* Hence it opens the decision and nothing else, and its verifier accepts  *)
(* no record with another result.                                          *)
(***************************************************************************)
EXTENDS FinalRelease, ThresholdElGamal_proofs

-----------------------------------------------------------------------------
(* The inductive invariant.                                                 *)

StagesInOrder ==
  /\ stage \in {"tallied", "ready"} => zeros = <<>>
  /\ shares # <<>> => Len(zeros) = Trustees
  /\ stage \in {"running", "released"} =>
       /\ ValidQuorum(quorum)
       /\ Len(shares) <= Len(quorum)
       /\ \A i \in DOMAIN shares : shares[i].trustee = quorum[i]

ZerosEncryptZero == \A i \in DOMAIN zeros : EncryptsZero(zeros[i])

SharesAreAuthorized ==
  \A i \in DOMAIN shares :
    /\ shares[i].authorization = CurrentAuthorization
    /\ shares[i].w = PartialDecryption(shares[i].trustee, CurrentAuthorization.ciphertext)

ResultFollows ==
  /\ stage # "released" => resultBit = NoBit
  /\ stage = "released" =>
       /\ Len(shares) = Threshold
       /\ resultBit = Plaintext(Logical) /\ resultBit \in {0, 1}

ReleaseInv ==
  TypeOK /\ StagesInOrder /\ ZerosEncryptZero /\ SharesAreAuthorized
  /\ FailedCallsOpenNothing /\ ResultFollows

-----------------------------------------------------------------------------
(* What the actions' operands are.                                          *)

Shares ==
  [trustee : TrusteeIds, w : Field,
   authorization : [session : {Session}, ciphertext : Ciphertexts]]

LEMMA SharesTyped ==
  ASSUME TypeOK
  PROVE  /\ shares \in Seq(Shares)
         /\ \A i \in DOMAIN shares : shares[i] \in Shares /\ shares[i].trustee \in TrusteeIds
<1>1. shares \in Seq(Shares)
  BY DEF TypeOK, Shares
<1>2. \A i \in DOMAIN shares : shares[i] \in Shares
  BY <1>1
<1> QED
  BY <1>1, <1>2 DEF Shares

LEMMA ScalarsOfRelease ==
  /\ Trustees \in Nat /\ Trustees >= 2 /\ Nonces \subseteq Int
  /\ Threshold \in Nat /\ Threshold >= 2 /\ Threshold <= Trustees
<1>1. Trustees \in Nat /\ Trustees >= 2 /\ Nonces \subseteq Int
  BY SetupAssumption, ReleaseAssumption, FieldIsSmall
<1>2. Threshold \in 2..Trustees
  BY SetupAssumption
<1> HIDE DEF Threshold
<1> QED
  BY <1>1, <1>2

LEMMA LogicalTyped ==
  ASSUME comparison \in Comparisons
  PROVE  /\ comparison.Q \in Ciphertexts /\ Logical \in Ciphertexts
         /\ Plaintext(Logical) = ScalarMod(1 - Plaintext(comparison.Q))
<1> DEFINE q == comparison.Q
           a == PublicValue(1)
           b == ScaleCiphertext(q, -1)
           m == -1
           one == 1
           p == Plaintext(q)
<1>1. q \in Ciphertexts
  BY ReleaseAssumption
<1> HIDE DEF q
<1>2. m \in Int /\ one \in Int
  OBVIOUS
<1>3. /\ a \in Ciphertexts /\ b \in Ciphertexts /\ p \in Int
      /\ Cong(Plaintext(a), one) /\ Cong(Plaintext(b), m * p)
  BY <1>1, <1>2, PublicPlaintext, PlaintextOfScaled
<1>4. Logical = AddCiphertexts(a, b)
  BY DEF Logical, DecisionFromBorrow, q
<1> HIDE DEF a, b
<1> DEFINE l == AddCiphertexts(a, b)
           x == Plaintext(a)
           y == Plaintext(b)
<1>5. l \in Ciphertexts /\ Plaintext(l) \in Field /\ x \in Int /\ y \in Int /\ Cong(Plaintext(l), x + y)
  BY <1>3, AddIsCiphertext, PlaintextOfSum, PlaintextIsScalar
<1> HIDE DEF p, x, y, m, one
<1>6. m * p \in Int /\ one + m * p = 1 - p /\ 1 - p \in Int
  BY <1>3 DEF m, one
<1>7. Cong(x + y, one + m * p)
  BY <1>2, <1>3, <1>5, <1>6, CongAdd DEF x, y
<1>8. Cong(Plaintext(l), 1 - p)
  BY <1>5, <1>6, <1>7, CongTrans
<1>9. Plaintext(l) = ScalarMod(1 - p)
  BY <1>5, <1>8, FieldIsSmall DEF Cong
<1> QED
  BY <1>1, <1>4, <1>5, <1>9 DEF p, q

LEMMA AuthorizedTyped ==
  ASSUME comparison \in Comparisons, zeros \in Seq(Ciphertexts), ZerosEncryptZero
  PROVE  /\ CurrentAuthorization = [session |-> Session, ciphertext |-> Rerandomized(Logical, zeros)]
         /\ Rerandomized(Logical, zeros) \in Ciphertexts
         /\ Plaintext(Rerandomized(Logical, zeros)) = Plaintext(Logical)
<1>1. Logical \in Ciphertexts
  BY LogicalTyped
<1>2. \A t \in 1..Len(zeros) : EncryptsZero(zeros[t])
  BY DEF ZerosEncryptZero
<1>3. CurrentAuthorization = [session |-> Session, ciphertext |-> Rerandomized(Logical, zeros)]
  BY DEF CurrentAuthorization, ReleaseAuthorization, AuthorizedForm, OnBoard, RerandomizationRecord,
         Authorization
<1> QED
  BY <1>1, <1>2, <1>3, RerandomizationKeepsPlaintext

LEMMA ShareIsInt == ASSUME NEW t \in TrusteeIds PROVE t \in Int /\ SecretShare(t) \in Int
<1>1. t \in Int
  BY ScalarsOfRelease DEF TrusteeIds
<1>2. After(t) \in [Steps -> Registers] /\ EvaluatePolynomial(t) = After(t)[Threshold].result
  BY <1>1, EvaluationExists
<1>3. Threshold \in Steps
  BY CoefficientsAreScalars DEF Steps
<1> QED
  BY <1>1, <1>2, <1>3, FieldIsSmall DEF SecretShare, Registers

LEMMA PartialIsScalar ==
  ASSUME NEW c \in Ciphertexts, NEW t \in TrusteeIds PROVE PartialDecryption(t, c) \in Field
<1> DEFINE s == SecretShare(t)
           k == c.R
<1>1. s \in Int /\ k \in Int
  BY ShareIsInt, FieldIsSmall DEF Ciphertexts
<1> HIDE DEF s, k
<1>2. s * k \in Int
  BY <1>1
<1> QED
  BY <1>2, ModOfInt DEF PartialDecryption, s, k

\* Distinct ids of trustees, as many as the threshold, are a quorum of them.
LEMMA QuorumIsSet ==
  ASSUME NEW q \in Seq(Nat), ValidQuorum(q), \A i \in DOMAIN q : q[i] \in TrusteeIds
  PROVE  ToSet(q) \in TrusteeQuorums
<1> DEFINE n == Len(q)
           ids == ToSet(q)
<1>1. n \in Nat /\ DOMAIN q = 1..n /\ n = Threshold /\ IsInjective(q) /\ q \in [1..n -> Nat]
  BY DEF ValidQuorum
<1>2. ids = {q[i] : i \in 1..n}
  BY <1>1 DEF ToSet
<1> HIDE DEF ids
<1>3. q \in [1..n -> ids] /\ \A t \in ids : \E i \in 1..n : q[i] = t
  BY <1>1, <1>2
<1>4. ids \in SUBSET TrusteeIds
  BY <1>1, <1>2
<1> HIDE DEF n
<1>5. q \in Bijection(1..n, ids)
  BY <1>1, <1>3 DEF Bijection, Injection, Surjection
<1>6. IsFiniteSet(1..n) /\ Cardinality(1..n) = n
  BY <1>1, FS_Interval
<1>7. Cardinality(ids) = n
  BY <1>5, <1>6, FS_Bijection DEF ExistsBijection
<1> QED
  BY <1>1, <1>4, <1>7 DEF TrusteeQuorums, ids

\* The shares of a quorum, each its trustee's decryption of c, open it.
LEMMA QuorumOpens ==
  ASSUME NEW c \in Ciphertexts, NEW a, a.ciphertext = c,
         NEW q \in Seq(Nat), ValidQuorum(q), \A i \in DOMAIN q : q[i] \in TrusteeIds,
         NEW share, \A t \in ToSet(q) : share[t].w = PartialDecryption(t, c)
  PROVE  OpenedPoint(a, share, q) = Plaintext(c)
<1> DEFINE ids == ToSet(q)
<1>1. ids \in TrusteeQuorums
  BY QuorumIsSet
<1>2. [t \in ids |-> share[t].w] = [t \in ids |-> PartialDecryption(t, c)]
  OBVIOUS
<1>3. OpenedPoint(a, share, q) = Combine(c, [t \in ids |-> PartialDecryption(t, c)], ids)
  BY <1>2 DEF OpenedPoint
<1> QED
  BY <1>1, <1>3, QuorumsDecrypt

\* The shares on the board of a complete call are its quorum's.
LEMMA BoardHoldsQuorum ==
  ASSUME TypeOK, StagesInOrder, ZerosEncryptZero, SharesAreAuthorized,
         stage \in {"running", "released"}, Len(shares) = Len(quorum)
  PROVE  /\ quorum \in Seq(Nat) /\ ValidQuorum(quorum)
         /\ \A i \in DOMAIN quorum : quorum[i] \in TrusteeIds
         /\ DOMAIN ShareOf = ToSet(quorum)
         /\ \A t \in ToSet(quorum) :
              /\ ShareOf[t].trustee = t /\ ShareOf[t].authorization = CurrentAuthorization
              /\ ShareOf[t].w = PartialDecryption(t, CurrentAuthorization.ciphertext)
<1>1. quorum \in Seq(Nat) /\ ValidQuorum(quorum) /\ DOMAIN shares = 1..Len(shares)
      /\ DOMAIN quorum = DOMAIN shares /\ \A i \in DOMAIN quorum : shares[i].trustee = quorum[i]
  BY ReleaseAssumption DEF TypeOK, StagesInOrder
<1>2. \A i \in DOMAIN quorum : quorum[i] \in TrusteeIds
  <2>1. \A i \in DOMAIN shares : shares[i].trustee \in TrusteeIds
    BY SharesTyped DEF TypeOK
  <2> QED
    BY <1>1, <2>1
<1>3. DOMAIN ShareOf = ToSet(quorum)
  BY <1>1 DEF ShareOf, ToSet
<1>4. ASSUME NEW t \in ToSet(quorum)
      PROVE  /\ ShareOf[t].trustee = t /\ ShareOf[t].authorization = CurrentAuthorization
             /\ ShareOf[t].w = PartialDecryption(t, CurrentAuthorization.ciphertext)
  <2>1. PICK i \in DOMAIN quorum : quorum[i] = t
    BY DEF ToSet
  <2>2. shares[i] \in ToSet(shares) /\ shares[i].trustee = t
    BY <1>1, <2>1 DEF ToSet
  <2>3. ShareOf[t] = CHOOSE s \in ToSet(shares) : s.trustee = t
    <3>1. t \in {shares[j].trustee : j \in DOMAIN shares}
      BY <1>1, <2>1
    <3> QED
      BY <3>1 DEF ShareOf
  <2>4. ShareOf[t] \in ToSet(shares) /\ ShareOf[t].trustee = t
    BY <2>2, <2>3, Zenon
  <2>5. PICK j \in DOMAIN shares : ShareOf[t] = shares[j]
    BY <2>4 DEF ToSet
  <2> QED
    BY <2>4, <2>5 DEF SharesAreAuthorized
<1> QED
  BY <1>1, <1>2, <1>3, <1>4

\* They open the decision.
LEMMA BoardOpens ==
  ASSUME TypeOK, StagesInOrder, ZerosEncryptZero, SharesAreAuthorized,
         stage \in {"running", "released"}, Len(shares) = Len(quorum)
  PROVE  Opened = Plaintext(Logical)
<1> DEFINE c == Rerandomized(Logical, zeros)
<1>1. /\ CurrentAuthorization.ciphertext = c /\ c \in Ciphertexts
      /\ Plaintext(c) = Plaintext(Logical)
  <2>1. comparison \in Comparisons /\ zeros \in Seq(Ciphertexts)
    BY DEF TypeOK
  <2> QED
    BY <2>1, AuthorizedTyped
<1> HIDE DEF c
<1>2. /\ quorum \in Seq(Nat) /\ ValidQuorum(quorum)
      /\ \A i \in DOMAIN quorum : quorum[i] \in TrusteeIds
      /\ \A t \in ToSet(quorum) : ShareOf[t].w = PartialDecryption(t, c)
  BY <1>1, BoardHoldsQuorum
<1>3. Opened = Plaintext(c)
  BY <1>1, <1>2, QuorumOpens DEF Opened
<1> QED
  BY <1>1, <1>3

-----------------------------------------------------------------------------
(* Every step keeps the invariant.                                          *)

LEMMA ReleaseInit == Init => ReleaseInv
<1> SUFFICES ASSUME Init PROVE ReleaseInv
  OBVIOUS
<1>1. comparison \in Comparisons /\ stage = "tallied" /\ quorum = <<>> /\ zeros = <<>>
      /\ shares = <<>> /\ resultBit = NoBit
  BY DEF Init
<1>2. TypeOK
  <2>1. 0 <= Trustees /\ Len(<<>>) = 0
    BY ScalarsOfRelease
  <2> QED
    BY <1>1, <2>1 DEF TypeOK, Stages
<1>3. StagesInOrder /\ ZerosEncryptZero /\ SharesAreAuthorized
  BY <1>1 DEF StagesInOrder, ZerosEncryptZero, SharesAreAuthorized
<1>4. FailedCallsOpenNothing /\ ResultFollows
  BY <1>1, ScalarsOfRelease DEF FailedCallsOpenNothing, ResultFollows
<1> QED
  BY <1>2, <1>3, <1>4 DEF ReleaseInv

\* What depends on the comparison, and on the board, stays while these do.
LEMMA LogicalStays ==
  ASSUME comparison' = comparison
  PROVE  Logical' = Logical /\ Plaintext(Logical)' = Plaintext(Logical)
  BY DEF Logical, DecisionFromBorrow, Plaintext

LEMMA BoardStays ==
  ASSUME comparison' = comparison, zeros' = zeros, shares' = shares,
         ZerosEncryptZero, SharesAreAuthorized
  PROVE  CurrentAuthorization' = CurrentAuthorization /\ ZerosEncryptZero' /\ SharesAreAuthorized'
<1>1. CurrentAuthorization' = CurrentAuthorization
  BY LogicalStays DEF CurrentAuthorization, OnBoard
<1>2. ZerosEncryptZero'
  BY DEF ZerosEncryptZero, EncryptsZero, Plaintext
<1>3. SharesAreAuthorized'
  BY <1>1 DEF SharesAreAuthorized, PartialDecryption
<1> QED
  BY <1>1, <1>2, <1>3

LEMMA BuildKeeps == ReleaseInv /\ BuildDecision => ReleaseInv'
<1> SUFFICES ASSUME ReleaseInv, BuildDecision PROVE ReleaseInv'
  OBVIOUS
<1>1. /\ TypeOK /\ StagesInOrder /\ ZerosEncryptZero /\ SharesAreAuthorized
      /\ FailedCallsOpenNothing /\ ResultFollows
  BY DEF ReleaseInv
<1>2. /\ stage = "tallied" /\ stage' = "ready"
      /\ UNCHANGED <<comparison, quorum, zeros, shares, resultBit>>
  BY DEF BuildDecision
<1>3. TypeOK'
  BY <1>1, <1>2 DEF TypeOK, Stages
<1>4. StagesInOrder' /\ FailedCallsOpenNothing' /\ ResultFollows'
  BY <1>1, <1>2 DEF StagesInOrder, FailedCallsOpenNothing, ResultFollows
<1> QED
  BY <1>1, <1>2, <1>3, <1>4, BoardStays DEF ReleaseInv

LEMMA CallKeeps == ASSUME NEW q \in Quorums PROVE ReleaseInv /\ Call(q) => ReleaseInv'
<1> SUFFICES ASSUME ReleaseInv, Call(q) PROVE ReleaseInv'
  OBVIOUS
<1>1. /\ TypeOK /\ StagesInOrder /\ ZerosEncryptZero /\ SharesAreAuthorized
      /\ FailedCallsOpenNothing /\ ResultFollows
  BY DEF ReleaseInv
<1>2. /\ stage \in {"ready", "failed"} /\ ValidQuorum(q) /\ zeros = <<>>
      /\ stage' = "running" /\ quorum' = q
      /\ UNCHANGED <<comparison, zeros, shares, resultBit>>
  BY DEF Call, RerandomizationDefined
<1>3. shares = <<>>
  <2>1. Len(<<>>) = 0 /\ Trustees # 0
    BY ScalarsOfRelease
  <2> QED
    BY <1>1, <1>2, <2>1 DEF StagesInOrder
<1>4. TypeOK'
  BY <1>1, <1>2 DEF TypeOK, Stages
<1>5. StagesInOrder'
  <2>1. ValidQuorum(quorum)' /\ Len(quorum') = Threshold /\ Len(<<>>) = 0 /\ Threshold \in Nat
    BY <1>2, ScalarsOfRelease DEF ValidQuorum, IsInjective
  <2> QED
    BY <1>2, <1>3, <2>1 DEF StagesInOrder
<1>6. FailedCallsOpenNothing' /\ ResultFollows'
  BY <1>1, <1>2 DEF FailedCallsOpenNothing, ResultFollows
<1> QED
  BY <1>1, <1>2, <1>4, <1>5, <1>6, BoardStays DEF ReleaseInv

LEMMA RefuseCallKeeps == ASSUME NEW q \in Quorums PROVE ReleaseInv /\ RefuseCall(q) => ReleaseInv'
<1> SUFFICES ASSUME ReleaseInv, RefuseCall(q) PROVE ReleaseInv'
  OBVIOUS
<1>1. /\ TypeOK /\ StagesInOrder /\ ZerosEncryptZero /\ SharesAreAuthorized
      /\ FailedCallsOpenNothing /\ ResultFollows
  BY DEF ReleaseInv
<1>2. /\ stage \in {"ready", "failed"}
      /\ stage' = "failed" /\ quorum' = q
      /\ UNCHANGED <<comparison, zeros, shares, resultBit>>
  BY DEF RefuseCall
<1>3. TypeOK'
  BY <1>1, <1>2 DEF TypeOK, Stages
<1>4. StagesInOrder' /\ ResultFollows'
  BY <1>1, <1>2 DEF StagesInOrder, ResultFollows
<1>5. FailedCallsOpenNothing'
  <2>1. stage = "ready" => Len(shares) < Threshold
    <3>1. Len(<<>>) = 0 /\ Trustees # 0 /\ 0 < Threshold
      BY ScalarsOfRelease
    <3> QED
      BY <1>1, <3>1 DEF StagesInOrder
  <2>2. Plaintext(Logical)' = Plaintext(Logical)
    BY <1>2, LogicalStays
  <2> QED
    BY <1>1, <1>2, <2>1, <2>2 DEF FailedCallsOpenNothing
<1> QED
  BY <1>1, <1>2, <1>3, <1>4, <1>5, BoardStays DEF ReleaseInv

LEMMA ContributeKeeps == ReleaseInv /\ Contribute => ReleaseInv'
<1> SUFFICES ASSUME ReleaseInv, Contribute PROVE ReleaseInv'
  OBVIOUS
<1>1. /\ TypeOK /\ StagesInOrder /\ ZerosEncryptZero /\ SharesAreAuthorized
      /\ FailedCallsOpenNothing /\ ResultFollows
  BY DEF ReleaseInv
<1>2. /\ stage = "running" /\ Len(zeros) < Trustees
      /\ UNCHANGED <<comparison, stage, quorum, shares, resultBit>>
  BY DEF Contribute
<1>3. PICK r \in Nonces : zeros' = Append(zeros, EncZero(r))
  BY DEF Contribute
<1> DEFINE z == EncZero(r)
<1>4. z \in Ciphertexts /\ EncryptsZero(z)
  BY ScalarsOfRelease, EncZeroEncryptsZero
<1> HIDE DEF z
<1>5. zeros \in Seq(Ciphertexts) /\ zeros' = Append(zeros, z) /\ Trustees \in Nat
  BY <1>1, <1>3, ScalarsOfRelease DEF TypeOK, z
<1>6. zeros' \in Seq(Ciphertexts) /\ Len(zeros') <= Trustees
  BY <1>2, <1>4, <1>5
<1>7. shares = <<>>
  BY <1>1, <1>2, <1>5 DEF StagesInOrder
<1>8. TypeOK'
  BY <1>1, <1>2, <1>6 DEF TypeOK
<1>9. StagesInOrder'
  <2>1. ValidQuorum(quorum)' /\ Len(quorum) = Threshold /\ Len(<<>>) = 0 /\ Threshold \in Nat
    BY <1>1, <1>2, ScalarsOfRelease DEF ValidQuorum, IsInjective, StagesInOrder
  <2> QED
    BY <1>2, <1>7, <2>1 DEF StagesInOrder
<1>10. ZerosEncryptZero'
  <2>1. ASSUME NEW i \in DOMAIN zeros' PROVE EncryptsZero(zeros'[i])
    <3>1. CASE i \in DOMAIN zeros
      BY <1>1, <1>5, <3>1 DEF ZerosEncryptZero
    <3>2. CASE i \notin DOMAIN zeros
      BY <1>4, <1>5, <3>2
    <3> QED
      BY <3>1, <3>2
  <2> QED
    BY <2>1 DEF ZerosEncryptZero, EncryptsZero, Plaintext
<1>11. SharesAreAuthorized'
  BY <1>2, <1>7 DEF SharesAreAuthorized
<1>12. FailedCallsOpenNothing' /\ ResultFollows'
  BY <1>1, <1>2 DEF FailedCallsOpenNothing, ResultFollows
<1> QED
  BY <1>8, <1>9, <1>10, <1>11, <1>12 DEF ReleaseInv

LEMMA EmitShareKeeps == ReleaseInv /\ EmitShare => ReleaseInv'
<1> SUFFICES ASSUME ReleaseInv, EmitShare PROVE ReleaseInv'
  OBVIOUS
<1>1. /\ TypeOK /\ StagesInOrder /\ ZerosEncryptZero /\ SharesAreAuthorized
      /\ FailedCallsOpenNothing /\ ResultFollows
  BY DEF ReleaseInv
<1> DEFINE t == NextTrustee
           c == CurrentAuthorization.ciphertext
           share == AuthorizedShare(t, CurrentAuthorization, PartialDecryption(t, c))
<1>2. /\ stage = "running" /\ Len(zeros) = Trustees /\ Len(shares) < Len(quorum) /\ t \in TrusteeIds
      /\ shares' = Append(shares, share)
      /\ UNCHANGED <<comparison, stage, quorum, zeros, resultBit>>
  BY DEF EmitShare, Sharing
<1>3. c \in Ciphertexts /\ CurrentAuthorization \in [session : {Session}, ciphertext : Ciphertexts]
  <2>1. comparison \in Comparisons /\ zeros \in Seq(Ciphertexts)
    BY <1>1 DEF TypeOK
  <2> QED
    BY <1>1, <2>1, AuthorizedTyped
<1>4. /\ share \in Shares /\ share.trustee = t /\ share.authorization = CurrentAuthorization
      /\ share.w = PartialDecryption(share.trustee, c)
  BY <1>2, <1>3, PartialIsScalar DEF AuthorizedShare, Shares
<1>5. t = quorum[Len(shares) + 1]
  BY DEF NextTrustee
<1> HIDE DEF share, t
<1>6. /\ shares \in Seq(Shares) /\ shares' \in Seq(Shares) /\ Len(shares') = Len(shares) + 1
      /\ shares'[Len(shares) + 1] = share /\ \A i \in DOMAIN shares : shares'[i] = shares[i]
      /\ DOMAIN shares' = DOMAIN shares \cup {Len(shares) + 1} /\ Len(shares) \in Nat
  BY <1>1, <1>2, <1>4, SharesTyped
<1>7. Len(quorum) = Threshold /\ ValidQuorum(quorum) /\ ValidQuorum(quorum)'
      /\ Threshold \in Nat /\ Threshold <= Trustees /\ Trustees \in Nat
  BY <1>1, <1>2, ScalarsOfRelease DEF StagesInOrder, ValidQuorum, IsInjective
<1>8. TypeOK'
  <2>1. Len(shares') <= Trustees
    BY <1>2, <1>6, <1>7
  <2> QED
    BY <1>1, <1>2, <1>6, <2>1 DEF TypeOK, Shares
<1>9. StagesInOrder'
  <2>1. \A i \in DOMAIN shares' : shares'[i].trustee = quorum[i]
    BY <1>1, <1>2, <1>4, <1>5, <1>6 DEF StagesInOrder
  <2>2. Len(shares') <= Len(quorum)
    BY <1>2, <1>6, <1>7
  <2> QED
    BY <1>2, <1>7, <2>1, <2>2 DEF StagesInOrder
<1>10. CurrentAuthorization' = CurrentAuthorization /\ ZerosEncryptZero'
  BY <1>1, <1>2, LogicalStays DEF CurrentAuthorization, OnBoard, ZerosEncryptZero, EncryptsZero, Plaintext
<1>11. SharesAreAuthorized'
  <2>1. \A i \in DOMAIN shares' :
          /\ shares'[i].authorization = CurrentAuthorization
          /\ shares'[i].w = PartialDecryption(shares'[i].trustee, CurrentAuthorization.ciphertext)
    BY <1>1, <1>4, <1>6 DEF SharesAreAuthorized
  <2> QED
    BY <1>10, <2>1 DEF SharesAreAuthorized, PartialDecryption
<1>12. FailedCallsOpenNothing' /\ ResultFollows'
  BY <1>1, <1>2, <1>6, <1>7 DEF FailedCallsOpenNothing, ResultFollows
<1> QED
  BY <1>8, <1>9, <1>10, <1>11, <1>12 DEF ReleaseInv

LEMMA RefuseTrusteeKeeps == ReleaseInv /\ RefuseTrustee => ReleaseInv'
<1> SUFFICES ASSUME ReleaseInv, RefuseTrustee PROVE ReleaseInv'
  OBVIOUS
<1>1. /\ TypeOK /\ StagesInOrder /\ ZerosEncryptZero /\ SharesAreAuthorized
      /\ FailedCallsOpenNothing /\ ResultFollows
  BY DEF ReleaseInv
<1>2. /\ stage = "running" /\ stage' = "failed" /\ Len(shares) < Len(quorum)
      /\ UNCHANGED <<comparison, quorum, zeros, shares, resultBit>>
  BY DEF RefuseTrustee, Sharing
<1>3. TypeOK'
  BY <1>1, <1>2 DEF TypeOK, Stages
<1>4. StagesInOrder' /\ ResultFollows'
  BY <1>1, <1>2 DEF StagesInOrder, ResultFollows
<1>5. FailedCallsOpenNothing'
  <2>1. Len(quorum) = Threshold
    BY <1>1, <1>2 DEF StagesInOrder, ValidQuorum
  <2> QED
    BY <1>1, <1>2, <2>1 DEF FailedCallsOpenNothing
<1> QED
  BY <1>1, <1>2, <1>3, <1>4, <1>5, BoardStays DEF ReleaseInv

LEMMA ReleaseKeeps == ReleaseInv /\ Release => ReleaseInv'
<1> SUFFICES ASSUME ReleaseInv, Release PROVE ReleaseInv'
  OBVIOUS
<1>1. /\ TypeOK /\ StagesInOrder /\ ZerosEncryptZero /\ SharesAreAuthorized
      /\ FailedCallsOpenNothing /\ ResultFollows
  BY DEF ReleaseInv
<1>2. /\ stage = "running" /\ stage' = "released" /\ Len(shares) = Len(quorum)
      /\ Opened \in {0, 1} /\ resultBit' = Opened
      /\ UNCHANGED <<comparison, quorum, zeros, shares>>
  BY DEF Release, Sharing
<1>3. TypeOK'
  BY <1>1, <1>2 DEF TypeOK, Stages
<1>4. StagesInOrder'
  <2>1. ValidQuorum(quorum)' <=> ValidQuorum(quorum)
    BY <1>2 DEF ValidQuorum, IsInjective
  <2> QED
    BY <1>1, <1>2, <2>1 DEF StagesInOrder
<1>5. Opened = Plaintext(Logical) /\ Plaintext(Logical)' = Plaintext(Logical)
  BY <1>1, <1>2, BoardOpens, LogicalStays
<1>6. ResultFollows'
  <2>1. Len(quorum) = Threshold
    BY <1>1, <1>2 DEF StagesInOrder, ValidQuorum
  <2> QED
    BY <1>2, <1>5, <2>1 DEF ResultFollows
<1>7. FailedCallsOpenNothing'
  BY <1>1, <1>2 DEF FailedCallsOpenNothing
<1> QED
  BY <1>1, <1>2, <1>3, <1>4, <1>6, <1>7, BoardStays DEF ReleaseInv

LEMMA RefuseResultKeeps == ReleaseInv /\ RefuseResult => ReleaseInv'
<1> SUFFICES ASSUME ReleaseInv, RefuseResult PROVE ReleaseInv'
  OBVIOUS
<1>1. /\ TypeOK /\ StagesInOrder /\ ZerosEncryptZero /\ SharesAreAuthorized
      /\ FailedCallsOpenNothing /\ ResultFollows
  BY DEF ReleaseInv
<1>2. /\ stage = "running" /\ stage' = "failed" /\ Len(shares) = Len(quorum)
      /\ Opened \notin {0, 1}
      /\ UNCHANGED <<comparison, quorum, zeros, shares, resultBit>>
  BY DEF RefuseResult, Sharing
<1>3. TypeOK'
  BY <1>1, <1>2 DEF TypeOK, Stages
<1>4. StagesInOrder' /\ ResultFollows'
  BY <1>1, <1>2 DEF StagesInOrder, ResultFollows
<1>5. Opened = Plaintext(Logical) /\ Plaintext(Logical)' = Plaintext(Logical)
  BY <1>1, <1>2, BoardOpens, LogicalStays
<1>6. FailedCallsOpenNothing'
  BY <1>1, <1>2, <1>5 DEF FailedCallsOpenNothing
<1> QED
  BY <1>1, <1>2, <1>3, <1>4, <1>6, BoardStays DEF ReleaseInv

(* The inductive invariant of the release: whatever the quorums it is       *)
(* called with, and in whatever order calls fail (final_release.js).        *)
THEOREM ReleaseInvariant == Spec => []ReleaseInv
<1>1. ReleaseInv /\ [Next]_vars => ReleaseInv'
  <2> SUFFICES ASSUME ReleaseInv, [Next]_vars PROVE ReleaseInv'
    OBVIOUS
  <2>1. ASSUME NEW q \in Quorums, Call(q) \/ RefuseCall(q) PROVE ReleaseInv'
    BY <2>1, CallKeeps, RefuseCallKeeps
  <2>2. CASE UNCHANGED vars
    <3>1. /\ TypeOK /\ StagesInOrder /\ ZerosEncryptZero /\ SharesAreAuthorized
          /\ FailedCallsOpenNothing /\ ResultFollows
      BY DEF ReleaseInv
    <3>2. UNCHANGED <<comparison, stage, quorum, zeros, shares, resultBit>>
      BY <2>2 DEF vars
    <3>3. ZerosEncryptZero' /\ SharesAreAuthorized' /\ Plaintext(Logical)' = Plaintext(Logical)
      BY <3>1, <3>2, BoardStays, LogicalStays
    <3>4. TypeOK' /\ FailedCallsOpenNothing' /\ ResultFollows'
      BY <3>1, <3>2, <3>3 DEF TypeOK, FailedCallsOpenNothing, ResultFollows
    <3>5. StagesInOrder'
      <4>1. ValidQuorum(quorum)' <=> ValidQuorum(quorum)
        BY <3>2 DEF ValidQuorum, IsInjective
      <4> QED
        BY <3>1, <3>2, <4>1 DEF StagesInOrder
    <3> QED
      BY <3>3, <3>4, <3>5 DEF ReleaseInv
  <2> QED
    BY <2>1, <2>2, BuildKeeps, ContributeKeeps, EmitShareKeeps, RefuseTrusteeKeeps, ReleaseKeeps,
       RefuseResultKeeps DEF Next
<1> QED
  BY <1>1, ReleaseInit, PTL DEF Spec

(* However often the release is called, its board holds no more shares than *)
(* one quorum's, and fewer when calls failed on a decision that is a bit    *)
(* (appendPhase, E_TRUSTEE_ID).                                             *)
THEOREM FailedCallsAreSafe == Spec => []FailedCallsOpenNothing
  BY ReleaseInvariant, PTL DEF ReleaseInv

-----------------------------------------------------------------------------
(* What the shares decrypt, and what is opened.                             *)

LEMMA RerandomizationAddsAll ==
  ASSUME NEW c \in Ciphertexts, NEW v \in Seq(Ciphertexts)
  PROVE  LET w == [t \in 1..Len(v) |-> v[t].R]
         IN  /\ ModSum(w, 1..Len(v)) \in Int
             /\ Rerandomized(c, v).R \in Int /\ c.R \in Int
             /\ Cong(Rerandomized(c, v).R, c.R + ModSum(w, 1..Len(v)))
<1> DEFINE n == Len(v)
           w == [t \in 1..n |-> v[t].R]
           sum(k) == ModSum(w, 1..k)
<1>1. n \in Nat /\ \A t \in 1..n : v[t] \in Ciphertexts
  OBVIOUS
<1>2. PICK g \in [0..n -> Ciphertexts] :
         /\ g[0] = c
         /\ \A k \in 1..n : g[k] = AddCiphertexts(g[k - 1], v[k])
         /\ Rerandomized(c, v) = g[n]
  BY RerandomizationTurns
<1> HIDE DEF n
<1>3. ASSUME NEW d \in Ciphertexts PROVE d.R \in Int
  BY FieldIsSmall DEF Ciphertexts
<1>4. w \in [1..n -> Int] /\ \A t \in 1..n : w[t] = v[t].R
  BY <1>1, <1>3
<1> HIDE DEF w
<1>5. ASSUME NEW k \in 0..n
      PROVE  1..k \in SUBSET (1..n) /\ IsFiniteSet(1..k) /\ sum(k) \in Int
  <2>1. 1..k \in SUBSET (1..n)
    BY <1>1
  <2>2. IsFiniteSet(1..k)
    BY FS_Interval
  <2> QED
    BY <1>4, <2>1, <2>2, SumIsInt
<1> DEFINE T == {k \in Nat : k <= n => Cong(g[k].R, c.R + sum(k))}
<1>6. 0 \in T
  <2>1. sum(0) = 0
    <3>1. 1..0 = {} /\ {} \in SUBSET (1..n) /\ IsFiniteSet({})
      BY FS_EmptySet
    <3>2. ModSum(w, {}) = 0
      BY <1>4, <3>1, SumSplits
    <3> QED
      BY <3>1, <3>2
  <2> HIDE DEF sum
  <2>2. c.R \in Int /\ c.R + 0 = c.R
    BY <1>3
  <2> QED
    BY <1>2, <2>1, <2>2, CongRefl
<1>7. ASSUME NEW k \in Nat, k \in T PROVE k + 1 \in T
  <2> SUFFICES ASSUME k + 1 <= n PROVE Cong(g[k + 1].R, c.R + sum(k + 1))
    OBVIOUS
  <2>1. k \in 0..n /\ k + 1 \in 0..n /\ k + 1 \in 1..n /\ (k + 1) - 1 = k
        /\ (1..(k + 1)) \ {k + 1} = 1..k /\ k + 1 \in 1..(k + 1)
    BY <1>1
  <2> DEFINE a == g[k].R
             z == v[k + 1].R
             r == c.R
             s == sum(k)
             u == sum(k + 1)
  <2>2. /\ a \in Int /\ z \in Int /\ r \in Int /\ s \in Int /\ u \in Int
        /\ w[k + 1] = z /\ Cong(a, r + s)
    <3>1. g[k] \in Ciphertexts /\ v[k + 1] \in Ciphertexts
      BY <1>1, <1>2, <2>1
    <3>2. a \in Int /\ z \in Int /\ r \in Int
      BY <1>3, <3>1
    <3>3. s \in Int /\ u \in Int
      BY <1>5, <2>1
    <3>4. w[k + 1] = z
      BY <1>4, <2>1
    <3>5. Cong(a, r + s)
      BY <1>7, <2>1
    <3> QED
      BY <3>2, <3>3, <3>4, <3>5
  <2>3. Cong(u, z + s)
    <3> DEFINE S == 1..(k + 1)
    <3>1. S \in SUBSET (1..n) /\ IsFiniteSet(S) /\ k + 1 \in S /\ S \ {k + 1} = 1..k
      BY <1>5, <2>1
    <3> HIDE DEF S
    <3>2. Cong(ModSum(w, S), w[k + 1] + ModSum(w, S \ {k + 1}))
      BY <1>4, <3>1, SumTakes
    <3> QED
      BY <2>2, <3>1, <3>2 DEF S
  <2>4. g[k + 1].R = ScalarMod(a + z)
    <3>1. g[k + 1] = AddCiphertexts(g[k], v[k + 1])
      BY <1>2, <2>1
    <3> QED
      BY <3>1 DEF AddCiphertexts, Cipher
  <2> HIDE DEF a, z, r, s, u
  <2>5. a + z \in Int /\ (r + s) + z = r + (z + s) /\ r + s \in Int /\ z + s \in Int
    BY <2>2
  <2>6. Cong(ScalarMod(a + z), a + z) /\ Cong(a + z, (r + s) + z)
    BY <2>2, <2>5, CongMod, CongRefl, CongAdd
  <2>7. Cong(z + s, u)
    BY <2>3, CongSym
  <2>8. Cong(r + (z + s), r + u)
    BY <2>2, <2>5, <2>7, CongRefl, CongAdd
  <2>9. Cong(ScalarMod(a + z), r + u)
    BY <2>5, <2>6, <2>8, CongTrans
  <2> QED
    BY <2>4, <2>9 DEF r, u
<1>8. Nat \subseteq T
  <2> HIDE DEF T
  <2> QED
    BY <1>6, <1>7, Induction
<1>9. n \in 0..n /\ Cong(g[n].R, c.R + sum(n))
  BY <1>1, <1>8
<1>10. g[n].R \in Int /\ c.R \in Int /\ sum(n) \in Int
  BY <1>2, <1>3, <1>5, <1>9
<1> QED
  BY <1>2, <1>9, <1>10 DEF n, w

LEMMA SharesDecryptTheWhole == ReleaseInv => OpensOnlyRerandomized
<1> SUFFICES ASSUME ReleaseInv, NEW i \in DOMAIN shares
             PROVE  /\ Len(zeros) = Trustees
                    /\ shares[i].w = ScalarMod(SecretShare(shares[i].trustee)
                         * (Logical.R + ModSum([t \in TrusteeIds |-> zeros[t].R], TrusteeIds)))
  BY DEF OpensOnlyRerandomized
<1>1. /\ TypeOK /\ StagesInOrder /\ ZerosEncryptZero /\ SharesAreAuthorized
      /\ comparison \in Comparisons /\ zeros \in Seq(Ciphertexts)
  BY DEF ReleaseInv, TypeOK
<1>2. Len(zeros) = Trustees
  <2>1. shares # <<>>
    OBVIOUS
  <2> QED
    BY <1>1, <2>1 DEF StagesInOrder
<1> DEFINE c == Rerandomized(Logical, zeros)
           w == [t \in TrusteeIds |-> zeros[t].R]
           u == shares[i].trustee
           s == SecretShare(u)
           a == c.R
           b == Logical.R + ModSum(w, TrusteeIds)
<1>3. shares[i].w = ScalarMod(s * a) /\ u \in TrusteeIds
  <2>1. CurrentAuthorization.ciphertext = c
    BY <1>1, AuthorizedTyped
  <2>2. u \in TrusteeIds
    BY <1>1, SharesTyped
  <2> QED
    BY <1>1, <2>1, <2>2 DEF SharesAreAuthorized, PartialDecryption
<1>4. Logical \in Ciphertexts
  BY <1>1, LogicalTyped
<1>5. a \in Int /\ b \in Int /\ Cong(a, b)
  <2>1. LET f == [t \in 1..Len(zeros) |-> zeros[t].R]
        IN  /\ ModSum(f, 1..Len(zeros)) \in Int
            /\ c.R \in Int /\ Logical.R \in Int
            /\ Cong(c.R, Logical.R + ModSum(f, 1..Len(zeros)))
    BY <1>1, <1>4, RerandomizationAddsAll
  <2>2. 1..Len(zeros) = TrusteeIds
    BY <1>2 DEF TrusteeIds
  <2>3. ModSum(w, TrusteeIds) \in Int /\ c.R \in Int /\ Logical.R \in Int
        /\ Cong(c.R, Logical.R + ModSum(w, TrusteeIds))
    BY <2>1, <2>2
  <2> QED
    BY <2>3
<1>6. s \in Int
  BY <1>3, ShareIsInt
<1> HIDE DEF s, a, b
<1>7. ScalarMod(s * a) = ScalarMod(s * b)
  <2>1. Cong(s, s)
    BY <1>6, CongRefl
  <2>2. Cong(s * a, s * b)
    BY ONLY <1>5, <1>6, <2>1, CongTimes
  <2> QED
    BY ONLY <2>2 DEF Cong
<1> QED
  BY <1>2, <1>3, <1>7 DEF s, b

(* Only the decision with every trustee's randomness in it is ever opened:  *)
(* never the borrow, never a partly rerandomized ciphertext                 *)
(* (finalReleaseAuthorization of final_release.js).                         *)
THEOREM OnlyRerandomizedIsOpened == Spec => []OpensOnlyRerandomized
  BY ReleaseInvariant, SharesDecryptTheWhole, PTL

(* The release implements one that opens the decision, once, and nothing    *)
(* else: whatever the quorum and however many calls failed before.          *)
THEOREM ReleaseOpensDecision == Spec => ImplementsDecisionRelease
<1>1. ReleaseInv /\ Init => Decision!Init
  <2> SUFFICES ASSUME ReleaseInv, Init PROVE Decision!Init
    OBVIOUS
  <2>1. comparison \in Comparisons
    BY DEF Init
  <2>2. Plaintext(Logical) = ScalarMod(1 - Plaintext(comparison.Q)) /\ Logical \in Ciphertexts
    BY <2>1, LogicalTyped
  <2>3. ScalarMod(1 - Plaintext(comparison.Q)) \in Field
    BY <2>2, PlaintextIsScalar
  <2> QED
    BY <2>3 DEF Decision!Init, Decision!Nothing, Init, NoBit, Field
<1>2. ReleaseInv /\ [Next]_vars => [Decision!Open]_(Decision!vars)
  <2> SUFFICES ASSUME ReleaseInv, [Next]_vars PROVE [Decision!Open]_(Decision!vars)
    OBVIOUS
  <2> DEFINE d == ScalarMod(1 - Plaintext(comparison.Q))
  <2>1. comparison' = comparison /\ d' = d
    <3>1. comparison' = comparison
      BY DEF Next, vars, BuildDecision, Call, RefuseCall, Contribute, EmitShare, RefuseTrustee,
             Release, RefuseResult
    <3> QED
      BY <3>1 DEF Plaintext
  <2>2. CASE resultBit' = resultBit
    BY <2>1, <2>2 DEF Decision!vars
  <2>3. CASE Release
    <3>1. /\ TypeOK /\ StagesInOrder /\ ZerosEncryptZero /\ SharesAreAuthorized
          /\ ResultFollows /\ comparison \in Comparisons
      BY DEF ReleaseInv, TypeOK
    <3>2. stage = "running" /\ Len(shares) = Len(quorum) /\ Opened \in {0, 1} /\ resultBit' = Opened
      BY <2>3 DEF Release, Sharing
    <3>3. Opened = d
      BY <3>1, <3>2, BoardOpens, LogicalTyped
    <3>4. resultBit = NoBit
      BY <3>1, <3>2 DEF ResultFollows
    <3> QED
      BY <2>1, <3>2, <3>3, <3>4 DEF Decision!Open, Decision!Nothing, NoBit
  <2>4. CASE resultBit' # resultBit /\ ~Release
    BY <2>4 DEF Next, vars, BuildDecision, Call, RefuseCall, Contribute, EmitShare, RefuseTrustee,
                RefuseResult
  <2> QED
    BY <2>2, <2>3, <2>4
<1> QED
  BY <1>1, <1>2, ReleaseInit, ReleaseInvariant, PTL
  DEF Spec, ImplementsDecisionRelease, Decision!Spec

-----------------------------------------------------------------------------
(* The verifier.                                                            *)

\* A record's parts are ciphertexts, ids and a vector of contributions.
HasForm(r) ==
  /\ r.logical \in Ciphertexts
  /\ r.shareTrusteeIds \in Seq(Nat)
  /\ \E S : /\ r.rerandomization.vector \in Seq(S)
            /\ \A e \in S : e.contribution \in Ciphertexts

(* A final-release record that verifies carries the plaintext of its logical*)
(* ciphertext, whatever else its maker put into it (verifyFinalRelease).    *)
THEOREM VerifiedIsRight ==
  ASSUME NEW r, HasForm(r), Verify(r)
  PROVE  r.resultBit = Plaintext(r.logical)
<1> DEFINE a == ReleaseAuthorization(r.session, r.rerandomization)
           q == r.shareTrusteeIds
           c == r.rerandomization.output
<1>1. /\ RerandomizationVerifies(r.rerandomization, r.logical, {r.rerandomization.session})
      /\ ValidQuorum(q) /\ q \in Seq(Nat) /\ r.logical \in Ciphertexts
      /\ \A t \in ToSet(q) : ShareVerifies(r, t, a)
      /\ r.resultBit = OpenedPoint(a, r.boardShares, q)
  BY DEF Verify, RecordedQuorumValid, HasForm
<1>2. c \in Ciphertexts /\ Plaintext(c) = Plaintext(r.logical)
  <2>1. PICK S : /\ r.rerandomization.vector \in Seq(S)
                 /\ \A e \in S : e.contribution \in Ciphertexts
    BY DEF HasForm
  <2> DEFINE rr == r.rerandomization
             sessions == {rr.session}
             input == r.logical
  <2>2. input \in Ciphertexts /\ rr.vector \in Seq(S) /\ RerandomizationVerifies(rr, input, sessions)
    BY <1>1, <2>1
  <2> HIDE DEF rr, sessions, input
  <2>3. rr.output \in Ciphertexts /\ Plaintext(rr.output) = Plaintext(input)
    BY <2>1, <2>2, RerandomizationIsRight
  <2> QED
    BY <2>3 DEF rr, input
<1>3. a.ciphertext = c
  BY DEF ReleaseAuthorization, AuthorizedForm, Authorization
<1>4. \A t \in ToSet(q) : t \in TrusteeIds /\ r.boardShares[t].w = PartialDecryption(t, c)
  BY <1>1, <1>3 DEF ShareVerifies, ShareProofValid
<1>5. \A i \in DOMAIN q : q[i] \in TrusteeIds
  BY <1>4 DEF ToSet
<1> DEFINE share == r.boardShares
<1> HIDE DEF a, q, c, share
<1>6. OpenedPoint(a, share, q) = Plaintext(c)
  <2>1. \A t \in ToSet(q) : share[t].w = PartialDecryption(t, c)
    BY <1>4 DEF share
  <2> QED
    BY <1>1, <1>2, <1>3, <1>5, <2>1, QuorumOpens
<1> QED
  BY <1>1, <1>2, <1>6 DEF share

\* The vector that a rerandomization puts on the board.
LEMMA VectorTyped ==
  ASSUME NEW session, NEW input, NEW cs \in Seq(Ciphertexts)
  PROVE  LET v == RerandomizationRecord(session, input, cs).vector
         IN  \E S : v \in Seq(S) /\ \A e \in S : e.contribution \in Ciphertexts
<1> DEFINE v == [t \in DOMAIN cs |->
                   [session |-> session, input |-> input, contribution |-> cs[t]]]
           S == [session : {session}, input : {input}, contribution : Ciphertexts]
<1>1. DOMAIN cs = 1..Len(cs) /\ Len(cs) \in Nat /\ \A t \in 1..Len(cs) : cs[t] \in Ciphertexts
  OBVIOUS
<1>2. v \in Seq(S)
  BY <1>1
<1>3. RerandomizationRecord(session, input, cs).vector = v
  BY DEF RerandomizationRecord
<1>4. \A e \in S : e.contribution \in Ciphertexts
  OBVIOUS
<1> HIDE DEF v, S
<1> QED
  BY <1>2, <1>3, <1>4

LEMMA RecordVerifies ==
  ASSUME ReleaseInv, stage = "released"
  PROVE  Verify(Record)
<1>1. /\ TypeOK /\ StagesInOrder /\ ZerosEncryptZero /\ SharesAreAuthorized /\ ResultFollows
      /\ comparison \in Comparisons /\ zeros \in Seq(Ciphertexts)
  BY DEF ReleaseInv, TypeOK
<1>2. /\ Len(shares) = Threshold /\ Len(quorum) = Threshold
      /\ resultBit = Plaintext(Logical) /\ resultBit \in {0, 1}
  BY <1>1 DEF ResultFollows, StagesInOrder, ValidQuorum
<1>3. Len(zeros) = Trustees
  <2>1. shares # <<>>
    BY <1>2, ScalarsOfRelease
  <2> QED
    BY <1>1, <2>1 DEF StagesInOrder
<1> DEFINE q == quorum
           share == ShareOf
           a == CurrentAuthorization
           v == OnBoard.vector
<1>4. /\ q \in Seq(Nat) /\ ValidQuorum(q) /\ (\A i \in DOMAIN q : q[i] \in TrusteeIds)
      /\ DOMAIN share = ToSet(q)
      /\ \A t \in ToSet(q) : /\ share[t].trustee = t /\ share[t].authorization = a
                             /\ share[t].w = PartialDecryption(t, a.ciphertext)
  BY <1>1, <1>2, BoardHoldsQuorum
<1>5. /\ Record.session = Session /\ Record.boardSession = Session /\ Record.logical = Logical
      /\ Record.rerandomization = OnBoard /\ Record.prefix = v /\ Record.shareTrusteeIds = q
      /\ Record.boardShares = share /\ Record.resultBit = resultBit
  BY DEF Record, RecordFrom, OnBoard
<1>6. ReleaseAuthorization(Session, OnBoard) = a
  BY DEF CurrentAuthorization
<1>7. resultBit = OpenedPoint(a, share, q)
  BY <1>1, <1>2, BoardOpens DEF Opened
<1>8. RerandomizationVerifies(OnBoard, Logical, {OnBoard.session})
  <2>1. /\ OnBoard.session = Session /\ OnBoard.input = Logical
        /\ v = [t \in DOMAIN zeros |-> [session |-> Session, input |-> Logical, contribution |-> zeros[t]]]
        /\ OnBoard.output = Rerandomized(Logical, zeros)
    BY DEF OnBoard, RerandomizationRecord
  <2> HIDE DEF v
  <2>2. DOMAIN zeros = 1..Trustees /\ Trustees \in Nat /\ DOMAIN v = 1..Trustees
    BY <1>1, <1>3, <2>1, ScalarsOfRelease
  <2>3. Len(v) = Trustees
    <3> DEFINE S == [session : {Session}, input : {Logical}, contribution : Ciphertexts]
    <3>1. v \in Seq(S)
      BY <1>1, <2>1, <2>2
    <3> HIDE DEF S
    <3> QED
      BY <2>2, <3>1
  <2>4. \A t \in TrusteeIds : v[t].session = Session /\ v[t].input = Logical
                               /\ v[t].contribution = zeros[t] /\ EncryptsZero(v[t].contribution)
    BY <1>1, <2>1, <2>2 DEF ZerosEncryptZero, TrusteeIds
  <2>5. OnBoard.output = FoldLeft(LAMBDA c, e : AddCiphertexts(c, e.contribution), Logical, v)
    <3>1. [t \in 1..Trustees |-> v[t].contribution] = zeros
      BY <1>1, <2>2, <2>4 DEF TrusteeIds
    <3>2. FoldLeft(LAMBDA c, e : AddCiphertexts(c, e.contribution), Logical, v)
            = Rerandomized(Logical, [t \in 1..Trustees |-> v[t].contribution])
      BY <2>2, VectorRerandomizes
    <3> QED
      BY <2>1, <3>1, <3>2
  <2> QED
    BY <2>1, <2>3, <2>4, <2>5 DEF RerandomizationVerifies, v
<1>9. Cardinality(DOMAIN share) = Len(q)
  <2>1. ToSet(q) \in TrusteeQuorums
    BY <1>4, QuorumIsSet
  <2> QED
    BY <1>2, <1>4, <2>1 DEF TrusteeQuorums
<1> HIDE DEF q, share, a, v
<1>10. \A t \in ToSet(q) : ShareVerifies(Record, t, a)
  <2>1. \A t \in ToSet(q) : t \in TrusteeIds
    BY <1>4 DEF ToSet
  <2> QED
    BY <1>4, <1>5, <2>1 DEF ShareVerifies, ShareProofValid
<1> QED
  BY <1>2, <1>4, <1>5, <1>6, <1>7, <1>8, <1>9, <1>10
  DEF Verify, PrefixVerifies, RecordedQuorumValid, v

\* A record of the verifier's fields.
HasFields(r) ==
  /\ {"logical", "shareTrusteeIds", "rerandomization", "boardShares", "resultBit"} \subseteq DOMAIN r
  /\ {"vector", "output"} \subseteq DOMAIN r.rerandomization

LEMMA RecordFromHasForm ==
  ASSUME NEW logical \in Ciphertexts, NEW cs \in Seq(Ciphertexts), NEW ids \in Seq(Nat), NEW share
  PROVE  LET r == RecordFrom(logical, cs, ids, share) IN HasForm(r) /\ HasFields(r)
<1> DEFINE rr == RerandomizationRecord(Session, logical, cs)
           r == RecordFrom(logical, cs, ids, share)
<1>1. \E S : rr.vector \in Seq(S) /\ \A e \in S : e.contribution \in Ciphertexts
  BY VectorTyped
<1>2. {"vector", "output"} \subseteq DOMAIN rr
  BY DEF RerandomizationRecord
<1>3. /\ r.logical = logical /\ r.shareTrusteeIds = ids /\ r.rerandomization = rr
      /\ {"logical", "shareTrusteeIds", "rerandomization", "boardShares", "resultBit"} \subseteq DOMAIN r
  BY DEF RecordFrom
<1> HIDE DEF r, rr
<1>4. HasForm(r)
  BY <1>1, <1>3 DEF HasForm
<1>5. HasFields(r)
  BY <1>2, <1>3 DEF HasFields
<1> QED
  BY <1>4, <1>5 DEF r

LEMMA FormWithoutBit ==
  ASSUME NEW r, HasForm(r), HasFields(r), NEW bit
  PROVE  HasForm([r EXCEPT !.resultBit = bit])
<1> DEFINE s == [r EXCEPT !.resultBit = bit]
<1>1. /\ s.logical = r.logical /\ s.shareTrusteeIds = r.shareTrusteeIds
      /\ s.rerandomization = r.rerandomization
  BY DEF HasFields
<1> HIDE DEF s
<1>2. HasForm(s)
  BY <1>1 DEF HasForm
<1> QED
  BY <1>2 DEF s

LEMMA PartsTyped ==
  ASSUME ReleaseInv
  PROVE  /\ comparison \in Comparisons /\ zeros \in Seq(Ciphertexts) /\ quorum \in Seq(Nat)
         /\ Quorums \subseteq Seq(Nat)
<1>1. comparison \in Comparisons /\ zeros \in Seq(Ciphertexts) /\ quorum \in Quorums \cup {<<>>}
  BY DEF ReleaseInv, TypeOK
<1>2. Quorums \subseteq Seq(Nat) /\ <<>> \in Seq(Nat)
  BY ReleaseAssumption
<1> QED
  BY <1>1, <1>2

LEMMA AlteredPartHasForm ==
  ASSUME ReleaseInv, stage = "released", NEW r \in AlteredPart(Record)
  PROVE  HasForm(r) /\ HasFields(r)
<1>1. /\ comparison \in Comparisons /\ zeros \in Seq(Ciphertexts) /\ quorum \in Seq(Nat)
      /\ Quorums \subseteq Seq(Nat)
  BY PartsTyped
<1>2. Logical \in Ciphertexts
  BY <1>1, LogicalTyped
<1>3. HasForm(Record) /\ HasFields(Record) /\ Record.shareTrusteeIds = quorum
  <2>1. HasForm(Record) /\ HasFields(Record)
    BY <1>1, <1>2, RecordFromHasForm DEF Record
  <2> QED
    BY <2>1 DEF Record, RecordFrom
<1> DEFINE o == Record
           rr == o.rerandomization
<1> HIDE DEF o
<1>4. HasForm(o) /\ HasFields(o) /\ o.shareTrusteeIds = quorum
  BY <1>3 DEF o
<1>5. CASE \E q \in Quorums : r = [o EXCEPT !.shareTrusteeIds = q]
  <2>1. PICK q \in Quorums : r = [o EXCEPT !.shareTrusteeIds = q]
    BY <1>5
  <2>2. /\ r.logical = o.logical /\ r.rerandomization = rr /\ r.shareTrusteeIds = q
        /\ DOMAIN r = DOMAIN o
    BY <1>4, <2>1 DEF HasFields
  <2> QED
    BY <1>1, <1>4, <2>2 DEF HasForm, HasFields
<1>6. CASE \E c \in Ciphertexts : r = [o EXCEPT !.logical = c]
  <2>1. PICK c \in Ciphertexts : r = [o EXCEPT !.logical = c]
    BY <1>6
  <2>2. /\ r.logical = c /\ r.rerandomization = rr /\ r.shareTrusteeIds = o.shareTrusteeIds
        /\ DOMAIN r = DOMAIN o
    BY <1>4, <2>1 DEF HasFields
  <2> QED
    BY <1>4, <2>2 DEF HasForm, HasFields
<1>7. CASE \E c \in Ciphertexts : r = [o EXCEPT !.rerandomization.output = c]
  <2>1. PICK c \in Ciphertexts : r = [o EXCEPT !.rerandomization.output = c]
    BY <1>7
  <2>2. /\ r.logical = o.logical /\ r.rerandomization = [rr EXCEPT !.output = c]
        /\ r.shareTrusteeIds = o.shareTrusteeIds /\ DOMAIN r = DOMAIN o
    BY <1>4, <2>1 DEF HasFields
  <2>3. r.rerandomization.vector = rr.vector /\ DOMAIN r.rerandomization = DOMAIN rr
    BY <1>4, <2>2 DEF HasFields
  <2> QED
    BY <1>4, <2>2, <2>3 DEF HasForm, HasFields
<1>8. CASE \E t \in DOMAIN o.boardShares, w \in Field : r = [o EXCEPT !.boardShares[t].w = w]
  <2>1. PICK t \in DOMAIN o.boardShares, w \in Field : r = [o EXCEPT !.boardShares[t].w = w]
    BY <1>8
  <2>2. /\ r.logical = o.logical /\ r.rerandomization = rr
        /\ r.shareTrusteeIds = o.shareTrusteeIds /\ DOMAIN r = DOMAIN o
    BY <1>4, <2>1 DEF HasFields
  <2> QED
    BY <1>4, <2>2 DEF HasForm, HasFields
<1>9. CASE \E t \in TrusteeIds, c \in Ciphertexts :
             r = PostedRecord(Logical, [zeros EXCEPT ![t] = c], o.shareTrusteeIds)
  <2>1. PICK t \in TrusteeIds, c \in Ciphertexts :
               r = PostedRecord(Logical, [zeros EXCEPT ![t] = c], o.shareTrusteeIds)
    BY <1>9
  <2>2. [zeros EXCEPT ![t] = c] \in Seq(Ciphertexts)
    <3> DEFINE n == Len(zeros)
    <3>1. n \in Nat /\ zeros \in [1..n -> Ciphertexts]
      BY <1>1
    <3> HIDE DEF n
    <3>2. [zeros EXCEPT ![t] = c] \in [1..n -> Ciphertexts]
      BY <3>1
    <3> QED
      BY <3>1, <3>2, FunctionIsSequence
  <2> QED
    BY <1>1, <1>2, <1>4, <2>1, <2>2, RecordFromHasForm DEF PostedRecord
<1>10. CASE \E c \in Ciphertexts, q \in Quorums : r = PostedRecord(c, zeros, q)
  BY <1>1, <1>10, RecordFromHasForm DEF PostedRecord
<1> DEFINE P1 == {[o EXCEPT !.shareTrusteeIds = q] : q \in Quorums}
           P2 == {[o EXCEPT !.logical = c] : c \in Ciphertexts}
           P3 == {[o EXCEPT !.rerandomization.output = c] : c \in Ciphertexts}
           P4 == {[o EXCEPT !.boardShares[t].w = w] : t \in DOMAIN o.boardShares, w \in Field}
           P5 == {PostedRecord(Logical, [zeros EXCEPT ![t] = c], o.shareTrusteeIds) :
                    t \in TrusteeIds, c \in Ciphertexts}
           P6 == {PostedRecord(c, zeros, q) : c \in Ciphertexts, q \in Quorums}
<1>11. r \in P1 \cup P2 \cup P3 \cup P4 \cup P5 \cup P6
  <2>1. r \in AlteredPart(o)
    BY DEF o
  <2>2. AlteredPart(o) = P1 \cup P2 \cup P3 \cup P4 \cup P5 \cup P6
    BY DEF AlteredPart
  <2> HIDE DEF P1, P2, P3, P4, P5, P6
  <2> QED
    BY <2>1, <2>2
<1>12. CASE r \in P1
  BY <1>5, <1>12
<1>13. CASE r \in P2
  BY <1>6, <1>13
<1>14. CASE r \in P3
  BY <1>7, <1>14
<1>15. CASE r \in P4
  BY <1>8, <1>15
<1>16. CASE r \in P5
  BY <1>9, <1>16
<1>17. CASE r \in P6
  BY <1>10, <1>17
<1> HIDE DEF P1, P2, P3, P4, P5, P6
<1> QED
  BY <1>11, <1>12, <1>13, <1>14, <1>15, <1>16, <1>17

LEMMA AlteredHasForm ==
  ASSUME ReleaseInv, stage = "released", NEW r \in Altered(Record)
  PROVE  HasForm(r)
<1>1. HasForm(Record) /\ HasFields(Record)
  <2>1. zeros \in Seq(Ciphertexts) /\ quorum \in Seq(Nat) /\ Logical \in Ciphertexts
    BY PartsTyped, LogicalTyped
  <2> QED
    BY <2>1, RecordFromHasForm DEF Record
<1> DEFINE o == Record
<1> HIDE DEF o
<1>2. CASE \E bit \in {0, 1, 2} : r = [o EXCEPT !.resultBit = bit]
  BY <1>1, <1>2, FormWithoutBit DEF o
<1>3. CASE \E u \in DOMAIN o.boardShares :
             r = [o EXCEPT !.boardShares = [t \in DOMAIN @ \ {u} |-> @[t]]]
  <2>1. PICK x : r = [o EXCEPT !.boardShares = x]
    BY <1>3
  <2>2. HasForm(o) /\ HasFields(o)
    BY <1>1 DEF o
  <2>3. r.logical = o.logical /\ r.rerandomization = o.rerandomization
        /\ r.shareTrusteeIds = o.shareTrusteeIds
    BY <2>1, <2>2 DEF HasFields
  <2> QED
    BY <2>2, <2>3 DEF HasForm
<1>4. CASE \E s \in AlteredPart(o), bit \in {0, 1} : r = [s EXCEPT !.resultBit = bit]
  BY <1>4, AlteredPartHasForm, FormWithoutBit DEF o
<1> DEFINE P1 == {[o EXCEPT !.resultBit = bit] : bit \in {0, 1, 2}}
           P2 == {[o EXCEPT !.boardShares = [t \in DOMAIN @ \ {u} |-> @[t]]] :
                    u \in DOMAIN o.boardShares}
           P3 == {[s EXCEPT !.resultBit = bit] : s \in AlteredPart(o), bit \in {0, 1}}
<1>5. r \in P1 \cup P2 \cup P3
  <2>1. r \in Altered(o)
    BY DEF o
  <2>2. Altered(o) = P1 \cup P2 \cup P3
    BY DEF Altered
  <2> HIDE DEF P1, P2, P3
  <2> QED
    BY <2>1, <2>2
<1>6. CASE r \in P1
  BY <1>2, <1>6
<1>7. CASE r \in P2
  BY <1>3, <1>7
<1>8. CASE r \in P3
  BY <1>4, <1>8
<1> HIDE DEF P1, P2, P3
<1> QED
  BY <1>5, <1>6, <1>7, <1>8

(* The verifier accepts the record of every release, and of the records     *)
(* that differ from one, whoever made them, it accepts none with another    *)
(* result than the bit its logical ciphertext encrypts (verifyFinalRelease).*)
THEOREM VerifierDecides == Spec => []VerifierIsExact
<1>1. ReleaseInv => VerifierIsExact
  BY RecordVerifies, AlteredHasForm, VerifiedIsRight DEF VerifierIsExact
<1> QED
  BY <1>1, ReleaseInvariant, PTL
=============================================================================
