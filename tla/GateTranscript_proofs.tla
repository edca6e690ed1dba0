------------------------- MODULE GateTranscript_proofs -------------------------
(***************************************************************************)
(* What every run of the conditional gate keeps: each vector on the board  *)
(* carries the secret product of the trustees' signs, contributions are    *)
(* zeros and shares are those of the rerandomized selector (GateInv); hence*)
(* every quorum opens the same sign, and the gate multiplies.  And what a  *)
(* verifier may conclude from a record alone: the proofs of the masking    *)
(* steps chain up to one sign of both inputs, and the rest is as in a run. *)
(***************************************************************************)
EXTENDS GateTranscript, ThresholdElGamal_proofs, SequenceTheorems

-----------------------------------------------------------------------------
(* The product of the trustees' signs.                                      *)

SignOf(s) == FoldLeft(LAMBDA a, b : a * b, 1, s)

LEMMA SignsMultiply == \A a, b \in Signs : a * b \in Signs /\ a \in Int /\ a * a = 1
  BY DEF Signs

LEMMA SignTurns ==
  ASSUME NEW s \in Seq(Signs)
  PROVE  \E g \in [0..Len(s) -> Signs] :
            /\ g[0] = 1
            /\ \A k \in 1..Len(s) : g[k] = g[k - 1] * s[k]
            /\ SignOf(s) = g[Len(s)]
<1> DEFINE n == Len(s)
           Equation(g) == g = [d \in SUBSET DOMAIN s |->
              IF d = {} THEN 1 ELSE LET x == Max(d) IN g[d \ {x}] * s[x]]
           chosen == CHOOSE g : Equation(g)
           step == [x \in 1..n |-> [v \in Signs |-> v * s[x]]]
           turns == [k \in 0..n |-> chosen[1..k]]
<1>1. n \in Nat /\ DOMAIN s = 1..n /\ (\A x \in 1..n : s[x] \in Signs) /\ 1 \in Signs
  BY DEF Signs
<1>2. \A x \in 1..n : step[x] \in [Signs -> Signs]
  BY <1>1, SignsMultiply
<1> HIDE DEF n
<1>3. PICK f \in [SUBSET (1..n) -> Signs] : SequenceFold(f, n, 1, step)
  <2> HIDE DEF step
  <2> QED
    BY <1>1, <1>2, SequenceFoldExists
<1>4. Equation(f)
  <2>1. ASSUME NEW d \in SUBSET (1..n), d # {}
        PROVE  step[Max(d)][f[d \ {Max(d)}]] = f[d \ {Max(d)}] * s[Max(d)]
    <3>1. Max(d) \in 1..n /\ f[d \ {Max(d)}] \in Signs
      BY <1>1, <2>1, MaxExists
    <3> QED
      BY <3>1
  <2> HIDE DEF step
  <2> QED
    BY <1>1, <1>3, <2>1 DEF SequenceFold
<1>5. Equation(chosen)
  <2> HIDE DEF Equation
  <2> QED
    BY <1>4, Zenon
<1>6. SignOf(s) = chosen[1..n]
  <2>1. SignOf(s) = chosen[DOMAIN s]
    BY Zenon DEF SignOf, FoldLeft, MapThenFoldSet
  <2> QED
    BY <1>1, <2>1
<1>7. ASSUME NEW d \in SUBSET (1..n)
      PROVE  chosen[d] = IF d = {} THEN 1 ELSE LET x == Max(d) IN chosen[d \ {x}] * s[x]
  <2> HIDE DEF chosen
  <2> QED
    BY <1>1, <1>5
<1> HIDE DEF chosen, Equation, step
<1>8. turns[0] = 1
  <2>1. 0 \in 0..n /\ 1..0 = {} /\ {} \in SUBSET (1..n)
    BY <1>1
  <2> QED
    BY <1>7, <2>1
<1>9. ASSUME NEW k \in 1..n PROVE turns[k] = turns[k - 1] * s[k]
  <2>1. k \in 0..n /\ k - 1 \in 0..n
    BY <1>1
  <2> DEFINE d == 1..k
  <2>2. d # {} /\ Max(d) = k /\ d \ {k} = 1..(k - 1) /\ d \in SUBSET (1..n)
    BY <1>1, LastOfPrefix
  <2> HIDE DEF d
  <2>3. chosen[d] = chosen[d \ {k}] * s[k]
    BY <1>7, <2>2
  <2> QED
    BY <2>1, <2>2, <2>3 DEF d
<1>10. SignOf(s) = turns[n]
  BY <1>1, <1>6
<1>11. turns = [k \in 0..n |-> turns[k]]
  OBVIOUS
<1> HIDE DEF turns
<1>12. \A k \in 0..n : turns[k] \in Signs
  <2> DEFINE T == {k \in Nat : k <= n => turns[k] \in Signs}
  <2>1. 0 \in T
    BY <1>1, <1>8
  <2>2. ASSUME NEW k \in Nat, k \in T PROVE k + 1 \in T
    <3> SUFFICES ASSUME k + 1 <= n PROVE turns[k + 1] \in Signs
      OBVIOUS
    <3>1. k + 1 \in 1..n /\ (k + 1) - 1 = k /\ turns[k] \in Signs
      BY <1>1, <2>2
    <3> QED
      BY <1>1, <1>9, <3>1, SignsMultiply
  <2>3. Nat \subseteq T
    <3> HIDE DEF T
    <3> QED
      BY <2>1, <2>2, Induction
  <2> QED
    BY <1>1, <2>3
<1>13. turns \in [0..n -> Signs]
  BY <1>11, <1>12
<1> QED
  BY <1>8, <1>9, <1>10, <1>13 DEF n

LEMMA SignOfAppend ==
  ASSUME NEW s \in Seq(Signs), NEW e \in Signs
  PROVE  /\ SignOf(<<>>) = 1 /\ SignOf(s) \in Signs
         /\ SignOf(Append(s, e)) = SignOf(s) * e
<1> DEFINE n == Len(s)
           r == Append(s, e)
<1>1. r \in Seq(Signs) /\ <<>> \in Seq(Signs) /\ Len(r) = n + 1 /\ n \in Nat /\ r[n + 1] = e
      /\ \A k \in 1..n : r[k] = s[k]
  OBVIOUS
<1> HIDE DEF r
<1>2. PICK g \in [0..n -> Signs] :
         /\ g[0] = 1
         /\ \A k \in 1..n : g[k] = g[k - 1] * s[k]
         /\ SignOf(s) = g[n]
  BY SignTurns
<1>3. PICK h \in [0..(n + 1) -> Signs] :
         /\ h[0] = 1
         /\ \A k \in 1..(n + 1) : h[k] = h[k - 1] * r[k]
         /\ SignOf(r) = h[n + 1]
  BY <1>1, SignTurns
<1>4. SignOf(<<>>) = 1
  <2>1. Len(<<>>) = 0
    OBVIOUS
  <2>2. PICK f \in [0..Len(<<>>) -> Signs] : f[0] = 1 /\ SignOf(<<>>) = f[Len(<<>>)]
    BY <1>1, SignTurns
  <2> QED
    BY <2>1, <2>2
<1> HIDE DEF n
<1> DEFINE T == {k \in Nat : k <= n => h[k] = g[k]}
<1>5. 0 \in T
  BY <1>2, <1>3
<1>6. ASSUME NEW k \in Nat, k \in T PROVE k + 1 \in T
  <2> SUFFICES ASSUME k + 1 <= n PROVE h[k + 1] = g[k + 1]
    OBVIOUS
  <2>1. k + 1 \in 1..n /\ k + 1 \in 1..(n + 1) /\ (k + 1) - 1 = k /\ h[k] = g[k]
    BY <1>1, <1>6
  <2> QED
    BY <1>1, <1>2, <1>3, <2>1
<1>7. Nat \subseteq T
  <2> HIDE DEF T
  <2> QED
    BY <1>5, <1>6, Induction
<1>8. h[n] = g[n] /\ n + 1 \in 1..(n + 1) /\ (n + 1) - 1 = n
  BY <1>1, <1>7
<1>9. SignOf(r) = SignOf(s) * e
  BY <1>1, <1>2, <1>3, <1>8
<1>10. SignOf(s) \in Signs
  BY <1>1, <1>2
<1> QED
  BY <1>4, <1>9, <1>10 DEF r

-----------------------------------------------------------------------------
(* The inductive invariant.                                                 *)

\* What the next trustee masks, or the last one has masked.
Current == Previous(masks, Len(masks) + 1)

\* The masked pair carries the product of the secret signs so far.
MasksCarrySign ==
  /\ Len(signs) = Len(masks)
  /\ Cong(Plaintext(Current.X), SignOf(signs) * Plaintext(inputX))
  /\ Cong(Plaintext(Current.Y), SignOf(signs) * (2 * Plaintext(inputY) - 1))

ContributionsAreZeros ==
  /\ \A t \in DOMAIN xZeros : EncryptsZero(xZeros[t])
  /\ \A t \in DOMAIN yZeros : EncryptsZero(yZeros[t])

PhasesInOrder ==
  /\ xZeros # <<>> => MasksComplete /\ MasksValid
  /\ yZeros # <<>> => Len(xZeros) = Trustees
  /\ partials # <<>> => Len(yZeros) = Trustees

SharesAreHonest ==
  \A t \in DOMAIN partials : partials[t] = PartialDecryption(t, RerandomizedY)

OutcomeFollows ==
  /\ outcome = "opened" =>
       /\ SharesComplete /\ openedSign \in Signs /\ Opened = ScalarMod(openedSign)
       /\ output = GateOutput(inputX, openedSign, RerandomizedX)
  /\ outcome = "failed" =>
       ~MasksValid \/ (SharesComplete /\ \A sign \in Signs : Opened # ScalarMod(sign))

GateInv ==
  TypeOK /\ MasksCarrySign /\ ContributionsAreZeros /\ PhasesInOrder
  /\ SharesAreHonest /\ OutcomeFollows

LEMMA ScalarsOfGate ==
  /\ Trustees \in Nat /\ Trustees >= 2 /\ Nonces \subseteq Int /\ MaskNonces \subseteq Int
  /\ XPlaintexts \subseteq Int /\ YPlaintexts \subseteq Int
  BY SetupAssumption, GateAssumption, FieldIsSmall

LEMMA CurrentTyped ==
  ASSUME inputX \in Ciphertexts, inputY \in Ciphertexts,
         masks \in Seq([X : Ciphertexts, Y : Ciphertexts])
  PROVE  Current \in [X : Ciphertexts, Y : Ciphertexts]
<1>1. InitialSignedSelector(inputY) \in Ciphertexts
  <2>1. PublicValue(-1) \in Ciphertexts /\ ScaleCiphertext(inputY, 2) \in Ciphertexts
    <3>1. -1 \in Int /\ 2 \in Int
      OBVIOUS
    <3> QED
      BY <3>1, PublicPlaintext, PlaintextOfScaled
  <2> QED
    BY <2>1, AddIsCiphertext DEF InitialSignedSelector
<1>2. CASE Len(masks) = 0
  BY <1>1, <1>2 DEF Current, Previous
<1>3. CASE Len(masks) # 0
  <2>1. Len(masks) + 1 # 1 /\ (Len(masks) + 1) - 1 = Len(masks) /\ Len(masks) \in 1..Len(masks)
    BY <1>3
  <2>2. Current = masks[Len(masks)]
    BY <2>1 DEF Current, Previous
  <2>3. masks[Len(masks)] \in [X : Ciphertexts, Y : Ciphertexts]
    <3> DEFINE S == [X : Ciphertexts, Y : Ciphertexts]
    <3> HIDE DEF S
    <3>1. masks \in Seq(S)
      BY DEF S
    <3>2. masks[Len(masks)] \in S
      BY <2>1, <3>1
    <3> QED
      BY <3>2 DEF S
  <2> QED
    BY <2>2, <2>3
<1> QED
  BY <1>2, <1>3

LEMMA MaskCarries ==
  ASSUME NEW c \in Ciphertexts, NEW sign \in Signs, NEW r \in Int
  PROVE  /\ SignedRerandomize(c, sign, r) \in Ciphertexts
         /\ \A s \in Signs, x \in Int :
              Cong(Plaintext(c), s * x) =>
                Cong(Plaintext(SignedRerandomize(c, sign, r)), (s * sign) * x)
<1> DEFINE a == ScaleCiphertext(c, sign)
           z == EncZero(r)
           p == Plaintext(c)
           q == Plaintext(a)
<1>1. sign \in Int
  BY SignsMultiply
<1>2. a \in Ciphertexts /\ z \in Ciphertexts /\ Plaintext(z) = 0 /\ p \in Int /\ Cong(q, sign * p)
  BY <1>1, PlaintextOfScaled, EncZeroEncryptsZero DEF EncryptsZero
<1>3. SignedRerandomize(c, sign, r) = AddCiphertexts(a, z)
  BY DEF SignedRerandomize
<1> HIDE DEF a, z
<1>4. q \in Int /\ Cong(Plaintext(AddCiphertexts(a, z)), q + 0)
  BY <1>2, PlaintextOfSum
<1> HIDE DEF p, q
<1>5. q + 0 = q
  BY <1>4
<1>6. ASSUME NEW s \in Signs, NEW x \in Int, Cong(p, s * x)
      PROVE  Cong(Plaintext(AddCiphertexts(a, z)), (s * sign) * x)
  <2> DEFINE y == s * x
  <2>1. s \in Int /\ y \in Int /\ (s * sign) * x = sign * y /\ Cong(p, y)
    <3>1. s \in Int
      BY SignsMultiply
    <3> QED
      BY <1>1, <1>6, <3>1
  <2> HIDE DEF y
  <2>2. Cong(sign * p, sign * y)
    BY <1>1, <1>2, <2>1, CongRefl, CongTimes
  <2> QED
    BY <1>2, <1>4, <1>5, <2>1, <2>2, CongTrans
<1>7. AddCiphertexts(a, z) \in Ciphertexts
  BY <1>2, AddIsCiphertext
<1> QED
  BY <1>3, <1>6, <1>7 DEF p

LEMMA SelectorCarries ==
  ASSUME NEW c \in Ciphertexts
  PROVE  Cong(Plaintext(InitialSignedSelector(c)), 2 * Plaintext(c) - 1)
<1> DEFINE a == PublicValue(-1)
           b == ScaleCiphertext(c, 2)
           x == Plaintext(a)
           y == Plaintext(b)
           p == Plaintext(c)
           m == -1
           d == 2 * p
<1>1. a \in Ciphertexts /\ b \in Ciphertexts /\ p \in Int /\ Cong(x, m) /\ Cong(y, d)
  <2>1. -1 \in Int /\ 2 \in Int
    OBVIOUS
  <2> QED
    BY <2>1, PublicPlaintext, PlaintextOfScaled
<1>2. InitialSignedSelector(c) = AddCiphertexts(a, b)
  BY DEF InitialSignedSelector
<1> HIDE DEF a, b
<1>3. x \in Int /\ y \in Int /\ Cong(Plaintext(AddCiphertexts(a, b)), x + y)
  BY <1>1, PlaintextOfSum
<1> HIDE DEF x, y, p
<1>4. m \in Int /\ d \in Int /\ m + d = 2 * p - 1
  BY <1>1
<1> HIDE DEF m, d
<1>5. Cong(x + y, m + d)
  BY <1>1, <1>3, <1>4, CongAdd
<1> QED
  BY <1>2, <1>3, <1>4, <1>5, CongTrans DEF p

LEMMA VectorAppend ==
  ASSUME NEW S, NEW v \in Vectors(S), Len(v) < Trustees, NEW e \in S
  PROVE  Append(v, e) \in Vectors(S)
<1>1. v \in Seq(S) /\ Trustees \in Nat
  BY ScalarsOfGate DEF Vectors
<1>2. Append(v, e) \in Seq(S) /\ Len(Append(v, e)) = Len(v) + 1 /\ Len(v) \in Nat
  BY <1>1
<1> QED
  BY <1>1, <1>2 DEF Vectors

LEMMA GateInit == Init => GateInv
<1> SUFFICES ASSUME Init PROVE GateInv
  OBVIOUS
<1>1. inputX \in Ciphertexts /\ inputY \in Ciphertexts
  <2>1. PICK x \in XPlaintexts, r \in Nonces : inputX = EncryptScalar(x, r)
    BY DEF Init
  <2>2. PICK y \in YPlaintexts, q \in Nonces : inputY = EncryptScalar(y, q)
    BY DEF Init
  <2>3. x \in Int /\ r \in Int /\ y \in Int /\ q \in Int
    BY ScalarsOfGate
  <2> QED
    BY <2>1, <2>2, <2>3, EncryptionDecrypts
<1>2. \A S : <<>> \in Vectors(S)
  BY ScalarsOfGate DEF Vectors
<1>3. TypeOK
  <2>1. PublicValue(0) \in Ciphertexts
    <3>1. 0 \in Int
      OBVIOUS
    <3> QED
      BY <3>1, PublicPlaintext
  <2> QED
    BY <1>1, <1>2, <2>1 DEF TypeOK, Init
<1>4. MasksCarrySign
  <2>1. /\ Len(signs) = Len(masks) /\ signs = <<>> /\ SignOf(<<>>) = 1
        /\ Current = [X |-> inputX, Y |-> InitialSignedSelector(inputY)]
    <3>1. 1 \in Signs /\ <<>> \in Seq(Signs)
      BY DEF Signs
    <3>2. SignOf(<<>>) = 1
      BY <3>1, SignOfAppend
    <3>3. masks = <<>> /\ signs = <<>> /\ Len(masks) + 1 = 1
      BY DEF Init
    <3> QED
      BY <3>2, <3>3 DEF Current, Previous
  <2> DEFINE x == Plaintext(inputX)
             y == Plaintext(inputY)
  <2>2. x \in Int /\ y \in Int /\ Cong(Plaintext(InitialSignedSelector(inputY)), 2 * y - 1)
    BY <1>1, PlaintextIsScalar, FieldIsSmall, SelectorCarries
  <2>3. 1 * x = x /\ 1 * (2 * y - 1) = 2 * y - 1
    <3> HIDE DEF x, y
    <3> QED
      BY <2>2
  <2> QED
    BY <2>1, <2>2, <2>3, CongRefl DEF MasksCarrySign
<1>5. ContributionsAreZeros /\ PhasesInOrder /\ SharesAreHonest
  BY DEF ContributionsAreZeros, PhasesInOrder, SharesAreHonest, Init
<1>6. OutcomeFollows
  BY DEF OutcomeFollows, Init
<1> QED
  BY <1>3, <1>4, <1>5, <1>6 DEF GateInv

\* The phases that a gate has not reached have no messages.
LEMMA EarlierPhase ==
  ASSUME TypeOK, PhasesInOrder
  PROVE  /\ Len(masks) < Trustees => xZeros = <<>>
         /\ Len(xZeros) < Trustees => yZeros = <<>>
         /\ Len(yZeros) < Trustees => partials = <<>>
         /\ xZeros = <<>> => yZeros = <<>>
         /\ yZeros = <<>> => partials = <<>>
<1>1. Trustees \in Nat /\ Trustees >= 2 /\ Len(<<>>) = 0
  BY ScalarsOfGate
<1> QED
  BY <1>1 DEF PhasesInOrder, MasksComplete

LEMMA MaskKeeps == GateInv /\ Mask => GateInv'
<1> SUFFICES ASSUME GateInv, Mask PROVE GateInv'
  OBVIOUS
<1>1. /\ TypeOK /\ MasksCarrySign /\ ContributionsAreZeros /\ PhasesInOrder /\ SharesAreHonest
      /\ OutcomeFollows
  BY DEF GateInv
<1>2. /\ outcome = "running" /\ Len(masks) < Trustees
      /\ UNCHANGED <<inputX, inputY, xZeros, yZeros, partials, outcome, openedSign, output>>
  BY DEF Mask, Running, inputs, result
<1>3. PICK sign \in Signs, rX \in MaskNonces, rY \in MaskNonces :
         /\ masks' = Append(masks, [X |-> SignedRerandomize(Current.X, sign, rX),
                                    Y |-> SignedRerandomize(Current.Y, sign, rY)])
         /\ signs' = Append(signs, sign)
  BY DEF Mask, Current
<1> DEFINE cX == SignedRerandomize(Current.X, sign, rX)
           cY == SignedRerandomize(Current.Y, sign, rY)
           m == [X |-> cX, Y |-> cY]
           P == [X : Ciphertexts, Y : Ciphertexts]
           x == Plaintext(inputX)
           w == 2 * Plaintext(inputY) - 1
           s == SignOf(signs)
<1>4. /\ inputX \in Ciphertexts /\ inputY \in Ciphertexts /\ masks \in Vectors(P)
      /\ signs \in Vectors(Signs) /\ signs \in Seq(Signs) /\ masks \in Seq(P)
  BY <1>1 DEF TypeOK, Vectors
<1>5. Current \in P
  BY <1>4, CurrentTyped
<1>6. x \in Int /\ w \in Int /\ s \in Signs /\ rX \in Int /\ rY \in Int
  <2>1. x \in Int /\ Plaintext(inputY) \in Int /\ rX \in Int /\ rY \in Int
    BY <1>4, PlaintextIsScalar, FieldIsSmall, ScalarsOfGate
  <2>2. s \in Signs
    BY <1>4, SignOfAppend
  <2> QED
    BY <2>1, <2>2
<1>7. SignOf(signs') = s * sign
  BY <1>3, <1>4, SignOfAppend
<1>8. cX \in Ciphertexts /\ cY \in Ciphertexts
      /\ Cong(Plaintext(cX), (s * sign) * x) /\ Cong(Plaintext(cY), (s * sign) * w)
  <2>1. Current.X \in Ciphertexts /\ Current.Y \in Ciphertexts
    BY <1>5
  <2>2. Cong(Plaintext(Current.X), s * x) /\ Cong(Plaintext(Current.Y), s * w)
    BY <1>1 DEF MasksCarrySign
  <2> HIDE DEF s, x, w
  <2> QED
    BY <1>6, <2>1, <2>2, MaskCarries
<1> HIDE DEF cX, cY
<1>9. masks' = Append(masks, m) /\ m \in P /\ m.X = cX /\ m.Y = cY
  BY <1>3, <1>8 DEF cX, cY
<1> HIDE DEF m, P
<1>10. /\ masks' \in Vectors(P) /\ signs' \in Vectors(Signs)
       /\ Len(masks') = Len(masks) + 1 /\ Len(signs') = Len(signs) + 1
       /\ masks'[Len(masks')] = m /\ Len(masks) \in Nat
  <2>1. Len(signs) < Trustees
    BY <1>1, <1>2 DEF MasksCarrySign
  <2>2. masks' \in Vectors(P) /\ signs' \in Vectors(Signs)
    BY <1>2, <1>3, <1>4, <1>9, <2>1, VectorAppend
  <2> QED
    BY <1>3, <1>4, <1>9, <2>2
<1>11. Current' = m
  <2>1. Current' = Previous(masks, Len(masks) + 1)' /\ Len(masks') + 1 # 1 /\ (Len(masks') + 1) - 1 = Len(masks')
    BY <1>10 DEF Current
  <2> QED
    BY <1>10, <2>1 DEF Previous
<1>12. xZeros = <<>> /\ yZeros = <<>> /\ partials = <<>>
  BY <1>1, <1>2, EarlierPhase
<1>13. TypeOK'
  BY <1>1, <1>2, <1>10 DEF TypeOK, P
<1>14. MasksCarrySign'
  <2>1. Len(signs') = Len(masks')
    BY <1>1, <1>10 DEF MasksCarrySign
  <2>2. Plaintext(inputX)' = x /\ (2 * Plaintext(inputY) - 1)' = w
    BY <1>2 DEF Plaintext
  <2> HIDE DEF x, w
  <2> QED
    BY <1>7, <1>8, <1>9, <1>11, <2>1, <2>2 DEF MasksCarrySign, Cong
<1>15. ContributionsAreZeros' /\ PhasesInOrder' /\ SharesAreHonest'
  BY <1>2, <1>12 DEF ContributionsAreZeros, PhasesInOrder, SharesAreHonest
<1>16. OutcomeFollows'
  BY <1>2 DEF OutcomeFollows
<1> QED
  BY <1>13, <1>14, <1>15, <1>16 DEF GateInv

LEMMA RefuseMasksKeeps == GateInv /\ RefuseMasks => GateInv'
<1> SUFFICES ASSUME GateInv, RefuseMasks PROVE GateInv'
  OBVIOUS
<1>1. /\ TypeOK /\ MasksCarrySign /\ ContributionsAreZeros /\ PhasesInOrder /\ SharesAreHonest
      /\ OutcomeFollows
  BY DEF GateInv
<1>2. /\ outcome' = "failed" /\ ~MasksValid
      /\ UNCHANGED <<inputX, inputY, masks, xZeros, yZeros, partials, openedSign, output, signs>>
  BY DEF RefuseMasks, inputs
<1>3. TypeOK'
  BY <1>1, <1>2 DEF TypeOK
<1>4. MasksCarrySign'
  BY <1>1, <1>2 DEF MasksCarrySign, Current, Previous, Plaintext, Cong
<1>5. ContributionsAreZeros' /\ PhasesInOrder'
  BY <1>1, <1>2 DEF ContributionsAreZeros, PhasesInOrder, MasksComplete, MasksValid
<1>6. SharesAreHonest'
  BY <1>1, <1>2 DEF SharesAreHonest, RerandomizedY, Masked, Previous
<1>7. OutcomeFollows'
  BY <1>2 DEF OutcomeFollows, MasksValid
<1> QED
  BY <1>3, <1>4, <1>5, <1>6, <1>7 DEF GateInv

LEMMA ContributeXKeeps == GateInv /\ ContributeX => GateInv'
<1> SUFFICES ASSUME GateInv, ContributeX PROVE GateInv'
  OBVIOUS
<1>1. /\ TypeOK /\ MasksCarrySign /\ ContributionsAreZeros /\ PhasesInOrder /\ SharesAreHonest
      /\ OutcomeFollows
  BY DEF GateInv
<1>2. /\ outcome = "running" /\ MasksComplete /\ MasksValid /\ Len(xZeros) < Trustees
      /\ UNCHANGED <<inputX, inputY, masks, yZeros, partials, outcome, openedSign, output, signs>>
  BY DEF ContributeX, Running, inputs, result
<1>3. PICK r \in Nonces : xZeros' = Append(xZeros, EncZero(r))
  BY DEF ContributeX
<1> DEFINE z == EncZero(r)
<1>4. z \in Ciphertexts /\ EncryptsZero(z)
  BY ScalarsOfGate, EncZeroEncryptsZero
<1> HIDE DEF z
<1>5. xZeros \in Vectors(Ciphertexts) /\ xZeros \in Seq(Ciphertexts) /\ xZeros' = Append(xZeros, z)
  BY <1>1, <1>3 DEF TypeOK, Vectors, z
<1>6. xZeros' \in Vectors(Ciphertexts)
  BY <1>2, <1>4, <1>5, VectorAppend
<1>7. yZeros = <<>> /\ partials = <<>>
  BY <1>1, <1>2, EarlierPhase
<1>8. TypeOK'
  BY <1>1, <1>2, <1>6 DEF TypeOK
<1>9. MasksCarrySign'
  BY <1>1, <1>2 DEF MasksCarrySign, Current, Previous, Plaintext, Cong
<1>10. ContributionsAreZeros'
  <2>1. \A t \in DOMAIN xZeros : EncryptsZero(xZeros[t])
    BY <1>1 DEF ContributionsAreZeros
  <2>2. ASSUME NEW t \in DOMAIN xZeros' PROVE EncryptsZero(xZeros'[t])
    <3>1. CASE t \in DOMAIN xZeros
      BY <1>5, <2>1, <3>1
    <3>2. CASE t \notin DOMAIN xZeros
      BY <1>4, <1>5, <3>2
    <3> QED
      BY <3>1, <3>2
  <2>3. \A t \in DOMAIN xZeros' : EncryptsZero(xZeros[t])'
    BY <2>2 DEF EncryptsZero, Plaintext
  <2> QED
    BY <1>2, <1>7, <2>3 DEF ContributionsAreZeros
<1>11. PhasesInOrder' /\ SharesAreHonest'
  BY <1>2, <1>7 DEF PhasesInOrder, SharesAreHonest, MasksComplete, MasksValid
<1>12. OutcomeFollows'
  BY <1>2 DEF OutcomeFollows
<1> QED
  BY <1>8, <1>9, <1>10, <1>11, <1>12 DEF GateInv

LEMMA ContributeYKeeps == GateInv /\ ContributeY => GateInv'
<1> SUFFICES ASSUME GateInv, ContributeY PROVE GateInv'
  OBVIOUS
<1>1. /\ TypeOK /\ MasksCarrySign /\ ContributionsAreZeros /\ PhasesInOrder /\ SharesAreHonest
      /\ OutcomeFollows
  BY DEF GateInv
<1>2. /\ outcome = "running" /\ Len(xZeros) = Trustees /\ Len(yZeros) < Trustees
      /\ UNCHANGED <<inputX, inputY, masks, xZeros, partials, outcome, openedSign, output, signs>>
  BY DEF ContributeY, Running, inputs, result
<1>3. PICK r \in Nonces : yZeros' = Append(yZeros, EncZero(r))
  BY DEF ContributeY
<1> DEFINE z == EncZero(r)
<1>4. z \in Ciphertexts /\ EncryptsZero(z)
  BY ScalarsOfGate, EncZeroEncryptsZero
<1> HIDE DEF z
<1>5. yZeros \in Vectors(Ciphertexts) /\ yZeros \in Seq(Ciphertexts) /\ yZeros' = Append(yZeros, z)
  BY <1>1, <1>3 DEF TypeOK, Vectors, z
<1>6. yZeros' \in Vectors(Ciphertexts)
  BY <1>2, <1>4, <1>5, VectorAppend
<1>7. partials = <<>>
  BY <1>1, <1>2, EarlierPhase
<1>8. TypeOK'
  BY <1>1, <1>2, <1>6 DEF TypeOK
<1>9. MasksCarrySign'
  BY <1>1, <1>2 DEF MasksCarrySign, Current, Previous, Plaintext, Cong
<1>10. ContributionsAreZeros'
  <2>1. \A t \in DOMAIN yZeros : EncryptsZero(yZeros[t])
    BY <1>1 DEF ContributionsAreZeros
  <2>2. ASSUME NEW t \in DOMAIN yZeros' PROVE EncryptsZero(yZeros'[t])
    <3>1. CASE t \in DOMAIN yZeros
      BY <1>5, <2>1, <3>1
    <3>2. CASE t \notin DOMAIN yZeros
      BY <1>4, <1>5, <3>2
    <3> QED
      BY <3>1, <3>2
  <2>3. \A t \in DOMAIN yZeros' : EncryptsZero(yZeros[t])'
    BY <2>2 DEF EncryptsZero, Plaintext
  <2>4. \A t \in DOMAIN xZeros' : EncryptsZero(xZeros[t])'
    BY <1>1, <1>2 DEF ContributionsAreZeros, EncryptsZero, Plaintext
  <2> QED
    BY <2>3, <2>4 DEF ContributionsAreZeros
<1>11. PhasesInOrder' /\ SharesAreHonest'
  BY <1>1, <1>2, <1>7 DEF PhasesInOrder, SharesAreHonest, MasksComplete, MasksValid
<1>12. OutcomeFollows'
  BY <1>2 DEF OutcomeFollows
<1> QED
  BY <1>8, <1>9, <1>10, <1>11, <1>12 DEF GateInv

\* Past the maskings, the two ciphertexts that the gate works on.
LEMMA RerandomizedTyped ==
  ASSUME TypeOK, ContributionsAreZeros, MasksComplete
  PROVE  /\ Masked(masks) = Current
         /\ Current \in [X : Ciphertexts, Y : Ciphertexts]
         /\ RerandomizedX \in Ciphertexts /\ Plaintext(RerandomizedX) = Plaintext(Current.X)
         /\ RerandomizedY \in Ciphertexts /\ Plaintext(RerandomizedY) = Plaintext(Current.Y)
<1>1. /\ inputX \in Ciphertexts /\ inputY \in Ciphertexts
      /\ masks \in Seq([X : Ciphertexts, Y : Ciphertexts])
      /\ xZeros \in Seq(Ciphertexts) /\ yZeros \in Seq(Ciphertexts)
  BY DEF TypeOK, Vectors
<1>2. Masked(masks) = Current
  BY DEF Masked, Current, MasksComplete
<1>3. Current \in [X : Ciphertexts, Y : Ciphertexts]
  BY <1>1, CurrentTyped
<1>4. Current.X \in Ciphertexts /\ Current.Y \in Ciphertexts
  BY <1>3
<1>5. /\ \A t \in 1..Len(xZeros) : EncryptsZero(xZeros[t])
      /\ \A t \in 1..Len(yZeros) : EncryptsZero(yZeros[t])
  BY <1>1 DEF ContributionsAreZeros
<1>6. RerandomizedX = Rerandomized(Current.X, xZeros) /\ RerandomizedY = Rerandomized(Current.Y, yZeros)
  BY <1>2 DEF RerandomizedX, RerandomizedY
<1>7. /\ RerandomizedX \in Ciphertexts /\ Plaintext(RerandomizedX) = Plaintext(Current.X)
      /\ RerandomizedY \in Ciphertexts /\ Plaintext(RerandomizedY) = Plaintext(Current.Y)
  BY <1>1, <1>4, <1>5, <1>6, RerandomizationKeepsPlaintext
<1> QED
  BY <1>2, <1>3, <1>7

LEMMA EmitShareKeeps == GateInv /\ EmitShare => GateInv'
<1> SUFFICES ASSUME GateInv, EmitShare PROVE GateInv'
  OBVIOUS
<1>1. /\ TypeOK /\ MasksCarrySign /\ ContributionsAreZeros /\ PhasesInOrder /\ SharesAreHonest
      /\ OutcomeFollows
  BY DEF GateInv
<1> DEFINE n == Len(partials)
           w == PartialDecryption(n + 1, RerandomizedY)
<1>2. /\ outcome = "running" /\ Len(yZeros) = Trustees /\ n < Trustees
      /\ partials' = Append(partials, w)
      /\ UNCHANGED <<inputX, inputY, masks, xZeros, yZeros, outcome, openedSign, output, signs>>
  BY DEF EmitShare, Running, inputs, result
<1>3. partials \in Vectors(Field) /\ partials \in Seq(Field) /\ n \in Nat
  BY <1>1 DEF TypeOK, Vectors
<1>4. RerandomizedY' = RerandomizedY
  BY <1>2 DEF RerandomizedY, Masked, Previous
<1>5. w \in Field
  <2>1. MasksComplete
    <3>1. yZeros # <<>>
      BY <1>2, ScalarsOfGate
    <3>2. xZeros # <<>>
      BY <1>1, <3>1, ScalarsOfGate DEF PhasesInOrder
    <3> QED
      BY <1>1, <3>2 DEF PhasesInOrder
  <2>2. RerandomizedY \in Ciphertexts /\ n + 1 \in Int
    BY <1>1, <1>3, <2>1, RerandomizedTyped
  <2> QED
    BY <2>2, ShareIsScalar
<1>6. partials' \in Vectors(Field)
  <2> HIDE DEF w
  <2> QED
    BY <1>2, <1>3, <1>5, VectorAppend
<1>7. TypeOK'
  BY <1>1, <1>2, <1>6 DEF TypeOK
<1>8. MasksCarrySign'
  BY <1>1, <1>2 DEF MasksCarrySign, Current, Previous, Plaintext, Cong
<1>9. ContributionsAreZeros'
  BY <1>1, <1>2 DEF ContributionsAreZeros
<1>10. PhasesInOrder'
  BY <1>1, <1>2 DEF PhasesInOrder, MasksComplete, MasksValid
<1>11. SharesAreHonest'
  <2>1. \A t \in DOMAIN partials : partials[t] = PartialDecryption(t, RerandomizedY)
    BY <1>1 DEF SharesAreHonest
  <2> HIDE DEF w
  <2>2. ASSUME NEW t \in DOMAIN partials' PROVE partials'[t] = PartialDecryption(t, RerandomizedY)
    <3>1. CASE t \in DOMAIN partials
      BY <1>2, <1>3, <2>1, <3>1
    <3>2. CASE t \notin DOMAIN partials
      <4>1. t = n + 1 /\ partials'[t] = w
        BY <1>2, <1>3, <3>2
      <4> QED
        BY <4>1 DEF w
    <3> QED
      BY <3>1, <3>2
  <2>3. \A t \in DOMAIN partials' : partials'[t] = PartialDecryption(t, RerandomizedY')
    BY <1>4, <2>2
  <2> QED
    BY <2>3 DEF SharesAreHonest, PartialDecryption
<1>12. OutcomeFollows'
  BY <1>2 DEF OutcomeFollows
<1> QED
  BY <1>7, <1>8, <1>9, <1>10, <1>11, <1>12 DEF GateInv

LEMMA OpeningKeeps ==
  ASSUME GateInv,
         UNCHANGED <<inputX, inputY, masks, xZeros, yZeros, partials, signs>>,
         TypeOK', OutcomeFollows'
  PROVE  GateInv'
<1>1. MasksCarrySign /\ ContributionsAreZeros /\ PhasesInOrder /\ SharesAreHonest
  BY DEF GateInv
<1>2. MasksCarrySign'
  BY <1>1 DEF MasksCarrySign, Current, Previous, Plaintext, Cong
<1>3. ContributionsAreZeros' /\ PhasesInOrder'
  BY <1>1 DEF ContributionsAreZeros, PhasesInOrder, MasksComplete, MasksValid
<1>4. SharesAreHonest'
  BY <1>1 DEF SharesAreHonest, RerandomizedY, Masked, Previous
<1> QED
  BY <1>2, <1>3, <1>4 DEF GateInv

\* All shares are there only after all contributions and valid masks.
LEMMA SharesAreLast ==
  ASSUME TypeOK, PhasesInOrder, SharesComplete
  PROVE  /\ MasksComplete /\ MasksValid
         /\ Len(xZeros) = Trustees /\ Len(yZeros) = Trustees /\ DOMAIN partials = TrusteeIds
<1>1. Trustees \in Nat /\ Trustees >= 2 /\ Len(<<>>) = 0
  BY ScalarsOfGate
<1>2. partials # <<>> /\ partials \in Seq(Field) /\ Len(partials) = Trustees
  BY <1>1 DEF SharesComplete, TypeOK, Vectors
<1>3. Len(yZeros) = Trustees
  BY <1>2 DEF PhasesInOrder
<1>4. Len(xZeros) = Trustees
  <2>1. yZeros # <<>>
    BY <1>1, <1>3
  <2> QED
    BY <2>1 DEF PhasesInOrder
<1>5. MasksComplete /\ MasksValid
  <2>1. xZeros # <<>>
    BY <1>1, <1>4
  <2> QED
    BY <2>1 DEF PhasesInOrder
<1> QED
  BY <1>2, <1>3, <1>4, <1>5 DEF TrusteeIds

LEMMA OutputTyped ==
  ASSUME GateInv, SharesComplete, NEW sign \in Signs
  PROVE  GateOutput(inputX, sign, RerandomizedX) \in Ciphertexts
<1>1. TypeOK /\ PhasesInOrder /\ ContributionsAreZeros
  BY DEF GateInv
<1>2. inputX \in Ciphertexts /\ RerandomizedX \in Ciphertexts
  BY <1>1, SharesAreLast, RerandomizedTyped DEF TypeOK
<1> DEFINE a == ScaleCiphertext(RerandomizedX, sign)
           b == AddCiphertexts(inputX, a)
<1>3. sign \in Int /\ InverseTwo \in Int
  BY SignsMultiply, TwoHasInverse
<1>4. b \in Ciphertexts
  BY <1>2, <1>3, PlaintextOfScaled, AddIsCiphertext
<1>5. GateOutput(inputX, sign, RerandomizedX) = ScaleCiphertext(b, InverseTwo)
  BY DEF GateOutput
<1> HIDE DEF b
<1> QED
  BY <1>3, <1>4, <1>5, PlaintextOfScaled

LEMMA OpenSelectorKeeps == GateInv /\ OpenSelector => GateInv'
<1> SUFFICES ASSUME GateInv, OpenSelector PROVE GateInv'
  OBVIOUS
<1>1. PICK sign \in Signs :
         /\ Opened = ScalarMod(sign) /\ openedSign' = sign
         /\ output' = GateOutput(inputX, sign, RerandomizedX)
  BY DEF OpenSelector
<1>2. /\ SharesComplete /\ outcome' = "opened"
      /\ UNCHANGED <<inputX, inputY, masks, xZeros, yZeros, partials, signs>>
  BY DEF OpenSelector, inputs
<1>3. output' \in Ciphertexts
  BY <1>1, <1>2, OutputTyped
<1>4. TypeOK'
  <2>1. TypeOK
    BY DEF GateInv
  <2> QED
    BY <1>1, <1>2, <1>3, <2>1 DEF TypeOK
<1>5. OutcomeFollows'
  <2>1. RerandomizedX' = RerandomizedX /\ RerandomizedY' = RerandomizedY
    BY <1>2 DEF RerandomizedX, RerandomizedY, Masked, Previous
  <2>2. Opened' = Opened /\ SharesComplete'
    BY <1>2, <2>1 DEF Opened, SharesComplete, Combine, LagrangeCoefficientAtZero
  <2>3. openedSign' \in Signs /\ Opened' = ScalarMod(openedSign')
    BY <1>1, <2>2
  <2>4. output' = GateOutput(inputX', openedSign', RerandomizedX')
    BY <1>1, <1>2, <2>1
  <2> QED
    BY <1>2, <2>2, <2>3, <2>4 DEF OutcomeFollows, ScalarMod, GateOutput
<1> QED
  BY <1>2, <1>4, <1>5, OpeningKeeps

LEMMA RefuseOpeningKeeps == GateInv /\ RefuseOpening => GateInv'
<1> SUFFICES ASSUME GateInv, RefuseOpening PROVE GateInv'
  OBVIOUS
<1>1. /\ SharesComplete /\ (\A sign \in Signs : Opened # ScalarMod(sign)) /\ outcome' = "failed"
      /\ UNCHANGED <<inputX, inputY, masks, xZeros, yZeros, partials, signs, openedSign, output>>
  BY DEF RefuseOpening, inputs
<1>2. TypeOK'
  <2>1. TypeOK
    BY DEF GateInv
  <2> QED
    BY <1>1, <2>1 DEF TypeOK
<1>3. OutcomeFollows'
  <2>1. RerandomizedY' = RerandomizedY
    BY <1>1 DEF RerandomizedY, Masked, Previous
  <2>2. Opened' = Opened /\ SharesComplete'
    BY <1>1, <2>1 DEF Opened, SharesComplete, Combine, LagrangeCoefficientAtZero
  <2> QED
    BY <1>1, <2>2 DEF OutcomeFollows, ScalarMod
<1> QED
  BY <1>1, <1>2, <1>3, OpeningKeeps

LEMMA StutterKeeps == GateInv /\ UNCHANGED vars => GateInv'
<1> SUFFICES ASSUME GateInv, UNCHANGED vars PROVE GateInv'
  OBVIOUS
<1>1. UNCHANGED <<inputX, inputY, masks, xZeros, yZeros, partials, outcome, openedSign, output, signs>>
  BY DEF vars
<1>2. TypeOK' /\ OutcomeFollows'
  <2>1. TypeOK /\ OutcomeFollows
    BY DEF GateInv
  <2>2. RerandomizedX' = RerandomizedX /\ RerandomizedY' = RerandomizedY
    BY <1>1 DEF RerandomizedX, RerandomizedY, Masked, Previous
  <2>3. Opened' = Opened
    BY <1>1, <2>2 DEF Opened, Combine, LagrangeCoefficientAtZero
  <2>4. TypeOK'
    BY <1>1, <2>1 DEF TypeOK
  <2> QED
    BY <1>1, <2>1, <2>2, <2>3, <2>4 DEF OutcomeFollows, SharesComplete, MasksValid, ScalarMod, GateOutput
<1> QED
  BY <1>1, <1>2, OpeningKeeps

\* The invariant of a gate's run.
THEOREM GateInvariant == Spec => []GateInv
<1>1. GateInv /\ [Next]_vars => GateInv'
  BY MaskKeeps, RefuseMasksKeeps, ContributeXKeeps, ContributeYKeeps, EmitShareKeeps,
     OpenSelectorKeeps, RefuseOpeningKeeps, StutterKeeps DEF Next
<1> QED
  BY GateInit, <1>1, PTL DEF Spec

THEOREM GateTypes == Spec => []TypeOK
<1>1. GateInv => TypeOK
  BY DEF GateInv
<1> QED
  BY GateInvariant, <1>1, PTL

-----------------------------------------------------------------------------
(* What follows from it.                                                    *)

LEMMA QuorumsOpen == GateInv => QuorumsAgree
<1> SUFFICES ASSUME GateInv, SharesComplete, NEW quorum \in SUBSET TrusteeIds,
                    Cardinality(quorum) = Threshold
             PROVE  Combine(RerandomizedY, partials, quorum) = Plaintext(RerandomizedY)
  BY DEF QuorumsAgree
<1>1. TypeOK /\ PhasesInOrder /\ ContributionsAreZeros /\ SharesAreHonest
  BY DEF GateInv
<1>2. RerandomizedY \in Ciphertexts /\ DOMAIN partials = TrusteeIds
  BY <1>1, SharesAreLast, RerandomizedTyped
<1> DEFINE c == RerandomizedY
           w == [t \in quorum |-> PartialDecryption(t, c)]
<1>3. \A t \in quorum : partials[t] = w[t]
  BY <1>1, <1>2 DEF SharesAreHonest
<1>4. Combine(c, partials, quorum) = Combine(c, w, quorum)
  <2>1. [t \in quorum |-> LagrangeCoefficientAtZero(quorum, t) * partials[t]]
        = [t \in quorum |-> LagrangeCoefficientAtZero(quorum, t) * w[t]]
    BY <1>3
  <2> HIDE DEF c, w
  <2> QED
    BY <2>1 DEF Combine
<1>5. quorum \in TrusteeQuorums
  BY DEF TrusteeQuorums
<1>6. Combine(c, w, quorum) = Plaintext(c)
  BY <1>2, <1>5, QuorumsDecrypt
<1> QED
  BY <1>4, <1>6

(* Whichever `threshold` of the partial decryptions are combined open the   *)
(* same point: combinePartialDecryptions with any quorum of honest trustees.*)
THEOREM AnyQuorumOpens == Spec => []QuorumsAgree
  BY GateInvariant, QuorumsOpen, PTL

\* What the gate opens.
LEMMA OpenedPoint ==
  ASSUME GateInv, SharesComplete
  PROVE  /\ Opened \in Field /\ SignOf(signs) \in Signs
         /\ Plaintext(inputX) \in Field /\ Plaintext(inputY) \in Field
         /\ Cong(Opened, SignOf(signs) * (2 * Plaintext(inputY) - 1))
         /\ RerandomizedX \in Ciphertexts
         /\ Cong(Plaintext(RerandomizedX), SignOf(signs) * Plaintext(inputX))
<1>1. /\ TypeOK /\ PhasesInOrder /\ ContributionsAreZeros /\ MasksCarrySign /\ QuorumsAgree
      /\ inputX \in Ciphertexts /\ inputY \in Ciphertexts /\ signs \in Seq(Signs)
  BY QuorumsOpen DEF GateInv, TypeOK, Vectors
<1>2. /\ RerandomizedX \in Ciphertexts /\ Plaintext(RerandomizedX) = Plaintext(Current.X)
      /\ RerandomizedY \in Ciphertexts /\ Plaintext(RerandomizedY) = Plaintext(Current.Y)
  BY <1>1, SharesAreLast, RerandomizedTyped
<1>3. Quorum \in SUBSET TrusteeIds /\ Cardinality(Quorum) = Threshold
  <2>1. Threshold \in Nat /\ Threshold <= Trustees /\ Trustees \in Nat
    <3>1. Threshold \in 2..Trustees /\ Trustees \in Nat
      BY SetupAssumption
    <3> QED
      BY <3>1
  <2>2. Quorum \in SUBSET TrusteeIds
    BY <2>1 DEF Quorum, TrusteeIds
  <2>3. Cardinality(1..Threshold) = Threshold
    <3>1. 1 \in Int /\ Threshold \in Int /\ 1 <= Threshold
      BY <2>1, CoefficientsAreScalars
    <3>2. Cardinality(1..Threshold) = IF 1 > Threshold THEN 0 ELSE Threshold - 1 + 1
      BY <3>1, FS_Interval
    <3> QED
      BY <3>1, <3>2
  <2> QED
    BY <2>2, <2>3 DEF Quorum
<1>4. Opened = Plaintext(Current.Y)
  BY <1>1, <1>2, <1>3 DEF QuorumsAgree, Opened
<1>5. SignOf(signs) \in Signs
  <2>1. 1 \in Signs
    BY DEF Signs
  <2> QED
    BY <1>1, <2>1, SignOfAppend
<1>6. /\ Plaintext(RerandomizedY) \in Field
      /\ Plaintext(inputX) \in Field /\ Plaintext(inputY) \in Field
  BY <1>1, <1>2, PlaintextIsScalar
<1>7. /\ Cong(Plaintext(Current.X), SignOf(signs) * Plaintext(inputX))
      /\ Cong(Plaintext(Current.Y), SignOf(signs) * (2 * Plaintext(inputY) - 1))
  BY <1>1 DEF MasksCarrySign
<1> QED
  BY <1>2, <1>4, <1>5, <1>6, <1>7

LEMMA OpenedCarriesSign == GateInv => OpenedIsMasked
<1> SUFFICES ASSUME GateInv, outcome = "opened"
             PROVE  ScalarMod(openedSign) = ScalarMod((2 * Plaintext(inputY) - 1) * SignOf(signs))
  BY DEF OpenedIsMasked, SignOf
<1>1. SharesComplete /\ Opened = ScalarMod(openedSign)
  BY DEF GateInv, OutcomeFollows
<1> DEFINE s == SignOf(signs)
           w == 2 * Plaintext(inputY) - 1
<1>2. Opened \in Field /\ s \in Int /\ w \in Int /\ Cong(Opened, s * w)
  <2>1. /\ Opened \in Field /\ s \in Signs /\ Plaintext(inputY) \in Field /\ Cong(Opened, s * w)
    BY <1>1, OpenedPoint
  <2>2. s \in Int /\ Plaintext(inputY) \in Int
    BY <2>1, SignsMultiply, FieldIsSmall
  <2> QED
    BY <2>1, <2>2
<1> HIDE DEF s, w
<1>3. s * w = w * s
  BY <1>2
<1>4. ScalarMod(Opened) = Opened
  BY <1>2, FieldIsSmall
<1>5. ScalarMod(openedSign) = ScalarMod(w * s)
  BY <1>1, <1>2, <1>3, <1>4 DEF Cong
<1> QED
  BY <1>5 DEF s, w

LEMMA FailuresHaveCauses == GateInv => FailsForCause
<1> SUFFICES ASSUME GateInv, outcome = "failed", Plaintext(inputY) \in {0, 1}, MasksValid
             PROVE  FALSE
  BY DEF FailsForCause
<1>1. SharesComplete /\ \A sign \in Signs : Opened # ScalarMod(sign)
  BY DEF GateInv, OutcomeFollows
<1> DEFINE s == SignOf(signs)
           y == Plaintext(inputY)
           sign == s * (2 * y - 1)
<1>2. Opened \in Field /\ s \in Signs /\ Cong(Opened, sign)
  BY <1>1, OpenedPoint
<1>3. sign \in Signs
  <2> HIDE DEF s
  <2>1. CASE y = 0
    BY <1>2, <2>1 DEF Signs
  <2>2. CASE y = 1
    BY <1>2, <2>2 DEF Signs
  <2> QED
    BY <2>1, <2>2
<1> HIDE DEF sign
<1>4. Opened = ScalarMod(sign)
  BY <1>2, FieldIsSmall DEF Cong
<1> QED
  BY <1>1, <1>3, <1>4

(* The public sign is the selector's times every trustee's secret sign:     *)
(* what the combination of the partial decryptions of the masked selector   *)
(* can show, for any number of trustees.                                    *)
THEOREM SelectorStaysMasked == Spec => []OpenedIsMasked
  BY GateInvariant, OpenedCarriesSign, PTL

(* Honest trustees make the gate fail only on a selector that is no bit     *)
(* (E_GATE_SELECTOR_OPENING) or a masked X that Algorithm 10 refuses.       *)
THEOREM GateFailsForCause == Spec => []FailsForCause
  BY GateInvariant, FailuresHaveCauses, PTL

\* A masked selector that is a sign is that of a bit.
LEMMA SignMeansBit ==
  ASSUME NEW s \in Signs, NEW sign \in Signs, NEW y \in Field, Cong(sign, s * (2 * y - 1))
  PROVE  y \in {0, 1} /\ Cong(sign * s, 2 * y - 1)
<1> DEFINE w == 2 * y - 1
           sw == s * w
           ss == sign * s
<1>1. s \in Int /\ sign \in Int /\ s * s = 1 /\ ss \in Signs /\ y \in Int
  BY SignsMultiply, FieldIsSmall
<1>2. w \in Int /\ ss \in Int /\ ss \in {1, -1}
  BY <1>1 DEF Signs
<1> HIDE DEF w
<1>3. sw \in Int /\ Cong(sign, sw) /\ sw * s = w
  <2>1. sw \in Int
    BY <1>1, <1>2
  <2>2. sw * s = w
    <3>1. sw * s = (s * s) * w
      BY <1>1, <1>2
    <3> QED
      BY <1>1, <1>2, <3>1
  <2> QED
    BY <2>1, <2>2 DEF w
<1> HIDE DEF sw
<1>4. Cong(sign * s, sw * s)
  BY <1>1, <1>3, CongRefl, CongTimes
<1>5. Cong(ss, w)
  BY <1>3, <1>4
<1> HIDE DEF ss
<1> DEFINE one == 1
           d == 2 * y
<1>6. one \in Int /\ d \in Int /\ w + one = d
  BY <1>1 DEF w
<1> HIDE DEF one, d
<1>7. Cong(ss + one, w + one)
  BY <1>2, <1>5, <1>6, CongRefl, CongAdd
<1>8. Cong(ss + one, d)
  BY <1>6, <1>7
<1>9. y \in {0, 1}
  <2>1. CASE ss = 1
    <3>1. ss + one = 2 * 1 /\ 1 \in Int /\ 2 \in Int
      BY <2>1 DEF one
    <3>2. Cong(2 * 1, 2 * y)
      BY <1>8, <3>1 DEF d
    <3>3. Cong(1, y)
      <4> DEFINE two == 2
                 i == 1
      <4>1. two \in Int /\ i \in Int /\ ~Cong(two, 0) /\ Cong(two * i, two * y)
        BY <3>2, TwoHasInverse
      <4> HIDE DEF two, i
      <4>2. Cong(i, y)
        BY <1>1, <4>1, CongCancel
      <4> QED
        BY <4>2 DEF i
    <3> QED
      BY <3>3, ZeroInField, CongEqual
  <2>2. CASE ss = -1
    <3>1. ss + one = 0
      BY <2>2 DEF one
    <3>2. Cong(2 * y, 0)
      BY <1>8, <3>1, CongSym DEF d
    <3>3. Cong(y, 0)
      <4>1. 2 \in Int /\ ~Cong(2, 0)
        BY TwoHasInverse
      <4> QED
        BY <1>1, <3>2, <4>1, CongZeroProduct
    <3> QED
      BY <3>3, ZeroInField, CongEqual
  <2> QED
    BY <1>2, <2>1, <2>2
<1> QED
  BY <1>5, <1>9 DEF ss, w

\* What the opened sign says of the selector, and what the output decrypts to.
LEMMA OutputDecrypts ==
  ASSUME NEW cx \in Ciphertexts, NEW xr \in Ciphertexts, NEW s \in Signs, NEW sign \in Signs,
         NEW y \in Field,
         Cong(Plaintext(xr), s * Plaintext(cx)), Cong(ScalarMod(sign), s * (2 * y - 1))
  PROVE  /\ y \in {0, 1}
         /\ Plaintext(GateOutput(cx, sign, xr)) = ScalarMod(Plaintext(cx) * y)
<1> DEFINE x == Plaintext(cx)
           w == 2 * y - 1
           p == Plaintext(xr)
           a == ScaleCiphertext(xr, sign)
           b == AddCiphertexts(cx, a)
           o == ScaleCiphertext(b, InverseTwo)
           i == InverseTwo
<1>1. x \in Field /\ Cong(ScalarMod(sign), s * w) /\ Cong(p, s * x)
  BY PlaintextIsScalar
<1>2. sign \in Int /\ s \in Int /\ x \in Int /\ y \in Int /\ w \in Int /\ p \in Int
  <2>1. sign \in Int /\ s \in Int
    BY SignsMultiply
  <2>2. x \in Int /\ y \in Int /\ p \in Int
    BY PlaintextIsScalar, FieldIsSmall
  <2> QED
    BY <2>1, <2>2
<1>3. y \in {0, 1} /\ Cong(sign * s, w)
  <2>1. Cong(sign, s * w)
    <3>1. Cong(ScalarMod(sign), sign)
      BY <1>2, CongMod
    <3> QED
      BY <1>1, <3>1, CongSym, CongTrans
  <2> QED
    BY <2>1, SignMeansBit
<1>4. /\ GateOutput(cx, sign, xr) = o /\ i \in Int
      /\ a \in Ciphertexts /\ b \in Ciphertexts /\ o \in Ciphertexts
      /\ Cong(Plaintext(a), sign * p) /\ Cong(Plaintext(b), x + Plaintext(a))
      /\ Cong(Plaintext(o), i * Plaintext(b))
  <2>1. a \in Ciphertexts /\ Cong(Plaintext(a), sign * p)
    BY <1>2, PlaintextOfScaled
  <2> HIDE DEF a
  <2>2. b \in Ciphertexts /\ Cong(Plaintext(b), x + Plaintext(a))
    BY <2>1, AddIsCiphertext, PlaintextOfSum
  <2> HIDE DEF b
  <2>3. o \in Ciphertexts /\ Cong(Plaintext(o), i * Plaintext(b)) /\ i \in Int
    BY <2>2, TwoHasInverse, PlaintextOfScaled
  <2> QED
    BY <2>1, <2>2, <2>3 DEF GateOutput, a, b
<1> DEFINE pa == Plaintext(a)
           pb == Plaintext(b)
           po == Plaintext(o)
<1>5. pa \in Int /\ pb \in Int /\ po \in Field
  BY <1>4, PlaintextIsScalar, FieldIsSmall
<1>6. Cong(pa, sign * p) /\ Cong(pb, x + pa) /\ Cong(po, i * pb)
  BY <1>4
<1> HIDE DEF x, p, a, b, o, i, pa, pb, po, w
<1> DEFINE ss == sign * s
           sx == s * x
           wx == w * x
           yx == x * y
           d == 2 * yx
<1>7. ss \in Int /\ sx \in Int /\ wx \in Int /\ yx \in Int /\ sign * sx = ss * x /\ Cong(ss, w) /\ Cong(p, sx)
  BY <1>1, <1>2, <1>3
<1>8. x + wx = d /\ d \in Int
  <2>1. w = 2 * y - 1
    BY DEF w
  <2> QED
    BY ONLY <1>2, <2>1
<1> HIDE DEF ss, sx
<1>9. Cong(sign * p, sign * sx) /\ Cong(ss * x, wx)
  BY <1>2, <1>7, CongRefl, CongTimes
<1>10. Cong(pa, wx)
  BY <1>6, <1>7, <1>9, CongTrans
<1> HIDE DEF wx, d, yx
<1>11. Cong(x + pa, x + wx)
  BY <1>2, <1>5, <1>7, <1>10, CongRefl, CongAdd
<1>12. Cong(pb, d)
  BY <1>6, <1>8, <1>11, CongTrans
<1>13. Cong(i * pb, i * d)
  BY <1>4, <1>5, <1>8, <1>12, CongRefl, CongTimes
<1> DEFINE t == 2 * i
           one == 1
<1>14. t \in Int /\ one \in Int /\ Cong(t, one) /\ i * d = t * yx /\ one * yx = yx
  BY <1>4, <1>7, TwoHasInverse DEF i, d
<1> HIDE DEF t, one
<1>15. Cong(t * yx, one * yx)
  BY <1>7, <1>14, CongRefl, CongTimes
<1>16. Cong(po, yx)
  BY <1>6, <1>13, <1>14, <1>15, CongTrans
<1>17. po = ScalarMod(yx)
  BY <1>5, <1>16, FieldIsSmall DEF Cong
<1> QED
  BY <1>3, <1>4, <1>17 DEF po, yx, x

\* The output of a run decrypts to the product.
LEMMA OutputMultiplies ==
  ASSUME GateInv, SharesComplete, NEW sign \in Signs, Opened = ScalarMod(sign)
  PROVE  /\ Plaintext(inputY) \in {0, 1}
         /\ Plaintext(GateOutput(inputX, sign, RerandomizedX))
              = ScalarMod(Plaintext(inputX) * Plaintext(inputY))
<1> DEFINE s == SignOf(signs)
           y == Plaintext(inputY)
           xr == RerandomizedX
<1>1. /\ s \in Signs /\ y \in Field /\ xr \in Ciphertexts /\ inputX \in Ciphertexts
      /\ Cong(ScalarMod(sign), s * (2 * y - 1)) /\ Cong(Plaintext(xr), s * Plaintext(inputX))
  BY OpenedPoint DEF GateInv, TypeOK
<1> HIDE DEF s, y, xr
<1>2. y \in {0, 1} /\ Plaintext(GateOutput(inputX, sign, xr)) = ScalarMod(Plaintext(inputX) * y)
  BY <1>1, OutputDecrypts
<1> QED
  BY <1>2 DEF y, xr

LEMMA InputsStay ==
  ASSUME [Next]_vars
  PROVE  Plaintext(inputX)' = Plaintext(inputX) /\ Plaintext(inputY)' = Plaintext(inputY)
<1>1. inputX' = inputX /\ inputY' = inputY
  BY DEF Next, vars, Mask, RefuseMasks, ContributeX, ContributeY, EmitShare, OpenSelector,
         RefuseOpening, inputs
<1> QED
  BY <1>1 DEF Plaintext

(* The interactive gate implements one that multiplies once: whatever the   *)
(* signs, the nonces and the quorum, its output decrypts to x * y           *)
(* (runConditionalGate, for every number of trustees).                      *)
THEOREM GateMultiplies == Spec => ImplementsProductGate
<1>1. GateInv /\ Init => Product!Init
  <2> SUFFICES ASSUME GateInv, Init PROVE Product!Init
    OBVIOUS
  <2>1. Plaintext(inputX) \in Field /\ Plaintext(inputY) \in Field
    BY PlaintextIsScalar DEF GateInv, TypeOK
  <2> QED
    BY <2>1 DEF Product!Init, Product!Pending, Init, Field
<1>2. GateInv /\ [Next]_vars => [Product!Next]_(Product!vars)
  <2> SUFFICES ASSUME GateInv, [Next]_vars PROVE [Product!Next]_(Product!vars)
    OBVIOUS
  <2> DEFINE x == Plaintext(inputX)
             y == Plaintext(inputY)
             value == IF outcome = "opened" THEN Plaintext(output) ELSE 0
  <2>1. x' = x /\ y' = y
    BY InputsStay
  <2>2. CASE Mask \/ ContributeX \/ ContributeY \/ EmitShare \/ UNCHANGED vars
    <3>1. outcome' = outcome /\ output' = output
      BY <2>2 DEF Mask, ContributeX, ContributeY, EmitShare, vars, result
    <3>2. value' = value
      BY <3>1 DEF Plaintext
    <3> QED
      BY <2>1, <3>1, <3>2 DEF Product!vars
  <2>3. CASE RefuseMasks \/ RefuseOpening
    <3>1. outcome = "running" /\ outcome' = "failed"
      BY <2>3 DEF RefuseMasks, RefuseOpening, Running
    <3> QED
      BY <2>1, <3>1 DEF Product!Next, Product!Fail, Product!Pending, Product!Failed
  <2>4. CASE OpenSelector
    <3>1. PICK sign \in Signs :
             /\ Opened = ScalarMod(sign)
             /\ output' = GateOutput(inputX, sign, RerandomizedX)
      BY <2>4 DEF OpenSelector
    <3>2. outcome = "running" /\ outcome' = "opened" /\ SharesComplete
      BY <2>4 DEF OpenSelector, Running
    <3>3. y \in {0, 1} /\ Plaintext(output') = ScalarMod(x * y)
      BY <3>1, <3>2, OutputMultiplies
    <3>4. Plaintext(output)' = ScalarMod(x * y)
      BY <3>3 DEF Plaintext
    <3> QED
      BY <2>1, <3>2, <3>3, <3>4 DEF Product!Next, Product!Answer, Product!Pending, ScalarMod
  <2> QED
    BY <2>2, <2>3, <2>4 DEF Next
<1> QED
  BY <1>1, <1>2, GateInit, GateInvariant, PTL DEF Spec, ImplementsProductGate, Product!Spec

-----------------------------------------------------------------------------
(* The verifiers.                                                           *)

\* A pair carries the inputs under a common sign.
CarriesInputs(pair, s) ==
  /\ Cong(Plaintext(pair.X), s * Plaintext(inputX))
  /\ Cong(Plaintext(pair.Y), s * (2 * Plaintext(inputY) - 1))

InputsAreCiphertexts == inputX \in Ciphertexts /\ inputY \in Ciphertexts

Pairs == [X : Ciphertexts, Y : Ciphertexts]

\* A zero-encryption proof of a difference relates the plaintexts.
LEMMA ZeroDifference ==
  ASSUME NEW c \in Ciphertexts, NEW d \in Ciphertexts, NEW k \in Int,
         EncryptsZero(AddCiphertexts(c, ScaleCiphertext(d, -k)))
  PROVE  Cong(Plaintext(c), k * Plaintext(d))
<1> DEFINE e == ScaleCiphertext(d, -k)
           p == Plaintext(c)
           q == Plaintext(d)
           m == Plaintext(e)
           l == -k
<1>1. /\ l \in Int /\ q \in Int /\ e \in Ciphertexts /\ Cong(m, l * q)
  <2>1. l \in Int
    OBVIOUS
  <2> QED
    BY <2>1, PlaintextOfScaled
<1>2. EncryptsZero(AddCiphertexts(c, e))
  OBVIOUS
<1> HIDE DEF e
<1>3. p \in Int /\ m \in Int /\ Cong(0, p + m)
  BY <1>1, <1>2, PlaintextOfSum DEF EncryptsZero
<1> HIDE DEF p, q, m
<1> DEFINE x == k * q
           z == 0
<1>4. x \in Int /\ z \in Int /\ l * q = -x /\ Cong(x, x) /\ Cong(p, p)
  BY <1>1, CongRefl DEF l
<1> HIDE DEF x, z, l
<1> DEFINE y == -x
<1>5. y \in Int /\ Cong(m, y) /\ Cong(z, p + m)
  BY <1>1, <1>3, <1>4 DEF z
<1>6. (p + y) + x = p /\ z + x = x /\ p + m \in Int /\ p + y \in Int
  BY <1>3, <1>4 DEF z
<1> HIDE DEF y
<1>7. Cong(p + m, p + y)
  BY <1>3, <1>4, <1>5, CongAdd
<1>8. Cong(z, p + y)
  BY <1>5, <1>7, CongTrans
<1>9. Cong(z + x, (p + y) + x)
  BY <1>4, <1>6, <1>8, CongAdd
<1> QED
  BY <1>6, <1>9, CongSym DEF p, q, x

\* A masking step that verifies multiplies the common sign by one of its own.
LEMMA StepCarries ==
  ASSUME NEW previous \in Pairs, NEW next \in Pairs, MaskingProofValid(previous, next),
         InputsAreCiphertexts, NEW s \in Signs, CarriesInputs(previous, s)
  PROVE  \E t \in Signs : CarriesInputs(next, t)
<1> DEFINE x == Plaintext(inputX)
           w == 2 * Plaintext(inputY) - 1
<1>1. PICK sign \in Signs : \A f \in {"X", "Y"} :
        EncryptsZero(AddCiphertexts(next[f], ScaleCiphertext(previous[f], -sign)))
  BY DEF MaskingProofValid
<1>2. s * sign \in Signs /\ s \in Int /\ sign \in Int /\ sign * s = s * sign
  <2>1. s \in Int /\ sign \in Int /\ s * sign \in Signs
    BY SignsMultiply
  <2> QED
    BY <2>1
<1>3. x \in Int /\ w \in Int
  <2>1. Plaintext(inputX) \in Int /\ Plaintext(inputY) \in Int
    BY PlaintextIsScalar, FieldIsSmall DEF InputsAreCiphertexts
  <2> QED
    BY <2>1
<1>4. /\ previous.X \in Ciphertexts /\ previous.Y \in Ciphertexts
      /\ next.X \in Ciphertexts /\ next.Y \in Ciphertexts
  BY DEF Pairs
<1>5. /\ Cong(Plaintext(next.X), sign * Plaintext(previous.X))
      /\ Cong(Plaintext(next.Y), sign * Plaintext(previous.Y))
  BY <1>1, <1>2, <1>4, ZeroDifference
<1>6. Cong(Plaintext(previous.X), s * x) /\ Cong(Plaintext(previous.Y), s * w)
  BY DEF CarriesInputs
<1> HIDE DEF x, w
<1>7. ASSUME NEW c \in Ciphertexts, NEW d \in Ciphertexts, NEW v \in Int,
             Cong(Plaintext(d), sign * Plaintext(c)), Cong(Plaintext(c), s * v)
      PROVE  Cong(Plaintext(d), (s * sign) * v)
  <2> DEFINE p == Plaintext(c)
             y == s * v
  <2>1. p \in Int /\ y \in Int /\ sign * y = (s * sign) * v /\ Cong(p, y)
    <3>1. p \in Int
      BY PlaintextIsScalar, FieldIsSmall
    <3> QED
      BY <1>2, <1>7, <3>1
  <2> HIDE DEF p, y
  <2>2. Cong(sign * p, sign * y)
    BY <1>2, <2>1, CongRefl, CongTimes
  <2> QED
    BY <1>7, <2>1, <2>2, CongTrans DEF p
<1>8. Cong(Plaintext(next.X), (s * sign) * x) /\ Cong(Plaintext(next.Y), (s * sign) * w)
  BY <1>3, <1>4, <1>5, <1>6, <1>7
<1> QED
  BY <1>2, <1>8 DEF CarriesInputs, x, w

\* The masking records chain from the inputs to a pair that carries them.
LEMMA ChainCarries ==
  ASSUME InputsAreCiphertexts, NEW messages, NEW session, ChainVerifies(messages, session),
         \A t \in TrusteeIds : messages[t].next \in Pairs
  PROVE  \E s \in Signs : CarriesInputs(messages[Trustees].next, s)
<1> DEFINE Sign(n) == \E s \in Signs : CarriesInputs(messages[n].next, s)
           T == {n \in Nat : n + 1 <= Trustees => Sign(n + 1)}
           first == Previous(<<>>, 1)
<1>1. Trustees \in Nat /\ Trustees >= 2
  BY SetupAssumption
<1>2. /\ MaskingProofValid(first, messages[1].next)
      /\ \A t \in TrusteeIds : t # 1 => MaskingProofValid(messages[t - 1].next, messages[t].next)
  <2>1. 1 \in TrusteeIds
    BY <1>1 DEF TrusteeIds
  <2> QED
    BY <2>1 DEF ChainVerifies
<1>3. first \in Pairs /\ CarriesInputs(first, 1) /\ 1 \in Signs
  <2>1. first = [X |-> inputX, Y |-> InitialSignedSelector(inputY)]
    BY DEF Previous
  <2>2. InitialSignedSelector(inputY) \in Ciphertexts
    <3>1. PublicValue(-1) \in Ciphertexts /\ ScaleCiphertext(inputY, 2) \in Ciphertexts
      <4>1. -1 \in Int /\ 2 \in Int
        OBVIOUS
      <4> QED
        BY <4>1, PublicPlaintext, PlaintextOfScaled DEF InputsAreCiphertexts
    <3> QED
      BY <3>1, AddIsCiphertext DEF InitialSignedSelector
  <2>3. Cong(Plaintext(InitialSignedSelector(inputY)), 2 * Plaintext(inputY) - 1)
    BY SelectorCarries DEF InputsAreCiphertexts
  <2>4. /\ 1 * Plaintext(inputX) = Plaintext(inputX)
        /\ 1 * (2 * Plaintext(inputY) - 1) = 2 * Plaintext(inputY) - 1
    <3>1. Plaintext(inputX) \in Int /\ Plaintext(inputY) \in Int
      BY PlaintextIsScalar, FieldIsSmall DEF InputsAreCiphertexts
    <3> QED
      BY <3>1
  <2>5. first \in Pairs /\ first.X = inputX /\ first.Y = InitialSignedSelector(inputY)
    BY <2>1, <2>2 DEF Pairs, InputsAreCiphertexts
  <2>6. Cong(Plaintext(first.X), 1 * Plaintext(inputX))
    BY <2>4, <2>5, CongRefl
  <2> QED
    BY <2>3, <2>4, <2>5, <2>6 DEF CarriesInputs, Signs
<1> HIDE DEF first
<1>4. 0 \in T
  <2>1. 1 \in TrusteeIds /\ 0 + 1 = 1
    BY <1>1 DEF TrusteeIds
  <2>2. Sign(1)
    BY <1>2, <1>3, <2>1, StepCarries
  <2> QED
    BY <2>1, <2>2
<1>5. ASSUME NEW n \in Nat, n \in T PROVE n + 1 \in T
  <2> SUFFICES ASSUME (n + 1) + 1 <= Trustees PROVE Sign((n + 1) + 1)
    OBVIOUS
  <2> DEFINE t == (n + 1) + 1
  <2>1. t \in TrusteeIds /\ t - 1 \in TrusteeIds /\ t # 1 /\ t - 1 = n + 1 /\ n + 1 <= Trustees
    BY <1>1 DEF TrusteeIds
  <2>2. PICK s \in Signs : CarriesInputs(messages[n + 1].next, s)
    BY <1>5, <2>1
  <2> HIDE DEF t
  <2>3. Sign(t)
    <3>1. MaskingProofValid(messages[t - 1].next, messages[t].next)
      BY <1>2, <2>1
    <3>2. messages[t - 1].next \in Pairs /\ messages[t].next \in Pairs
      BY <2>1
    <3>3. CarriesInputs(messages[t - 1].next, s)
      BY <2>1, <2>2
    <3> QED
      BY <3>1, <3>2, <3>3, StepCarries
  <2> QED
    BY <2>3 DEF t
<1>6. Nat \subseteq T
  <2> HIDE DEF T
  <2> QED
    BY <1>4, <1>5, Induction
<1>7. Trustees - 1 \in Nat /\ (Trustees - 1) + 1 = Trustees /\ Trustees <= Trustees
  BY <1>1
<1>8. Sign((Trustees - 1) + 1)
  BY <1>6, <1>7
<1> QED
  BY <1>7, <1>8

\* What is proved about a record: its selector is a bit, its output the product.
Multiplies(r) ==
  /\ Plaintext(inputY) \in {0, 1}
  /\ Plaintext(r.output) = ScalarMod(Plaintext(inputX) * Plaintext(inputY))

LEMMA CarriedPairMultiplies ==
  ASSUME InputsAreCiphertexts, NEW pair \in Pairs, NEW s \in Signs, CarriesInputs(pair, s),
         NEW xr \in Ciphertexts, Plaintext(xr) = Plaintext(pair.X),
         NEW sign \in Signs, Plaintext(pair.Y) = ScalarMod(sign)
  PROVE  /\ Plaintext(inputY) \in {0, 1}
         /\ Plaintext(GateOutput(inputX, sign, xr))
              = ScalarMod(Plaintext(inputX) * Plaintext(inputY))
<1> DEFINE y == Plaintext(inputY)
<1>1. /\ inputX \in Ciphertexts /\ y \in Field
      /\ Cong(Plaintext(xr), s * Plaintext(inputX)) /\ Cong(ScalarMod(sign), s * (2 * y - 1))
  BY PlaintextIsScalar DEF InputsAreCiphertexts, CarriesInputs
<1> HIDE DEF y
<1>2. y \in {0, 1} /\ Plaintext(GateOutput(inputX, sign, xr)) = ScalarMod(Plaintext(inputX) * y)
  BY <1>1, OutputDecrypts
<1> QED
  BY <1>2 DEF y

\* Contributions and pairs that decode to group elements.
Contributions(vector) ==
  \E S : vector \in Seq(S) /\ \A e \in S : e.contribution \in Ciphertexts

Decodes(r) ==
  /\ \A t \in TrusteeIds : Masks(r)[t].next \in Pairs
  /\ Contributions(VectorFor(r.board, r.x.session, XPhase))
  /\ Contributions(VectorFor(r.board, r.y.session, YPhase))

NativeDecodes(r) ==
  /\ \A t \in TrusteeIds : r.masking[t].next \in Pairs
  /\ Contributions(r.x.vector) /\ Contributions(r.y.vector)

\* A rerandomization record of the gate that verifies keeps the plaintext.
LEMMA RecordRerandomizes ==
  ASSUME NEW r, NEW c \in Ciphertexts, NEW sessions, Contributions(r.vector),
         RerandomizationVerifies(r, c, sessions)
  PROVE  r.output \in Ciphertexts /\ Plaintext(r.output) = Plaintext(c)
<1>1. PICK S : r.vector \in Seq(S) /\ \A e \in S : e.contribution \in Ciphertexts
  BY DEF Contributions
<1> QED
  BY <1>1, RerandomizationIsRight

\* The shares of the first trustees, in their order, open what they decrypt.
LEMMA OrderedSharesOpen ==
  ASSUME NEW c \in Ciphertexts, NEW shares,
         \A t \in Quorum : shares[t].w = PartialDecryption(t, c)
  PROVE  Combine(c, [t \in Quorum |-> shares[t].w], Quorum) = Plaintext(c)
<1>1. [t \in Quorum |-> shares[t].w] = [t \in Quorum |-> PartialDecryption(t, c)]
  OBVIOUS
<1>2. Quorum \in TrusteeQuorums
  BY FirstIds DEF Quorum
<1> QED
  BY <1>1, <1>2, QuorumsDecrypt

LEMMA VerifiedGate ==
  ASSUME InputsAreCiphertexts, NEW r, Decodes(r), Verify(r)
  PROVE  Multiplies(r)
<1> DEFINE pair == Masks(r)[Trustees].next
           x == WithVector(r, r.x, XPhase)
           y == WithVector(r, r.y, YPhase)
<1>1. /\ ChainVerifies(Masks(r), r.maskingSession)
      /\ r.masked = pair
      /\ RerandomizationVerifies(x, r.masked.X, {r.x.session})
      /\ RerandomizationVerifies(y, r.masked.Y, {r.y.session})
      /\ \A t \in TrusteeIds :
           ShareVerifies(Shares(r)[t], t, Authorization(r.partialSession, AuthorizedCiphertext(r)))
      /\ OpeningVerifies(r, Shares(r))
      /\ r.output = GateOutput(inputX, r.openedSign, r.x.output)
  BY DEF Verify
<1>2. PICK s \in Signs : CarriesInputs(pair, s)
  BY <1>1, ChainCarries DEF Decodes
<1>3. pair \in Pairs /\ pair.X \in Ciphertexts /\ pair.Y \in Ciphertexts
  <2>1. Trustees \in TrusteeIds
    BY SetupAssumption DEF TrusteeIds
  <2>2. pair \in Pairs
    BY <2>1 DEF Decodes
  <2> HIDE DEF pair
  <2> QED
    BY <2>2 DEF Pairs
<1>4. /\ x.vector = VectorFor(r.board, r.x.session, XPhase) /\ x.output = r.x.output
      /\ y.vector = VectorFor(r.board, r.y.session, YPhase) /\ y.output = r.y.output
  BY DEF WithVector
<1> HIDE DEF pair, x, y
<1>5. /\ r.x.output \in Ciphertexts /\ Plaintext(r.x.output) = Plaintext(pair.X)
      /\ r.y.output \in Ciphertexts /\ Plaintext(r.y.output) = Plaintext(pair.Y)
  <2>1. Contributions(x.vector) /\ Contributions(y.vector)
    BY <1>4 DEF Decodes
  <2>2. /\ RerandomizationVerifies(x, pair.X, {r.x.session})
        /\ RerandomizationVerifies(y, pair.Y, {r.y.session})
    BY <1>1
  <2>3. /\ x.output \in Ciphertexts /\ Plaintext(x.output) = Plaintext(pair.X)
        /\ y.output \in Ciphertexts /\ Plaintext(y.output) = Plaintext(pair.Y)
    BY <1>3, <2>1, <2>2, RecordRerandomizes
  <2> QED
    BY <1>4, <2>3
<1>6. \A t \in Quorum : Shares(r)[t].w = PartialDecryption(t, r.y.output)
  <2>1. Quorum \subseteq TrusteeIds
    BY FirstIds DEF Quorum
  <2> QED
    BY <1>1, <2>1 DEF ShareVerifies, ShareProofValid, Authorization, AuthorizedCiphertext
<1>7. r.openedSign \in Signs /\ Plaintext(r.y.output) = ScalarMod(r.openedSign)
  <2>1. Combine(r.y.output, [t \in Quorum |-> Shares(r)[t].w], Quorum) = Plaintext(r.y.output)
    BY <1>5, <1>6, OrderedSharesOpen
  <2> QED
    BY <1>1, <2>1 DEF OpeningVerifies, AuthorizedCiphertext
<1>8. r.output = GateOutput(inputX, r.openedSign, r.x.output) /\ Plaintext(pair.Y) = ScalarMod(r.openedSign)
  BY <1>1, <1>5, <1>7
<1>9. /\ Plaintext(inputY) \in {0, 1}
      /\ Plaintext(GateOutput(inputX, r.openedSign, r.x.output))
           = ScalarMod(Plaintext(inputX) * Plaintext(inputY))
  BY <1>2, <1>3, <1>5, <1>7, <1>8, CarriedPairMultiplies
<1> QED
  BY <1>8, <1>9 DEF Multiplies

\* The shares that the native verifier takes are those of the trustees whose
\* coefficients it computes.
SharesOfQuorum(r) == {r.partials[i].trustee : i \in Quorum} = Quorum

LEMMA NativeVerifiedGate ==
  ASSUME InputsAreCiphertexts, NEW r, NativeDecodes(r), NativeVerify(r), SharesOfQuorum(r)
  PROVE  Multiplies(r)
<1> DEFINE pair == r.masking[Trustees].next
           c == r.y.output
           who == [i \in Quorum |-> r.partials[i].trustee]
<1>1. /\ ChainVerifies(r.masking, r.maskingSession)
      /\ RerandomizationVerifies(r.x, pair.X, {r.x.session})
      /\ RerandomizationVerifies(r.y, pair.Y, {r.y.session})
      /\ \A i \in TrusteeIds : ShareProofValid(r.partials[i], c)
      /\ NativeOpeningVerifies(r)
      /\ r.output = GateOutput(inputX, r.openedSign, r.x.output)
  BY DEF NativeVerify, Authorization, AuthorizedCiphertext
<1>2. PICK s \in Signs : CarriesInputs(pair, s)
  BY <1>1, ChainCarries DEF NativeDecodes
<1>3. pair \in Pairs /\ pair.X \in Ciphertexts /\ pair.Y \in Ciphertexts
  <2>1. Trustees \in TrusteeIds
    BY SetupAssumption DEF TrusteeIds
  <2>2. pair \in Pairs
    BY <2>1 DEF NativeDecodes
  <2> HIDE DEF pair
  <2> QED
    BY <2>2 DEF Pairs
<1> HIDE DEF pair
<1>4. /\ r.x.output \in Ciphertexts /\ Plaintext(r.x.output) = Plaintext(pair.X)
      /\ c \in Ciphertexts /\ Plaintext(c) = Plaintext(pair.Y)
  BY <1>1, <1>3, RecordRerandomizes DEF NativeDecodes
<1>5. Quorum \in TrusteeQuorums /\ Quorum \subseteq TrusteeIds
  BY FirstIds DEF Quorum
<1>6. \A i \in Quorum : r.partials[i].w = PartialDecryption(who[i], c)
  BY <1>1, <1>5 DEF ShareProofValid
<1>7. [i \in Quorum |-> LagrangeCoefficientAtZero(Quorum, r.partials[i].trustee) * r.partials[i].w]
        = [i \in Quorum |-> LagrangeCoefficientAtZero(Quorum, who[i]) * PartialDecryption(who[i], c)]
  BY <1>6
<1>8. {who[i] : i \in Quorum} = Quorum
  BY DEF SharesOfQuorum
<1> HIDE DEF who
<1>9. ScalarMod(c.S - ModSum([i \in Quorum |-> LagrangeCoefficientAtZero(Quorum, who[i])
                                                 * PartialDecryption(who[i], c)], Quorum))
        = Plaintext(c)
  BY <1>4, <1>5, <1>8, PermutedQuorumOpens
<1>10. r.openedSign \in Signs /\ Plaintext(c) = ScalarMod(r.openedSign)
  BY <1>1, <1>7, <1>9 DEF NativeOpeningVerifies, AuthorizedCiphertext
<1> QED
  BY <1>1, <1>2, <1>3, <1>4, <1>10, CarriedPairMultiplies DEF Multiplies

LEMMA InputsDecode == GateInv => InputsAreCiphertexts
  BY DEF GateInv, TypeOK, InputsAreCiphertexts

(* Whoever made it and whatever is on its board: a record that decodes and  *)
(* that the JavaScript verifier accepts for the inputs of a gate is of a    *)
(* selector that is a bit, and its output decrypts to the product           *)
(* (verifyConditionalGateTranscript).                                       *)
THEOREM VerifiedGateMultiplies ==
  Spec => [](\A r : Decodes(r) /\ Verify(r) => Multiplies(r))
<1>1. GateInv => \A r : Decodes(r) /\ Verify(r) => Multiplies(r)
  BY InputsDecode, VerifiedGate
<1> QED
  BY <1>1, GateInvariant, PTL

(* The same of the native verifier, whose shares come in any order, for a   *)
(* record whose first `threshold` shares are those of the trustees 1, 2 ... *)
(* (verify_gate_json_with_setup): it weighs them under these ids.           *)
THEOREM NativeVerifiedGateMultiplies ==
  Spec => [](\A r : NativeDecodes(r) /\ SharesOfQuorum(r) /\ NativeVerify(r) => Multiplies(r))
<1>1. GateInv => \A r : NativeDecodes(r) /\ SharesOfQuorum(r) /\ NativeVerify(r) => Multiplies(r)
  BY InputsDecode, NativeVerifiedGate
<1> QED
  BY <1>1, GateInvariant, PTL

-----------------------------------------------------------------------------
(* Exports.                                                                 *)

\* The sessions in which gates may post, and the names of the phases.
GateSessions == [gate : Nat, invocation : Nat]
Names == ToSet(NameOrder)

\* The phases have keys of gates.
Keyed(ps) == \A i \in DOMAIN ps : ps[i].key \in GateSessions \X Names

LEMMA PlacesInPairs ==
  ASSUME NEW ps, NEW P
  PROVE  /\ \A i, j \in P : <<i, j>> \in PlacePairs(ps, P) <=> PlaceBefore(ps, i, j)
         /\ \A i, j : <<i, j>> \in PlacePairs(ps, P) => PlaceBefore(ps, i, j)
  BY DEF PlacePairs

LEMMA NamesInOrder ==
  /\ NameOrder \in Seq(Names)
  /\ \A t \in TrusteeIds : {MaskingPhase(t), PartialPhase(t)} \subseteq Names
  /\ {XPhase, YPhase} \subseteq Names
<1> DEFINE N == Trustees
           a == <<XPhase, YPhase>>
           b == [t \in 1..(N + 1) |-> PartialPhase(t)]
           c == [t \in TrusteeIds |-> MaskingPhase(t)]
           S == {XPhase, YPhase} \cup {PartialPhase(t) : t \in 1..(N + 1)}
                  \cup {MaskingPhase(t) : t \in TrusteeIds}
<1>1. N \in Nat
  BY SetupAssumption
<1>2. a \in Seq(S) /\ Len(a) = 2 /\ a[1] = XPhase /\ a[2] = YPhase
  OBVIOUS
<1>3. b \in Seq(S) /\ Len(b) = N + 1 /\ \A t \in 1..(N + 1) : b[t] = PartialPhase(t)
  <2>1. \A t \in 1..(N + 1) : PartialPhase(t) \in S
    OBVIOUS
  <2> HIDE DEF S
  <2> QED
    BY <1>1, <2>1
<1>4. c \in Seq(S) /\ Len(c) = N /\ \A t \in 1..N : c[t] = MaskingPhase(t)
  <2>1. \A t \in 1..N : MaskingPhase(t) \in S
    BY DEF TrusteeIds
  <2> HIDE DEF S
  <2> QED
    BY <1>1, <2>1 DEF TrusteeIds
<1>5. NameOrder = (a \o b) \o c
  BY DEF NameOrder
<1> HIDE DEF a, b, c, S, N
<1> DEFINE ab == a \o b
           s == ab \o c
<1>6. /\ ab \in Seq(S) /\ Len(ab) = N + 3
      /\ ab[1] = XPhase /\ ab[2] = YPhase
      /\ \A t \in 1..(N + 1) : ab[t + 2] = PartialPhase(t)
  <2>1. /\ ab \in Seq(S) /\ Len(ab) = Len(a) + Len(b)
        /\ \A i \in 1..(Len(a) + Len(b)) : ab[i] = IF i <= Len(a) THEN a[i] ELSE b[i - Len(a)]
    BY <1>2, <1>3, ConcatProperties
  <2> HIDE DEF ab
  <2>2. \A i \in 1..(N + 3) : ab[i] = IF i <= 2 THEN a[i] ELSE b[i - 2]
    BY <1>1, <1>2, <1>3, <2>1
  <2>3. ASSUME NEW t \in 1..(N + 1) PROVE ab[t + 2] = PartialPhase(t)
    <3>1. t + 2 \in 1..(N + 3) /\ ~(t + 2 <= 2) /\ (t + 2) - 2 = t
      BY <1>1
    <3> QED
      BY <1>3, <2>2, <3>1
  <2>4. 1 \in 1..(N + 3) /\ 2 \in 1..(N + 3) /\ 2 + (N + 1) = N + 3
    BY <1>1
  <2>5. ab[1] = a[1] /\ ab[2] = a[2]
    BY <2>2, <2>4
  <2> QED
    BY <1>2, <1>3, <2>1, <2>3, <2>4, <2>5
<1> HIDE DEF ab
<1>7. /\ s \in Seq(S) /\ Len(s) = N + 3 + N
      /\ \A i \in 1..(N + 3) : s[i] = ab[i]
      /\ \A t \in 1..N : s[t + (N + 3)] = MaskingPhase(t)
  <2>1. /\ s \in Seq(S) /\ Len(s) = Len(ab) + Len(c)
        /\ \A i \in 1..(Len(ab) + Len(c)) : s[i] = IF i <= Len(ab) THEN ab[i] ELSE c[i - Len(ab)]
    BY <1>4, <1>6, ConcatProperties
  <2> HIDE DEF s
  <2>2. \A i \in 1..(N + 3 + N) : s[i] = IF i <= N + 3 THEN ab[i] ELSE c[i - (N + 3)]
    BY <1>1, <1>4, <1>6, <2>1
  <2>3. ASSUME NEW t \in 1..N PROVE s[t + (N + 3)] = MaskingPhase(t)
    <3>1. t + (N + 3) \in 1..(N + 3 + N) /\ ~(t + (N + 3) <= N + 3) /\ (t + (N + 3)) - (N + 3) = t
      BY <1>1
    <3> QED
      BY <1>4, <2>2, <3>1
  <2>4. \A i \in 1..(N + 3) : i \in 1..(N + 3 + N) /\ i <= N + 3
    BY <1>1
  <2> QED
    BY <1>4, <1>6, <2>1, <2>2, <2>3, <2>4
<1>8. s = NameOrder
  BY <1>5 DEF ab
<1> HIDE DEF s
<1>9. /\ DOMAIN s = 1..(N + 3 + N) /\ \A i \in DOMAIN s : s[i] \in Names
  BY <1>1, <1>7, <1>8 DEF Names, ToSet
<1>10. s \in Seq(Names)
  BY <1>7, <1>9
<1>11. XPhase \in Names /\ YPhase \in Names
  <2>1. 1 \in 1..(N + 3) /\ 2 \in 1..(N + 3) /\ 1..(N + 3) \subseteq DOMAIN s
    BY <1>1, <1>9
  <2> QED
    BY <1>6, <1>7, <1>9, <2>1
<1>12. ASSUME NEW t \in TrusteeIds PROVE MaskingPhase(t) \in Names /\ PartialPhase(t) \in Names
  <2>1. /\ t \in 1..N /\ t \in 1..(N + 1) /\ t + 2 \in 1..(N + 3) /\ t + 2 \in DOMAIN s
        /\ t + (N + 3) \in DOMAIN s
    BY <1>1, <1>9 DEF TrusteeIds, N
  <2> QED
    BY <1>6, <1>7, <1>9, <2>1
<1> QED
  BY <1>8, <1>10, <1>11, <1>12

\* The names have different places in the order.
LEMMA NamesHavePlaces ==
  /\ \A n \in Names : NameIndex[n] \in Nat
  /\ \A n, m \in Names : NameIndex[n] = NameIndex[m] => n = m
<1>1. DOMAIN NameOrder \subseteq Nat
  BY NamesInOrder
<1>2. ASSUME NEW n \in Names
      PROVE  NameIndex[n] \in DOMAIN NameOrder /\ NameOrder[NameIndex[n]] = n
  <2>1. \E i \in DOMAIN NameOrder : NameOrder[i] = n
    BY DEF Names, ToSet
  <2>2. NameIndex[n] = CHOOSE i \in DOMAIN NameOrder : NameOrder[i] = n
    BY DEF NameIndex, Names
  <2> QED
    BY <2>1, <2>2
<1> QED
  BY <1>1, <1>2

LEMMA SessionsAreOrdered ==
  /\ \A s \in GateSessions : ~SessionBefore(s, s)
  /\ \A s, t, u \in GateSessions : SessionBefore(s, t) /\ SessionBefore(t, u) => SessionBefore(s, u)
  /\ \A s, t \in GateSessions : s # t => SessionBefore(s, t) \/ SessionBefore(t, s)
  BY DEF SessionBefore, GateSessions

\* Any places of keyed phases are strictly ordered.
LEMMA PlacesAreOrdered ==
  ASSUME NEW n \in Nat, NEW ps, DOMAIN ps = 1..n, Keyed(ps)
  PROVE  StrictOrder(1..n, PlacePairs(ps, 1..n))
<1> DEFINE P == 1..n
           s(i) == ps[i].key[1]
           m(i) == ps[i].key[2]
           x(i) == NameIndex[m(i)]
           B(i, j) == SessionBefore(s(i), s(j))
           K(i, j) == PlaceBefore(ps, i, j)
           R == PlacePairs(ps, 1..n)
<1>1. \A i \in P : s(i) \in GateSessions /\ m(i) \in Names /\ x(i) \in Nat /\ i \in Nat
  BY NamesHavePlaces DEF Keyed
<1>2. \A i, j \in P : ps[i].key = ps[j].key <=> s(i) = s(j) /\ m(i) = m(j)
  BY DEF Keyed
<1>3. \A i, j \in P : x(i) = x(j) <=> m(i) = m(j)
  BY <1>1, NamesHavePlaces
<1>4. \A i, j \in P : K(i, j) <=> \/ B(i, j)
                                  \/ s(i) = s(j) /\ x(i) < x(j)
                                  \/ s(i) = s(j) /\ x(i) = x(j) /\ i < j
  BY <1>2, <1>3 DEF PlaceBefore, PhaseBefore
<1>5. /\ \A i \in P : ~B(i, i)
      /\ \A i, j, k \in P : B(i, j) /\ B(j, k) => B(i, k)
      /\ \A i, j \in P : s(i) # s(j) => B(i, j) \/ B(j, i)
      /\ \A i, j, k \in P : s(i) = s(j) => (B(i, k) <=> B(j, k)) /\ (B(k, i) <=> B(k, j))
  BY <1>1, SessionsAreOrdered
<1>6. \A i, j \in P : <<i, j>> \in R <=> K(i, j)
  BY PlacesInPairs
<1> HIDE DEF B, K, s, x, R, m
<1>7. \A i \in P : ~K(i, i)
  BY <1>1, <1>4, <1>5
<1>8. ASSUME NEW i \in P, NEW j \in P, NEW k \in P, K(i, j), K(j, k) PROVE K(i, k)
  <2>1. x(i) \in Nat /\ x(j) \in Nat /\ x(k) \in Nat /\ i \in Nat /\ j \in Nat /\ k \in Nat
    BY <1>1
  <2>2. CASE B(i, j) \/ B(j, k)
    BY <1>4, <1>5, <1>8, <2>2
  <2>3. CASE ~(B(i, j) \/ B(j, k))
    <3>1. /\ s(i) = s(j) /\ (x(i) < x(j) \/ (x(i) = x(j) /\ i < j))
          /\ s(j) = s(k) /\ (x(j) < x(k) \/ (x(j) = x(k) /\ j < k))
      BY <1>4, <1>8, <2>3
    <3>2. s(i) = s(k) /\ (x(i) < x(k) \/ (x(i) = x(k) /\ i < k))
      BY <2>1, <3>1
    <3> QED
      BY <1>4, <3>2
  <2> QED
    BY <2>2, <2>3
<1>9. ASSUME NEW i \in P, NEW j \in P, i # j PROVE K(i, j) \/ K(j, i)
  <2>1. x(i) \in Nat /\ x(j) \in Nat /\ i \in Nat /\ j \in Nat
    BY <1>1
  <2>2. x(i) < x(j) \/ x(j) < x(i) \/ (x(i) = x(j) /\ (i < j \/ j < i))
    BY <1>9, <2>1
  <2> QED
    BY <1>4, <1>5, <2>2
<1> QED
  BY <1>6, <1>7, <1>8, <1>9 DEF StrictOrder, R

\* An export lists every phase once, in the order of the keys.
LEMMA ExportSorts ==
  ASSUME NEW n \in Nat, NEW ps, DOMAIN ps = 1..n, Keyed(ps)
  PROVE  \E order \in [1..n -> 1..n] :
           /\ order = InOrder(1..n, PlacePairs(ps, 1..n))
           /\ Export(ps) = [i \in 1..n |-> ps[order[i]]]
           /\ \A j \in 1..n : \E i \in 1..n : order[i] = j
           /\ \A i, j \in 1..n : i < j => PlaceBefore(ps, order[i], order[j])
<1> DEFINE R == PlacePairs(ps, 1..n)
           order == InOrder(1..n, R)
<1>1. IsFiniteSet(1..n) /\ Cardinality(1..n) = n
  BY FS_Interval
<1>2. Sorts(order, 1..n, R) /\ \A j \in 1..n : \E i \in 1..n : order[i] = j
  <2>1. StrictOrder(1..n, R)
    BY PlacesAreOrdered
  <2> DEFINE P == 1..n
  <2>2. IsFiniteSet(P) /\ StrictOrder(P, R)
    BY <1>1, <2>1
  <2> HIDE DEF P, R
  <2>3. Sorts(InOrder(P, R), P, R) /\ \A j \in P : \E i \in 1..Cardinality(P) : InOrder(P, R)[i] = j
    BY <2>2, InOrderSorts
  <2> QED
    BY <1>1, <2>3 DEF P
<1>3. Export(ps) = [i \in 1..n |-> ps[order[i]]]
  <2>1. Export(ps) = [i \in DOMAIN ps |-> ps[InOrder(DOMAIN ps, PlacePairs(ps, DOMAIN ps))[i]]]
    BY DEF Export
  <2> QED
    BY <2>1
<1>4. \A i, j : <<i, j>> \in R => PlaceBefore(ps, i, j)
  BY PlacesInPairs
<1> HIDE DEF R
<1>5. order \in [1..n -> 1..n] /\ \A i, j \in 1..n : i < j => <<order[i], order[j]>> \in R
  BY <1>1, <1>2 DEF Sorts
<1> HIDE DEF order
<1> QED
  BY <1>2, <1>3, <1>4, <1>5 DEF order, R

\* The records of gates, as they are decoded.
Authorizations == [session : Sessions, ciphertext : Ciphertexts]
NativeShares == [trustee : TrusteeIds, authorization : Authorizations, w : Field]
RerandomizationRecords ==
  [session : Sessions, input : Ciphertexts,
   vector : [TrusteeIds -> ContributionSet], output : Ciphertexts]
NativeRecords ==
  [maskingSession : Sessions, masking : [TrusteeIds -> MaskMessageSet],
   x : RerandomizationRecords, y : RerandomizationRecords,
   partialSession : Sessions, partials : [TrusteeIds -> NativeShares],
   openedSign : Signs, output : Ciphertexts]

Bases == ToSet(BaseSessions)

LEMMA BasesAreSessions ==
  /\ Bases \subseteq GateSessions /\ Base \in Bases
  /\ \A b \in Bases : \E i \in DOMAIN BaseSessions : BaseSessions[i] = b
<1>1. BaseSessions \in Seq(GateSessions) /\ Base \in ToSet(BaseSessions)
  BY SessionAssumption DEF GateSessions
<1>2. \A i \in DOMAIN BaseSessions : BaseSessions[i] \in GateSessions
  BY <1>1
<1> QED
  BY <1>1, <1>2 DEF ToSet, Bases

LEMMA SubSessionFields ==
  ASSUME NEW base \in GateSessions, NEW k \in Nat
  PROVE  /\ SubSession(base, k) \in GateSessions
         /\ SubSession(base, k).gate = base.gate
         /\ SubSession(base, k).invocation = 16 * base.invocation + k
<1>1. base.gate \in Nat /\ base.invocation \in Nat
  BY DEF GateSessions
<1>2. 16 * base.invocation + k \in Nat
  BY <1>1
<1> QED
  BY <1>2 DEF SubSession, GateSessions

\* The sessions are the four sub-sessions of each base, and these differ.
LEMMA SessionsAre ==
  /\ \A b \in Bases, k \in 0..3 : SubSession(b, k) \in Sessions
  /\ \A s \in Sessions : \E b \in Bases, k \in 0..3 : s = SubSession(b, k)
  /\ Sessions \subseteq GateSessions
  /\ \A b, c \in Bases, k, l \in 0..3 : SubSession(b, k) = SubSession(c, l) => b = c /\ k = l
<1>1. \A b : ToSet(SubSessions(b)) = {SubSession(b, k) : k \in 0..3}
  <2> TAKE b
  <2>1. SubSessions(b) = [i \in 1..4 |-> SubSession(b, i - 1)]
    BY DEF SubSessions
  <2>2. ToSet(SubSessions(b)) = {SubSession(b, i - 1) : i \in 1..4}
    BY <2>1 DEF ToSet
  <2>3. \A k \in 0..3 : k + 1 \in 1..4 /\ (k + 1) - 1 = k
    OBVIOUS
  <2>4. \A i \in 1..4 : i - 1 \in 0..3
    OBVIOUS
  <2> QED
    BY <2>2, <2>3, <2>4
<1>2. \A s : s \in Sessions <=> \E b \in Bases, k \in 0..3 : s = SubSession(b, k)
  BY <1>1 DEF Sessions, Bases
<1>3. ASSUME NEW b \in Bases, NEW k \in 0..3 PROVE SubSession(b, k) \in GateSessions
  BY BasesAreSessions, SubSessionFields
<1>4. ASSUME NEW b \in Bases, NEW c \in Bases, NEW k \in 0..3, NEW l \in 0..3,
             SubSession(b, k) = SubSession(c, l)
      PROVE  b = c /\ k = l
  <2>1. b \in GateSessions /\ c \in GateSessions /\ k \in Nat /\ l \in Nat
    BY BasesAreSessions
  <2>2. b.gate = c.gate /\ 16 * b.invocation + k = 16 * c.invocation + l
    BY <1>4, <2>1, SubSessionFields
  <2>3. b.invocation \in Nat /\ c.invocation \in Nat
    BY <2>1 DEF GateSessions
  <2>4. b.invocation = c.invocation /\ k = l
    BY <2>2, <2>3
  <2> QED
    BY <2>1, <2>2, <2>4 DEF GateSessions
<1> QED
  BY <1>2, <1>3, <1>4

LEMMA VectorsOfTrustees ==
  ASSUME NEW S, NEW v \in [TrusteeIds -> S]
  PROVE  v \in Seq(S) /\ Len(v) = Trustees /\ DOMAIN v = TrusteeIds
<1>1. Trustees \in Nat
  BY SetupAssumption
<1> QED
  BY <1>1 DEF TrusteeIds

\* What a gate masks is a pair, and so is what it has masked.
LEMMA PreviousTyped ==
  ASSUME InputsAreCiphertexts, NEW ms \in [TrusteeIds -> Pairs]
  PROVE  /\ \A t \in TrusteeIds : Previous(ms, t) \in Pairs
         /\ Masked(ms) = ms[Trustees] /\ Masked(ms) \in Pairs
<1>1. Trustees \in Nat /\ Trustees >= 2
  BY SetupAssumption
<1>2. InitialSignedSelector(inputY) \in Ciphertexts
  <2>1. -1 \in Int /\ 2 \in Int
    OBVIOUS
  <2>2. PublicValue(-1) \in Ciphertexts /\ ScaleCiphertext(inputY, 2) \in Ciphertexts
    BY <2>1, PublicPlaintext, PlaintextOfScaled DEF InputsAreCiphertexts
  <2> QED
    BY <2>2, AddIsCiphertext DEF InitialSignedSelector
<1>3. [X |-> inputX, Y |-> InitialSignedSelector(inputY)] \in Pairs
  BY <1>2 DEF InputsAreCiphertexts, Pairs
<1>4. \A t \in TrusteeIds : t # 1 => t - 1 \in TrusteeIds
  BY <1>1 DEF TrusteeIds
<1>5. Trustees + 1 # 1 /\ (Trustees + 1) - 1 = Trustees /\ Trustees \in TrusteeIds
  BY <1>1 DEF TrusteeIds
<1> QED
  BY <1>3, <1>4, <1>5 DEF Previous, Masked

\* Adding ciphertexts gives a ciphertext, and so does the gate's output.
LEMMA RerandomizedIsCiphertext ==
  ASSUME NEW c \in Ciphertexts, NEW zeros \in Seq(Ciphertexts)
  PROVE  Rerandomized(c, zeros) \in Ciphertexts
<1>1. PICK g \in [0..Len(zeros) -> Ciphertexts] : Rerandomized(c, zeros) = g[Len(zeros)]
  BY RerandomizationTurns
<1>2. Len(zeros) \in 0..Len(zeros)
  OBVIOUS
<1> QED
  BY <1>1, <1>2

LEMMA OutputIsCiphertext ==
  ASSUME InputsAreCiphertexts, NEW sign \in Signs, NEW xr \in Ciphertexts
  PROVE  GateOutput(inputX, sign, xr) \in Ciphertexts
<1> DEFINE a == ScaleCiphertext(xr, sign)
           b == AddCiphertexts(inputX, a)
<1>1. sign \in Int /\ InverseTwo \in Int
  BY SignsMultiply, TwoHasInverse
<1>2. b \in Ciphertexts
  BY <1>1, PlaintextOfScaled, AddIsCiphertext DEF InputsAreCiphertexts
<1>3. GateOutput(inputX, sign, xr) = ScaleCiphertext(b, InverseTwo)
  BY DEF GateOutput
<1> HIDE DEF b
<1> QED
  BY <1>1, <1>2, <1>3, PlaintextOfScaled

LEMMA RerandomizationRecordTyped ==
  ASSUME NEW session \in Sessions, NEW c \in Ciphertexts,
         NEW zeros \in [TrusteeIds -> Ciphertexts]
  PROVE  RerandomizationRecord(session, c, zeros) \in RerandomizationRecords
<1> DEFINE v == [t \in DOMAIN zeros |-> [session |-> session, input |-> c, contribution |-> zeros[t]]]
<1>1. v \in [TrusteeIds -> ContributionSet]
  BY DEF ContributionSet
<1>2. Rerandomized(c, zeros) \in Ciphertexts
  BY VectorsOfTrustees, RerandomizedIsCiphertext
<1>3. RerandomizationRecord(session, c, zeros)
        = [session |-> session, input |-> c, vector |-> v, output |-> Rerandomized(c, zeros)]
  BY DEF RerandomizationRecord
<1> HIDE DEF v
<1> QED
  BY <1>1, <1>2, <1>3 DEF RerandomizationRecords

LEMMA RecordTyped ==
  ASSUME InputsAreCiphertexts, NEW base \in Bases, NEW ms \in [TrusteeIds -> Pairs],
         NEW xs \in [TrusteeIds -> Ciphertexts], NEW ys \in [TrusteeIds -> Ciphertexts],
         NEW ws \in [TrusteeIds -> Field]
  PROVE  NativeRecord(base, ms, xs, ys, ws) \in NativeRecords
<1> DEFINE s(k) == SubSession(base, k)
           x == RerandomizationRecord(s(1), Masked(ms).X, xs)
           y == RerandomizationRecord(s(2), Masked(ms).Y, ys)
           sign == IF Combine(y.output, ws, Quorum) = 1 THEN 1 ELSE -1
           m == MaskMessages(s(0), ms)
           p == [t \in DOMAIN ws |->
                  AuthorizedShare(t, Authorization(s(3), y.output), ws[t])]
           o == GateOutput(inputX, sign, x.output)
<1>1. s(0) \in Sessions /\ s(1) \in Sessions /\ s(2) \in Sessions /\ s(3) \in Sessions
  BY SessionsAre
<1>2. Masked(ms).X \in Ciphertexts /\ Masked(ms).Y \in Ciphertexts
  BY PreviousTyped DEF Pairs
<1>3. x \in RerandomizationRecords /\ y \in RerandomizationRecords
  BY <1>1, <1>2, RerandomizationRecordTyped
<1>4. m \in [TrusteeIds -> MaskMessageSet]
  <2>1. \A t \in TrusteeIds : Previous(ms, t) \in Pairs /\ ms[t] \in Pairs
    BY PreviousTyped
  <2>2. s(0) \in Sessions
    BY <1>1
  <2>3. m = [t \in TrusteeIds |-> [session |-> s(0), previous |-> Previous(ms, t), next |-> ms[t]]]
    BY DEF MaskMessages
  <2> HIDE DEF s, m
  <2> QED
    BY <2>1, <2>2, <2>3 DEF MaskMessageSet, Pairs
<1>5. NativeRecord(base, ms, xs, ys, ws)
        = [maskingSession |-> s(0), masking |-> m, x |-> x, y |-> y, partialSession |-> s(3),
           partials |-> p, openedSign |-> sign, output |-> o]
  BY DEF NativeRecord
<1>6. sign \in Signs
  BY DEF Signs
<1> HIDE DEF s, x, y, m, sign
<1>7. x.output \in Ciphertexts /\ y.output \in Ciphertexts
  BY <1>3 DEF RerandomizationRecords
<1>8. p \in [TrusteeIds -> NativeShares]
  BY <1>1, <1>7 DEF AuthorizedShare, Authorization, NativeShares, Authorizations
<1>9. o \in Ciphertexts
  BY <1>6, <1>7, OutputIsCiphertext
<1> HIDE DEF p, o
<1> QED
  BY <1>1, <1>3, <1>4, <1>5, <1>6, <1>8, <1>9 DEF NativeRecords

LEMMA TypedDecodes == \A r \in NativeRecords : NativeDecodes(r)
<1> SUFFICES ASSUME NEW r \in NativeRecords PROVE NativeDecodes(r)
  OBVIOUS
<1>1. /\ r.masking \in [TrusteeIds -> MaskMessageSet]
      /\ r.x \in RerandomizationRecords /\ r.y \in RerandomizationRecords
  BY DEF NativeRecords
<1>2. \A t \in TrusteeIds : r.masking[t].next \in Pairs
  BY <1>1 DEF MaskMessageSet, Pairs
<1>3. \A v \in RerandomizationRecords : Contributions(v.vector)
  <2> SUFFICES ASSUME NEW v \in RerandomizationRecords PROVE Contributions(v.vector)
    OBVIOUS
  <2>1. v.vector \in [TrusteeIds -> ContributionSet]
    BY DEF RerandomizationRecords
  <2>2. v.vector \in Seq(ContributionSet)
    BY <2>1, VectorsOfTrustees
  <2>3. \A e \in ContributionSet : e.contribution \in Ciphertexts
    BY DEF ContributionSet
  <2> QED
    BY <2>2, <2>3 DEF Contributions
<1> QED
  BY <1>1, <1>2, <1>3 DEF NativeDecodes

\* Altered records are of the same type.
LEMMA AlteredTyped ==
  ASSUME InputsAreCiphertexts, NEW r \in NativeRecords
  PROVE  Altered(r) \subseteq NativeRecords
<1>1. /\ r.masking \in [TrusteeIds -> MaskMessageSet] /\ r.partials \in [TrusteeIds -> NativeShares]
      /\ r.x \in RerandomizationRecords /\ r.y \in RerandomizationRecords
      /\ r.openedSign \in Signs /\ r.output \in Ciphertexts
      /\ r.maskingSession \in Sessions /\ r.partialSession \in Sessions
      /\ r = [maskingSession |-> r.maskingSession, masking |-> r.masking, x |-> r.x, y |-> r.y,
              partialSession |-> r.partialSession, partials |-> r.partials,
              openedSign |-> r.openedSign, output |-> r.output]
  BY DEF NativeRecords
<1>2. \A s \in Signs : -s \in Signs
  BY DEF Signs
<1>3. ASSUME NEW c \in Ciphertexts
      PROVE  /\ [r EXCEPT !.output = c] \in NativeRecords
             /\ [r EXCEPT !.x.output = c] \in NativeRecords
             /\ [r EXCEPT !.y.output = c] \in NativeRecords
  <2>1. [r EXCEPT !.output = c] \in NativeRecords
    BY DEF NativeRecords
  <2>2. ASSUME NEW x \in RerandomizationRecords
        PROVE  [x EXCEPT !.output = c] \in RerandomizationRecords
    BY DEF RerandomizationRecords
  <2>3. [r.x EXCEPT !.output = c] \in RerandomizationRecords
        /\ [r.y EXCEPT !.output = c] \in RerandomizationRecords
    BY <1>1, <2>2
  <2>4. ASSUME NEW x \in RerandomizationRecords
        PROVE  [r EXCEPT !.x = x] \in NativeRecords /\ [r EXCEPT !.y = x] \in NativeRecords
    BY DEF NativeRecords
  <2>5. /\ [r EXCEPT !.x.output = c] = [r EXCEPT !.x = [r.x EXCEPT !.output = c]]
        /\ [r EXCEPT !.y.output = c] = [r EXCEPT !.y = [r.y EXCEPT !.output = c]]
    BY <1>1
  <2> QED
    BY <2>1, <2>3, <2>4, <2>5
<1>4. ASSUME NEW x \in RerandomizationRecords
      PROVE  [r EXCEPT !.x = x] \in NativeRecords /\ [r EXCEPT !.y = x] \in NativeRecords
  BY DEF NativeRecords
<1>5. [r EXCEPT !.openedSign = -@] \in NativeRecords
  BY <1>1, <1>2 DEF NativeRecords
<1>6. [[r EXCEPT !.openedSign = -@] EXCEPT !.output = GateOutput(inputX, -r.openedSign, r.x.output)]
        \in NativeRecords
  <2>1. r.x.output \in Ciphertexts /\ -r.openedSign \in Signs
    BY <1>1, <1>2 DEF RerandomizationRecords
  <2> DEFINE c == GateOutput(inputX, -r.openedSign, r.x.output)
             q == [r EXCEPT !.openedSign = -@]
  <2>2. c \in Ciphertexts
    BY <2>1, OutputIsCiphertext
  <2>3. q \in NativeRecords
    BY <1>5
  <2> HIDE DEF c, q
  <2>4. [q EXCEPT !.output = c] \in NativeRecords
    BY <2>2, <2>3 DEF NativeRecords
  <2> QED
    BY <2>4 DEF c, q
<1>7. [r EXCEPT !.masking = Reverse(@)] \in NativeRecords /\ [r EXCEPT !.partials = Reverse(@)] \in NativeRecords
  <2>1. ASSUME NEW S, NEW v \in [TrusteeIds -> S] PROVE Reverse(v) \in [TrusteeIds -> S]
    <3>1. Len(v) = Trustees /\ Trustees \in Nat
      BY VectorsOfTrustees, SetupAssumption
    <3>2. Reverse(v) = [i \in TrusteeIds |-> v[(Trustees - i) + 1]]
      BY <3>1 DEF Reverse, TrusteeIds
    <3>3. \A i \in TrusteeIds : (Trustees - i) + 1 \in TrusteeIds
      BY <3>1 DEF TrusteeIds
    <3> QED
      BY <3>2, <3>3
  <2>2. Reverse(r.masking) \in [TrusteeIds -> MaskMessageSet] /\ Reverse(r.partials) \in [TrusteeIds -> NativeShares]
    BY <1>1, <2>1
  <2>3. /\ \A v \in [TrusteeIds -> MaskMessageSet] : [r EXCEPT !.masking = v] \in NativeRecords
        /\ \A v \in [TrusteeIds -> NativeShares] : [r EXCEPT !.partials = v] \in NativeRecords
    BY DEF NativeRecords
  <2> QED
    BY <2>2, <2>3
<1>8. [[r EXCEPT !.x = r.y] EXCEPT !.y = r.x] \in NativeRecords
  <2> DEFINE q == [r EXCEPT !.x = r.y]
  <2>1. q \in NativeRecords
    BY <1>1, <1>4
  <2> HIDE DEF q
  <2>2. [q EXCEPT !.y = r.x] \in NativeRecords
    BY <1>1, <2>1 DEF NativeRecords
  <2> QED
    BY <2>2 DEF q
<1>9. [r EXCEPT !.x.vector = r.y.vector] \in NativeRecords /\ [r EXCEPT !.y.vector = r.x.vector] \in NativeRecords
  <2>1. r.x.vector \in [TrusteeIds -> ContributionSet] /\ r.y.vector \in [TrusteeIds -> ContributionSet]
    BY <1>1 DEF RerandomizationRecords
  <2>2. ASSUME NEW x \in RerandomizationRecords, NEW v \in [TrusteeIds -> ContributionSet]
        PROVE  [x EXCEPT !.vector = v] \in RerandomizationRecords
    BY DEF RerandomizationRecords
  <2>3. [r.x EXCEPT !.vector = r.y.vector] \in RerandomizationRecords
        /\ [r.y EXCEPT !.vector = r.x.vector] \in RerandomizationRecords
    BY <1>1, <2>1, <2>2
  <2>4. /\ [r EXCEPT !.x.vector = r.y.vector] = [r EXCEPT !.x = [r.x EXCEPT !.vector = r.y.vector]]
        /\ [r EXCEPT !.y.vector = r.x.vector] = [r EXCEPT !.y = [r.y EXCEPT !.vector = r.x.vector]]
    BY <1>1
  <2> QED
    BY <1>4, <2>3, <2>4
<1>10. ASSUME NEW w \in Field PROVE [r EXCEPT !.partials[1].w = w] \in NativeRecords
  <2>1. 1 \in TrusteeIds /\ r.partials[1] \in NativeShares
    BY <1>1, SetupAssumption DEF TrusteeIds
  <2> DEFINE e == [r.partials[1] EXCEPT !.w = w]
             v == [r.partials EXCEPT ![1] = e]
  <2>2. e \in NativeShares
    BY <2>1 DEF NativeShares
  <2>3. v \in [TrusteeIds -> NativeShares]
    <3> HIDE DEF e
    <3> QED
      BY <1>1, <2>2
  <2>4. [r EXCEPT !.partials[1].w = w] = [r EXCEPT !.partials = v]
    BY <1>1
  <2> HIDE DEF v
  <2>5. [r EXCEPT !.partials = v] \in NativeRecords
    BY <2>3 DEF NativeRecords
  <2> QED
    BY <2>4, <2>5
<1> DEFINE a == {[r EXCEPT !.output = c] : c \in Ciphertexts}
           b == {[r EXCEPT !.openedSign = -@]}
           c == {[[r EXCEPT !.openedSign = -@] EXCEPT !.output = GateOutput(inputX, -r.openedSign, r.x.output)]}
           d == {[r EXCEPT !.masking = Reverse(@)], [r EXCEPT !.partials = Reverse(@)]}
           e == {[[r EXCEPT !.x = r.y] EXCEPT !.y = r.x], [r EXCEPT !.y = r.x], [r EXCEPT !.x = r.y]}
           f == {[r EXCEPT !.x.vector = r.y.vector], [r EXCEPT !.y.vector = r.x.vector]}
           g == {[r EXCEPT !.x.output = z] : z \in Ciphertexts}
           h == {[r EXCEPT !.y.output = z] : z \in Ciphertexts}
           i == {[r EXCEPT !.partials[1].w = w] : w \in Field}
<1>11. a \subseteq NativeRecords /\ g \subseteq NativeRecords /\ h \subseteq NativeRecords
  BY <1>3, Zenon
<1>12. b \subseteq NativeRecords /\ c \subseteq NativeRecords /\ d \subseteq NativeRecords
  BY <1>5, <1>6, <1>7, Zenon
<1>13. e \subseteq NativeRecords /\ f \subseteq NativeRecords /\ i \subseteq NativeRecords
  BY <1>1, <1>4, <1>8, <1>9, <1>10, Zenon
<1>14. Altered(r) = a \cup b \cup c \cup d \cup e \cup f \cup g \cup h \cup i
  BY Zenon DEF Altered
<1> HIDE DEF a, b, c, d, e, f, g, h, i
<1> QED
  BY <1>11, <1>12, <1>13, <1>14, Zenon

\* The vectors of a gate that has opened or failed to are complete.
LEMMA CompleteVectors ==
  ASSUME GateInv, SharesComplete
  PROVE  /\ masks \in [TrusteeIds -> Pairs]
         /\ xZeros \in [TrusteeIds -> Ciphertexts] /\ yZeros \in [TrusteeIds -> Ciphertexts]
         /\ partials \in [TrusteeIds -> Field]
<1>1. TypeOK /\ PhasesInOrder
  BY DEF GateInv
<1>2. /\ masks \in Seq(Pairs) /\ xZeros \in Seq(Ciphertexts) /\ yZeros \in Seq(Ciphertexts)
      /\ partials \in Seq(Field)
  BY <1>1 DEF TypeOK, Vectors, Pairs
<1>3. Trustees \in Nat /\ Trustees >= 2 /\ Len(partials) = Trustees
  BY SetupAssumption DEF SharesComplete
<1>4. /\ Len(masks) = Trustees /\ Len(xZeros) = Trustees /\ Len(yZeros) = Trustees
  <2>1. partials # <<>>
    BY <1>2, <1>3
  <2>2. Len(yZeros) = Trustees
    BY <1>1, <2>1 DEF PhasesInOrder
  <2>3. yZeros # <<>>
    BY <1>2, <1>3, <2>2
  <2>4. Len(xZeros) = Trustees
    BY <1>1, <2>3 DEF PhasesInOrder
  <2>5. xZeros # <<>>
    BY <1>2, <1>3, <2>4
  <2> QED
    BY <1>1, <2>2, <2>4, <2>5 DEF PhasesInOrder, MasksComplete
<1> QED
  BY <1>2, <1>3, <1>4 DEF TrusteeIds

LEMMA SharesTyped ==
  ASSUME NEW ys \in [TrusteeIds -> Ciphertexts], NEW m \in Ciphertexts
  PROVE  SharesOf(ys, m) \in [TrusteeIds -> Field]
<1>1. Rerandomized(m, ys) \in Ciphertexts
  BY VectorsOfTrustees, RerandomizedIsCiphertext
<1>2. \A t \in TrusteeIds : PartialDecryption(t, Rerandomized(m, ys)) \in Field
  <2> HIDE DEF Ciphertexts, Field
  <2>1. \A t \in TrusteeIds : t \in Int
    BY SetupAssumption DEF TrusteeIds
  <2> QED
    BY <1>1, <2>1, ShareIsScalar
<1> QED
  BY <1>2 DEF SharesOf

LEMMA ForgedTyped ==
  ASSUME GateInv, SharesComplete
  PROVE  /\ GateRecord(Base) \in NativeRecords
         /\ Forged \subseteq NativeRecords
<1> DEFINE masked(ms) == Masked(ms).Y
           honest == SharesOf(yZeros, masked(masks))
           M(c, d) == [masks EXCEPT ![Trustees] = [X |-> c, Y |-> d]]
           Y(t, c) == [yZeros EXCEPT ![t] = c]
           a(c, d) == NativeRecord(Base, M(c, d), xZeros, yZeros, SharesOf(yZeros, d))
           b(t, c) == NativeRecord(Base, masks, [xZeros EXCEPT ![t] = c], yZeros, honest)
           e(t, c) == NativeRecord(Base, masks, xZeros, Y(t, c), SharesOf(Y(t, c), masked(masks)))
           f(t, w) == NativeRecord(Base, masks, xZeros, yZeros, [honest EXCEPT ![t] = w])
           A == {a(c, d) : c, d \in Ciphertexts}
           B == {b(t, c) : t \in TrusteeIds, c \in Ciphertexts}
           C == {e(t, c) : t \in TrusteeIds, c \in Ciphertexts}
           D == {f(t, w) : t \in TrusteeIds, w \in Field}
<1>1. /\ masks \in [TrusteeIds -> Pairs]
      /\ xZeros \in [TrusteeIds -> Ciphertexts] /\ yZeros \in [TrusteeIds -> Ciphertexts]
      /\ partials \in [TrusteeIds -> Field]
  BY CompleteVectors
<1>2. InputsAreCiphertexts /\ Base \in Bases
  BY InputsDecode, BasesAreSessions
<1>3. masked(masks) \in Ciphertexts
  BY <1>1, <1>2, PreviousTyped DEF Pairs
<1>4. GateRecord(Base) \in NativeRecords
  BY <1>1, <1>2, RecordTyped DEF GateRecord
<1>5. Forged = A \cup B \cup C \cup D
  BY DEF Forged
<1> HIDE DEF masked
<1>6. honest \in [TrusteeIds -> Field]
  BY <1>1, <1>3, SharesTyped
<1>7. ASSUME NEW c \in Ciphertexts, NEW d \in Ciphertexts
      PROVE  a(c, d) \in NativeRecords
  <2>1. [X |-> c, Y |-> d] \in Pairs
    BY DEF Pairs
  <2>2. M(c, d) \in [TrusteeIds -> Pairs]
    <3> HIDE DEF Ciphertexts, Pairs
    <3> QED
      BY <1>1, <2>1
  <2>3. SharesOf(yZeros, d) \in [TrusteeIds -> Field]
    BY <1>1, SharesTyped
  <2> HIDE DEF M
  <2> QED
    BY <1>1, <1>2, <2>2, <2>3, RecordTyped
<1> HIDE DEF honest
<1>8. ASSUME NEW t \in TrusteeIds, NEW c \in Ciphertexts
      PROVE  b(t, c) \in NativeRecords /\ e(t, c) \in NativeRecords
  <2> DEFINE x == [xZeros EXCEPT ![t] = c]
  <2>1. x \in [TrusteeIds -> Ciphertexts] /\ Y(t, c) \in [TrusteeIds -> Ciphertexts]
    BY <1>1
  <2> HIDE DEF x, Y
  <2>2. SharesOf(Y(t, c), masked(masks)) \in [TrusteeIds -> Field]
    BY <1>3, <2>1, SharesTyped
  <2>3. NativeRecord(Base, masks, x, yZeros, honest) \in NativeRecords
    BY <1>1, <1>2, <1>6, <2>1, RecordTyped
  <2>4. NativeRecord(Base, masks, xZeros, Y(t, c), SharesOf(Y(t, c), masked(masks))) \in NativeRecords
    BY <1>1, <1>2, <2>1, <2>2, RecordTyped
  <2> QED
    BY <2>3, <2>4 DEF x
<1>9. ASSUME NEW t \in TrusteeIds, NEW w \in Field
      PROVE  f(t, w) \in NativeRecords
  <2> DEFINE z == [honest EXCEPT ![t] = w]
  <2>1. z \in [TrusteeIds -> Field]
    <3> HIDE DEF Field
    <3> QED
      BY <1>6
  <2> HIDE DEF z
  <2>2. NativeRecord(Base, masks, xZeros, yZeros, z) \in NativeRecords
    BY <1>1, <1>2, <2>1, RecordTyped
  <2> QED
    BY <2>2 DEF z
<1> HIDE DEF a, b, e, f
<1>10. A \subseteq NativeRecords
  BY ONLY <1>7
<1>11. B \subseteq NativeRecords /\ C \subseteq NativeRecords
  BY ONLY <1>8
<1>12. D \subseteq NativeRecords
  BY ONLY <1>9
<1> HIDE DEF A, B, C, D
<1> QED
  BY <1>4, <1>5, <1>10, <1>11, <1>12, Zenon

-----------------------------------------------------------------------------
(* The phases of a record.                                                  *)

MaskPhase(r, t) ==
  SealedPhase(r.maskingSession, MaskingPhase(t), IF t = 1 THEN NoPhase ELSE MaskingPhase(t - 1),
              <<t>>, <<r.masking[t]>>)
XVector(r) == SealedPhase(r.x.session, XPhase, NoPhase, AllTrustees, r.x.vector)
YVector(r) == SealedPhase(r.y.session, YPhase, NoPhase, AllTrustees, r.y.vector)
SharePhase(r, t) ==
  SealedPhase(r.partialSession, PartialPhase(t), NoPhase, <<t>>, <<ShareMessage(r, t)>>)

GatePhases(r) ==
  {MaskPhase(r, t) : t \in TrusteeIds} \cup {XVector(r), YVector(r)}
  \cup {SharePhase(r, t) : t \in TrusteeIds}

LEMMA PhasesOfGate ==
  ASSUME NEW r
  PROVE  /\ PhasesBeforeShares(r) \in Seq(GatePhases(r)) /\ Len(PhasesBeforeShares(r)) = Trustees + 2
         /\ \A t \in TrusteeIds : PhasesBeforeShares(r)[t] = MaskPhase(r, t)
         /\ PhasesBeforeShares(r)[Trustees + 1] = XVector(r)
         /\ PhasesBeforeShares(r)[Trustees + 2] = YVector(r)
         /\ SharePhases(r) \in Seq(GatePhases(r)) /\ Len(SharePhases(r)) = Trustees
         /\ \A t \in TrusteeIds : SharePhases(r)[t] = SharePhase(r, t)
<1> DEFINE S == GatePhases(r)
           a == [t \in TrusteeIds |-> MaskPhase(r, t)]
           b == <<XVector(r), YVector(r)>>
           c == [t \in TrusteeIds |-> SharePhase(r, t)]
           N == Trustees
<1>1. N \in Nat
  BY SetupAssumption
<1>2. PhasesBeforeShares(r) = a \o b /\ SharePhases(r) = c
  BY Zenon DEF PhasesBeforeShares, SharePhases, MaskPhase, XVector, YVector, SharePhase
<1>3. a \in [TrusteeIds -> S] /\ c \in [TrusteeIds -> S] /\ XVector(r) \in S /\ YVector(r) \in S
  <2>1. \A t \in TrusteeIds : MaskPhase(r, t) \in S /\ SharePhase(r, t) \in S
    BY DEF GatePhases
  <2>2. XVector(r) \in S /\ YVector(r) \in S
    BY DEF GatePhases
  <2> HIDE DEF S
  <2> QED
    BY <2>1, <2>2
<1>4. /\ \A t \in TrusteeIds : a[t] = MaskPhase(r, t) /\ c[t] = SharePhase(r, t)
  OBVIOUS
<1> HIDE DEF S, a, c
<1>5. a \in Seq(S) /\ Len(a) = N /\ c \in Seq(S) /\ Len(c) = N
  BY <1>3, VectorsOfTrustees
<1>6. b \in Seq(S) /\ Len(b) = 2 /\ b[1] = XVector(r) /\ b[2] = YVector(r)
  BY <1>3
<1> HIDE DEF b
<1> DEFINE s == a \o b
<1>7. /\ s \in Seq(S) /\ Len(s) = Len(a) + Len(b)
      /\ \A i \in 1..(Len(a) + Len(b)) : s[i] = IF i <= Len(a) THEN a[i] ELSE b[i - Len(a)]
  BY <1>5, <1>6, ConcatProperties
<1> HIDE DEF s
<1>8. \A i \in 1..(N + 2) : s[i] = IF i <= N THEN a[i] ELSE b[i - N]
  BY <1>5, <1>6, <1>7
<1>9. /\ N + 1 \in 1..(N + 2) /\ ~(N + 1 <= N) /\ (N + 1) - N = 1
      /\ N + 2 \in 1..(N + 2) /\ ~(N + 2 <= N) /\ (N + 2) - N = 2
      /\ \A t \in TrusteeIds : t \in 1..(N + 2) /\ t <= N
  BY <1>1 DEF TrusteeIds
<1>10. s[N + 1] = XVector(r) /\ s[N + 2] = YVector(r) /\ \A t \in TrusteeIds : s[t] = MaskPhase(r, t)
  BY <1>4, <1>6, <1>8, <1>9
<1> QED
  BY <1>2, <1>4, <1>5, <1>6, <1>7, <1>10 DEF S, s

LEMMA PhasesAreKeyed ==
  ASSUME NEW r \in NativeRecords
  PROVE  \A p \in GatePhases(r) : p.key \in GateSessions \X Names
<1>1. /\ r.maskingSession \in GateSessions /\ r.partialSession \in GateSessions
      /\ r.x.session \in GateSessions /\ r.y.session \in GateSessions
  BY SessionsAre DEF NativeRecords, RerandomizationRecords
<1>2. \A t \in TrusteeIds : MaskPhase(r, t).key = <<r.maskingSession, MaskingPhase(t)>>
                            /\ SharePhase(r, t).key = <<r.partialSession, PartialPhase(t)>>
  BY DEF MaskPhase, SharePhase, SealedPhase
<1>3. XVector(r).key = <<r.x.session, XPhase>> /\ YVector(r).key = <<r.y.session, YPhase>>
  BY DEF XVector, YVector, SealedPhase
<1>4. \A t \in TrusteeIds : MaskPhase(r, t).key \in GateSessions \X Names
                            /\ SharePhase(r, t).key \in GateSessions \X Names
  <2>1. \A t \in TrusteeIds : MaskingPhase(t) \in Names /\ PartialPhase(t) \in Names
    BY NamesInOrder
  <2>2. ASSUME NEW t \in TrusteeIds
        PROVE  MaskPhase(r, t).key \in GateSessions \X Names /\ SharePhase(r, t).key \in GateSessions \X Names
    <3>1. MaskingPhase(t) \in Names /\ PartialPhase(t) \in Names
      BY <2>1
    <3>2. /\ <<r.maskingSession, MaskingPhase(t)>> \in GateSessions \X Names
          /\ <<r.partialSession, PartialPhase(t)>> \in GateSessions \X Names
      BY ONLY <1>1, <3>1
    <3> QED
      BY ONLY <1>2, <3>2
  <2> QED
    BY <2>2
<1>5. XVector(r).key \in GateSessions \X Names /\ YVector(r).key \in GateSessions \X Names
  BY <1>1, <1>3, NamesInOrder
<1> QED
  BY <1>4, <1>5 DEF GatePhases

LEMMA ExportedPhases ==
  ASSUME NEW S, NEW ps \in Seq(S), \A p \in S : p.key \in GateSessions \X Names
  PROVE  /\ Export(ps) \in Seq(S) /\ Len(Export(ps)) = Len(ps)
         /\ \A j \in 1..Len(ps) : \E i \in 1..Len(ps) : Export(ps)[i] = ps[j]
<1> DEFINE n == Len(ps)
<1>1. n \in Nat /\ DOMAIN ps = 1..n /\ \A i \in 1..n : ps[i] \in S
  OBVIOUS
<1>2. Keyed(ps)
  BY <1>1 DEF Keyed
<1> HIDE DEF n
<1>3. PICK order \in [1..n -> 1..n] :
        /\ Export(ps) = [i \in 1..n |-> ps[order[i]]]
        /\ \A j \in 1..n : \E i \in 1..n : order[i] = j
  <2>1. \E order \in [1..n -> 1..n] :
          /\ order = InOrder(1..n, PlacePairs(ps, 1..n))
          /\ Export(ps) = [i \in 1..n |-> ps[order[i]]]
          /\ \A j \in 1..n : \E i \in 1..n : order[i] = j
          /\ \A i, j \in 1..n : i < j => PlaceBefore(ps, order[i], order[j])
    BY <1>1, <1>2, ExportSorts
  <2> QED
    BY <2>1
<1>4. Export(ps) \in [1..n -> S] /\ \A i \in 1..n : Export(ps)[i] = ps[order[i]]
  BY <1>1, <1>3
<1>5. Export(ps) \in Seq(S) /\ Len(Export(ps)) = n
  BY <1>1, <1>4
<1> QED
  BY <1>3, <1>4, <1>5 DEF n

LEMMA NamesDiffer ==
  /\ XPhase # YPhase
  /\ \A t, u : /\ MaskingPhase(t) # XPhase /\ MaskingPhase(t) # YPhase
               /\ PartialPhase(t) # XPhase /\ PartialPhase(t) # YPhase
               /\ MaskingPhase(t) # PartialPhase(u)
               /\ MaskingPhase(t) = MaskingPhase(u) => t = u
               /\ PartialPhase(t) = PartialPhase(u) => t = u
  BY DEF XPhase, YPhase, MaskingPhase, PartialPhase

\* What a sealed phase lists.
Listed(p) == [j \in DOMAIN p.submissions |-> p.submissions[j].payload]

IsSealed(p, session, name, dependsOn, required, messages) ==
  /\ p.key = <<session, name>> /\ p.key[2] = name /\ p.status = "SEALED"
  /\ p.dependsOn = dependsOn /\ p.required = required
  /\ p.submissions = [i \in DOMAIN required |-> [trustee |-> required[i], payload |-> messages[i]]]
  /\ Listed(p) = [j \in DOMAIN required |-> messages[j]]

LEMMA SealedPhaseIs ==
  ASSUME NEW session, NEW name, NEW dependsOn, NEW required, NEW messages,
         NEW p, p = SealedPhase(session, name, dependsOn, required, messages)
  PROVE  IsSealed(p, session, name, dependsOn, required, messages)
<1>1. /\ p.key = <<session, name>> /\ p.status = "SEALED"
      /\ p.dependsOn = dependsOn /\ p.required = required
      /\ p.submissions = [i \in DOMAIN required |-> [trustee |-> required[i], payload |-> messages[i]]]
  BY DEF SealedPhase
<1>2. Listed(p) = [j \in DOMAIN required |-> messages[j]]
  BY <1>1 DEF Listed
<1> QED
  BY <1>1, <1>2 DEF IsSealed

LEMMA FieldsOfPhases ==
  ASSUME NEW r
  PROVE  /\ \A t : /\ MaskPhase(r, t).key = <<r.maskingSession, MaskingPhase(t)>>
                   /\ MaskPhase(r, t).key[2] = MaskingPhase(t)
                   /\ Listed(MaskPhase(r, t)) = <<r.masking[t]>>
                   /\ SharePhase(r, t).key = <<r.partialSession, PartialPhase(t)>>
                   /\ SharePhase(r, t).key[2] = PartialPhase(t)
                   /\ Listed(SharePhase(r, t)) = <<ShareMessage(r, t)>>
         /\ XVector(r).key = <<r.x.session, XPhase>> /\ XVector(r).key[2] = XPhase
         /\ YVector(r).key = <<r.y.session, YPhase>> /\ YVector(r).key[2] = YPhase
         /\ Listed(XVector(r)) = [j \in TrusteeIds |-> r.x.vector[j]]
         /\ Listed(YVector(r)) = [j \in TrusteeIds |-> r.y.vector[j]]
<1>1. ASSUME NEW t
      PROVE  /\ MaskPhase(r, t).key = <<r.maskingSession, MaskingPhase(t)>>
             /\ MaskPhase(r, t).key[2] = MaskingPhase(t)
             /\ Listed(MaskPhase(r, t)) = <<r.masking[t]>>
  <2> DEFINE d == IF t = 1 THEN NoPhase ELSE MaskingPhase(t - 1)
             m == <<r.masking[t]>>
             q == <<t>>
             p == MaskPhase(r, t)
  <2>1. p = SealedPhase(r.maskingSession, MaskingPhase(t), d, q, m)
    BY DEF MaskPhase
  <2>2. [j \in DOMAIN q |-> m[j]] = m
    OBVIOUS
  <2> HIDE DEF d, m, q, p
  <2>3. IsSealed(p, r.maskingSession, MaskingPhase(t), d, q, m)
    BY <2>1, SealedPhaseIs
  <2>4. /\ p.key = <<r.maskingSession, MaskingPhase(t)>> /\ p.key[2] = MaskingPhase(t)
        /\ Listed(p) = [j \in DOMAIN q |-> m[j]]
    BY <2>3 DEF IsSealed
  <2> QED
    BY <2>2, <2>4 DEF m, p
<1>2. ASSUME NEW t
      PROVE  /\ SharePhase(r, t).key = <<r.partialSession, PartialPhase(t)>>
             /\ SharePhase(r, t).key[2] = PartialPhase(t)
             /\ Listed(SharePhase(r, t)) = <<ShareMessage(r, t)>>
  <2> DEFINE m == <<ShareMessage(r, t)>>
             q == <<t>>
             p == SharePhase(r, t)
  <2>1. p = SealedPhase(r.partialSession, PartialPhase(t), NoPhase, q, m)
    BY DEF SharePhase
  <2>2. [j \in DOMAIN q |-> m[j]] = m
    OBVIOUS
  <2> HIDE DEF m, q, p
  <2>3. IsSealed(p, r.partialSession, PartialPhase(t), NoPhase, q, m)
    BY <2>1, SealedPhaseIs
  <2>4. /\ p.key = <<r.partialSession, PartialPhase(t)>> /\ p.key[2] = PartialPhase(t)
        /\ Listed(p) = [j \in DOMAIN q |-> m[j]]
    BY <2>3 DEF IsSealed
  <2> QED
    BY <2>2, <2>4 DEF m, p
<1>3. DOMAIN AllTrustees = TrusteeIds
  BY DEF AllTrustees
<1>4. /\ XVector(r).key = <<r.x.session, XPhase>> /\ XVector(r).key[2] = XPhase
      /\ Listed(XVector(r)) = [j \in TrusteeIds |-> r.x.vector[j]]
  <2> DEFINE p == XVector(r)
             m == r.x.vector
  <2>1. p = SealedPhase(r.x.session, XPhase, NoPhase, AllTrustees, m)
    BY DEF XVector
  <2> HIDE DEF p, m
  <2>2. IsSealed(p, r.x.session, XPhase, NoPhase, AllTrustees, m)
    BY <2>1, SealedPhaseIs
  <2>3. /\ p.key = <<r.x.session, XPhase>> /\ p.key[2] = XPhase
        /\ Listed(p) = [j \in DOMAIN AllTrustees |-> m[j]]
    BY <2>2 DEF IsSealed
  <2> QED
    BY <1>3, <2>3 DEF p, m
<1>5. /\ YVector(r).key = <<r.y.session, YPhase>> /\ YVector(r).key[2] = YPhase
      /\ Listed(YVector(r)) = [j \in TrusteeIds |-> r.y.vector[j]]
  <2> DEFINE p == YVector(r)
             m == r.y.vector
  <2>1. p = SealedPhase(r.y.session, YPhase, NoPhase, AllTrustees, m)
    BY DEF YVector
  <2> HIDE DEF p, m
  <2>2. IsSealed(p, r.y.session, YPhase, NoPhase, AllTrustees, m)
    BY <2>1, SealedPhaseIs
  <2>3. /\ p.key = <<r.y.session, YPhase>> /\ p.key[2] = YPhase
        /\ Listed(p) = [j \in DOMAIN AllTrustees |-> m[j]]
    BY <2>2 DEF IsSealed
  <2> QED
    BY <1>3, <2>3 DEF p, m
<1> QED
  BY <1>1, <1>2, <1>4, <1>5

\* The name of a phase tells which of the gate's phases it is.
LEMMA PhaseOfName ==
  ASSUME NEW r, NEW p \in GatePhases(r)
  PROVE  /\ \A t \in TrusteeIds : /\ p.key[2] = MaskingPhase(t) => p = MaskPhase(r, t)
                                  /\ p.key[2] = PartialPhase(t) => p = SharePhase(r, t)
         /\ p.key[2] = XPhase => p = XVector(r)
         /\ p.key[2] = YPhase => p = YVector(r)
<1>1. /\ \A t : MaskPhase(r, t).key[2] = MaskingPhase(t) /\ SharePhase(r, t).key[2] = PartialPhase(t)
      /\ XVector(r).key[2] = XPhase /\ YVector(r).key[2] = YPhase
  BY FieldsOfPhases
<1>2. CASE \E t \in TrusteeIds : p = MaskPhase(r, t)
  BY <1>1, <1>2, NamesDiffer
<1>3. CASE \E t \in TrusteeIds : p = SharePhase(r, t)
  BY <1>1, <1>3, NamesDiffer
<1>4. CASE p = XVector(r) \/ p = YVector(r)
  BY <1>1, <1>4, NamesDiffer
<1> QED
  BY <1>2, <1>3, <1>4 DEF GatePhases

\* The messages under a name, of a board of the phases of one gate.
LEMMA VectorsOnBoard ==
  ASSUME NEW r, NEW board \in Seq(GatePhases(r)), NEW session, NEW name,
         HasVector(board, session, name)
  PROVE  \E p \in GatePhases(r) :
           /\ p.key[2] = name
           /\ VectorFor(board, session, name) = Listed(p)
<1> DEFINE i == CHOOSE k \in DOMAIN board : board[k].key = <<session, name>>
           p == board[i]
<1>1. i \in DOMAIN board /\ p.key = <<session, name>>
  BY DEF HasVector
<1>2. VectorFor(board, session, name) = Listed(p)
  BY DEF VectorFor, Listed
<1> HIDE DEF i
<1>3. p \in GatePhases(r)
  BY <1>1
<1> HIDE DEF p
<1>4. p.key[2] = name
  BY <1>1
<1> QED
  BY <1>2, <1>3, <1>4

\* What is read from the board of an adapted record is what the record holds.
LEMMA AdaptedVectors ==
  ASSUME NEW r \in NativeRecords, OnBoard(Adapted(r, <<>>))
  PROVE  LET q == Adapted(r, <<>>)
         IN /\ \A t \in TrusteeIds : Masks(q)[t] = r.masking[t]
            /\ VectorFor(q.board, q.x.session, XPhase) = r.x.vector
            /\ VectorFor(q.board, q.y.session, YPhase) = r.y.vector
<1> DEFINE q == Adapted(r, <<>>)
           S == GatePhases(r)
           a == PhasesBeforeShares(r)
           b == SharePhases(r)
           board == q.board
<1>1. a \in Seq(S) /\ b \in Seq(S) /\ \A p \in S : p.key \in GateSessions \X Names
  BY PhasesOfGate, PhasesAreKeyed
<1>2. board = Export((<<>> \o a) \o b)
  BY DEF Adapted
<1>3. board \in Seq(S)
  <2> HIDE DEF S, a, b, board
  <2>1. <<>> \o a = a
    BY <1>1
  <2>2. a \o b \in Seq(S)
    BY <1>1, ConcatProperties
  <2>3. Export(a \o b) \in Seq(S)
    BY <1>1, <2>2, ExportedPhases
  <2> QED
    BY <1>2, <2>1, <2>3
<1>4. /\ \A t \in TrusteeIds : HasVector(board, q.maskingSession, MaskingPhase(t))
      /\ HasVector(board, q.x.session, XPhase) /\ HasVector(board, q.y.session, YPhase)
  BY DEF OnBoard
<1> HIDE DEF board, S, q
<1>5. ASSUME NEW session, NEW name, HasVector(board, session, name)
      PROVE  \E p \in S : p.key[2] = name /\ VectorFor(board, session, name) = Listed(p)
  BY <1>3, <1>5, VectorsOnBoard DEF S
<1>6. ASSUME NEW t \in TrusteeIds
      PROVE  VectorFor(board, q.maskingSession, MaskingPhase(t))[1] = r.masking[t]
  <2>1. PICK p \in S : p.key[2] = MaskingPhase(t)
                       /\ VectorFor(board, q.maskingSession, MaskingPhase(t)) = Listed(p)
    BY <1>4, <1>5
  <2>2. p = MaskPhase(r, t)
    BY <2>1, PhaseOfName DEF S
  <2>3. Listed(p) = <<r.masking[t]>>
    BY <2>2, FieldsOfPhases
  <2>4. Listed(p)[1] = r.masking[t]
    BY <2>3
  <2> QED
    BY <2>1, <2>4
<1>7. ASSUME NEW v \in [TrusteeIds -> ContributionSet]
      PROVE  [j \in TrusteeIds |-> v[j]] = v
  OBVIOUS
<1>8. r.x.vector \in [TrusteeIds -> ContributionSet] /\ r.y.vector \in [TrusteeIds -> ContributionSet]
  BY DEF NativeRecords, RerandomizationRecords
<1>9. VectorFor(board, q.x.session, XPhase) = r.x.vector
  <2>1. PICK p \in S : p.key[2] = XPhase /\ VectorFor(board, q.x.session, XPhase) = Listed(p)
    BY <1>4, <1>5
  <2>2. p = XVector(r)
    BY <2>1, PhaseOfName DEF S
  <2>3. Listed(p) = [j \in TrusteeIds |-> r.x.vector[j]]
    BY <2>2, FieldsOfPhases
  <2> QED
    BY <1>7, <1>8, <2>1, <2>3
<1>10. VectorFor(board, q.y.session, YPhase) = r.y.vector
  <2>1. PICK p \in S : p.key[2] = YPhase /\ VectorFor(board, q.y.session, YPhase) = Listed(p)
    BY <1>4, <1>5
  <2>2. p = YVector(r)
    BY <2>1, PhaseOfName DEF S
  <2>3. Listed(p) = [j \in TrusteeIds |-> r.y.vector[j]]
    BY <2>2, FieldsOfPhases
  <2> QED
    BY <1>7, <1>8, <2>1, <2>3
<1>11. \A t \in TrusteeIds : Masks(q)[t] = VectorFor(board, q.maskingSession, MaskingPhase(t))[1]
  BY DEF Masks, board
<1> QED
  BY <1>6, <1>9, <1>10, <1>11 DEF q, board

LEMMA AdaptedDecodes ==
  ASSUME NEW r \in NativeRecords, Verify(Adapted(r, <<>>))
  PROVE  Decodes(Adapted(r, <<>>))
<1> DEFINE q == Adapted(r, <<>>)
<1>1. OnBoard(q)
  BY DEF Verify
<1>2. /\ \A t \in TrusteeIds : Masks(q)[t] = r.masking[t]
      /\ VectorFor(q.board, q.x.session, XPhase) = r.x.vector
      /\ VectorFor(q.board, q.y.session, YPhase) = r.y.vector
  BY <1>1, AdaptedVectors
<1>3. NativeDecodes(r)
  BY TypedDecodes
<1> HIDE DEF q
<1> QED
  BY <1>2, <1>3 DEF Decodes, NativeDecodes, q

(* Whatever one trustee posts in a gate and whatever part of its record is  *)
(* exchanged: a record that either verifier accepts is of a selector that   *)
(* is a bit, and its output decrypts to the product, in setups whose        *)
(* threshold is all trustees (verifyConditionalGateTranscript and           *)
(* verify_gate_json_with_setup).                                            *)
THEOREM AcceptedGatesMultiply ==
  ASSUME Threshold = Trustees
  PROVE  Spec => []AcceptedRecordMultiplies
<1>1. ASSUME GateInv PROVE AcceptedRecordMultiplies
  <2> SUFFICES ASSUME SharesComplete, outcome # "running",
                      NEW r \in Forged \cup Altered(GateRecord(Base)),
                      NativeVerify(r) \/ Verify(Adapted(r, <<>>))
               PROVE  Multiplies(r)
    BY DEF AcceptedRecordMultiplies, Multiplies
  <2>1. InputsAreCiphertexts
    BY <1>1, InputsDecode
  <2>2. r \in NativeRecords
    BY <1>1, <2>1, ForgedTyped, AlteredTyped
  <2>3. CASE NativeVerify(r)
    <3>1. {r.partials[i].trustee : i \in TrusteeIds} = TrusteeIds
      BY <2>3, Zenon DEF NativeVerify
    <3>2. Quorum = TrusteeIds
      BY DEF Quorum, TrusteeIds
    <3>3. SharesOfQuorum(r)
      BY <3>1, <3>2 DEF SharesOfQuorum
    <3>4. NativeDecodes(r)
      BY <2>2, TypedDecodes
    <3> QED
      BY <2>1, <2>3, <3>3, <3>4, NativeVerifiedGate
  <2>4. CASE Verify(Adapted(r, <<>>))
    <3>1. Decodes(Adapted(r, <<>>))
      BY <2>2, <2>4, AdaptedDecodes
    <3>2. Multiplies(Adapted(r, <<>>))
      BY <2>1, <2>4, <3>1, VerifiedGate
    <3>3. Adapted(r, <<>>).output = r.output
      BY DEF Adapted
    <3> QED
      BY <3>2, <3>3 DEF Multiplies
  <2> QED
    BY <2>3, <2>4
<1> QED
  BY <1>1, GateInvariant, PTL

-----------------------------------------------------------------------------
(* Honest records verify.                                                   *)

\* Every masking step adds encryptions of zero under one sign.
StepIsHonest(previous, next) ==
  \E sign \in Signs : \A f \in {"X", "Y"} :
    EncryptsZero(AddCiphertexts(next[f], ScaleCiphertext(previous[f], -sign)))
MasksAreHonest == \A t \in DOMAIN masks : StepIsHonest(Previous(masks, t), masks[t])

\* The relation that a masking proof shows holds of what a trustee computes.
LEMMA SignedStepShown ==
  ASSUME NEW c \in Ciphertexts, NEW sign \in Signs, NEW r \in Int
  PROVE  EncryptsZero(AddCiphertexts(SignedRerandomize(c, sign, r), ScaleCiphertext(c, -sign)))
<1> DEFINE a == ScaleCiphertext(c, sign)
           b == ScaleCiphertext(c, -sign)
           z == EncZero(r)
           az == AddCiphertexts(a, z)
           d == AddCiphertexts(az, b)
           p == Plaintext(c)
<1>1. sign \in Int /\ -sign \in Int
  BY SignsMultiply
<1>2. a \in Ciphertexts /\ b \in Ciphertexts /\ z \in Ciphertexts /\ Plaintext(z) = 0 /\ p \in Int
      /\ Cong(Plaintext(a), sign * p) /\ Cong(Plaintext(b), (-sign) * p)
  BY <1>1, PlaintextOfScaled, EncZeroEncryptsZero DEF EncryptsZero
<1>3. SignedRerandomize(c, sign, r) = az
  BY DEF SignedRerandomize
<1> HIDE DEF a, b, z
<1>4. az \in Ciphertexts /\ Plaintext(a) \in Int /\ Plaintext(b) \in Int
      /\ Cong(Plaintext(az), Plaintext(a) + 0)
  BY <1>2, AddIsCiphertext, PlaintextOfSum
<1> HIDE DEF az
<1>5. d \in Ciphertexts /\ Plaintext(az) \in Int /\ Cong(Plaintext(d), Plaintext(az) + Plaintext(b))
  BY <1>2, <1>4, AddIsCiphertext, PlaintextOfSum
<1> HIDE DEF d
<1> DEFINE pa == Plaintext(a)
           pb == Plaintext(b)
           m == Plaintext(az)
           pd == Plaintext(d)
           x == sign * p
           y == (-sign) * p
<1>6. /\ pa \in Int /\ pb \in Int /\ m \in Int /\ x \in Int /\ y \in Int /\ x + y = 0
      /\ Cong(pa, x) /\ Cong(pb, y) /\ Cong(m, pa + 0) /\ pa + 0 = pa /\ Cong(pd, m + pb)
      /\ pd \in Field
  BY <1>1, <1>2, <1>4, <1>5, PlaintextIsScalar
<1> HIDE DEF pa, pb, m, x, y, pd
<1>7. Cong(m, x)
  BY <1>6, CongTrans
<1>8. Cong(m + pb, x + y)
  BY <1>6, <1>7, CongAdd
<1>9. Cong(pd, 0)
  BY <1>6, <1>8, CongTrans
<1>10. pd = 0
  BY <1>6, <1>9, ZeroInField, CongEqual
<1> QED
  <2>1. EncryptsZero(AddCiphertexts(az, b))
    BY <1>10 DEF EncryptsZero, pd, d
  <2> QED
    BY <1>3, <2>1 DEF b

\* A step of the masking chain is honest, and leaves the earlier ones so.
LEMMA MaskIsHonest == GateInv /\ MasksAreHonest /\ Mask => MasksAreHonest'
<1> SUFFICES ASSUME GateInv, MasksAreHonest, Mask PROVE MasksAreHonest'
  OBVIOUS
<1> DEFINE n == Len(masks)
           P == [X : Ciphertexts, Y : Ciphertexts]
<1>1. /\ inputX \in Ciphertexts /\ inputY \in Ciphertexts /\ masks \in Seq(P) /\ n \in Nat
      /\ UNCHANGED <<inputX, inputY>>
  BY DEF GateInv, TypeOK, Vectors, Mask, inputs
<1>2. PICK sign \in Signs, rX \in MaskNonces, rY \in MaskNonces :
         masks' = Append(masks, [X |-> SignedRerandomize(Current.X, sign, rX),
                                 Y |-> SignedRerandomize(Current.Y, sign, rY)])
  BY DEF Mask, Current
<1>3. Current \in P /\ rX \in Int /\ rY \in Int
  BY <1>1, CurrentTyped, ScalarsOfGate
<1> DEFINE m == [X |-> SignedRerandomize(Current.X, sign, rX),
                 Y |-> SignedRerandomize(Current.Y, sign, rY)]
<1>4. StepIsHonest(Current, m)
  <2>1. Current.X \in Ciphertexts /\ Current.Y \in Ciphertexts
    BY <1>3
  <2>2. /\ EncryptsZero(AddCiphertexts(m["X"], ScaleCiphertext(Current["X"], -sign)))
        /\ EncryptsZero(AddCiphertexts(m["Y"], ScaleCiphertext(Current["Y"], -sign)))
    BY <1>3, <2>1, SignedStepShown
  <2> HIDE DEF m
  <2> QED
    BY <2>2 DEF StepIsHonest
<1>5. /\ masks' = Append(masks, m)
  BY <1>2
<1> HIDE DEF m, P
<1>6. DOMAIN masks' = 1..(n + 1) /\ masks'[n + 1] = m /\ \A t \in 1..n : masks'[t] = masks[t]
  BY <1>1, <1>5
<1>7. ASSUME NEW t \in 1..(n + 1) PROVE Previous(masks, t)' = Previous(masks, t)
  <2>1. t # 1 => t - 1 \in 1..n
    BY <1>1
  <2>2. InitialSignedSelector(inputY)' = InitialSignedSelector(inputY)
    BY <1>1 DEF InitialSignedSelector
  <2> QED
    BY <1>1, <1>6, <2>1, <2>2 DEF Previous
<1>8. ASSUME NEW t \in 1..(n + 1) PROVE StepIsHonest(Previous(masks, t)', masks'[t])
  <2>1. CASE t = n + 1
    BY <1>4, <1>6, <1>7, <2>1 DEF Current
  <2>2. CASE t # n + 1
    <3>1. t \in DOMAIN masks /\ t \in 1..n
      BY <1>1, <2>2
    <3>2. StepIsHonest(Previous(masks, t), masks[t])
      BY <3>1 DEF MasksAreHonest
    <3> QED
      BY <1>6, <1>7, <3>1, <3>2
  <2> QED
    BY <2>1, <2>2
<1> QED
  BY <1>6, <1>8 DEF MasksAreHonest, StepIsHonest

\* The masks of a run are honest in every state.
LEMMA MasksStayHonest == Spec => []MasksAreHonest
<1>1. Init => MasksAreHonest
  BY DEF Init, MasksAreHonest
<1>2. GateInv /\ MasksAreHonest /\ [Next]_vars => MasksAreHonest'
  <2> SUFFICES ASSUME GateInv, MasksAreHonest, [Next]_vars PROVE MasksAreHonest'
    OBVIOUS
  <2>1. CASE Mask
    BY <2>1, MaskIsHonest
  <2>2. CASE UNCHANGED <<inputX, inputY, masks>>
    BY <2>2 DEF MasksAreHonest, Previous, StepIsHonest, InitialSignedSelector
  <2> QED
    BY <2>1, <2>2 DEF Next, vars, RefuseMasks, ContributeX, ContributeY, EmitShare, OpenSelector,
         RefuseOpening, inputs
<1> QED
  BY <1>1, <1>2, GateInvariant, PTL DEF Spec

\* The parts of the record of a gate.
LEMMA RecordFields ==
  ASSUME NEW base, NEW r, r = GateRecord(base)
  PROVE  /\ r.maskingSession = SubSession(base, 0)
         /\ r.masking = MaskMessages(SubSession(base, 0), masks)
         /\ r.x = RerandomizationRecord(SubSession(base, 1), Masked(masks).X, xZeros)
         /\ r.y = RerandomizationRecord(SubSession(base, 2), Masked(masks).Y, yZeros)
         /\ r.x.session = SubSession(base, 1) /\ r.y.session = SubSession(base, 2)
         /\ r.x.output = RerandomizedX /\ r.y.output = RerandomizedY
         /\ r.partialSession = SubSession(base, 3)
         /\ r.partials = [t \in DOMAIN partials |->
                           AuthorizedShare(t, Authorization(SubSession(base, 3), RerandomizedY), partials[t])]
         /\ r.openedSign = (IF Opened = 1 THEN 1 ELSE -1)
         /\ r.output = GateOutput(inputX, r.openedSign, RerandomizedX)
<1> DEFINE x == RerandomizationRecord(SubSession(base, 1), Masked(masks).X, xZeros)
           y == RerandomizationRecord(SubSession(base, 2), Masked(masks).Y, yZeros)
           m == MaskMessages(SubSession(base, 0), masks)
           sign == IF Combine(y.output, partials, Quorum) = 1 THEN 1 ELSE -1
           p == [t \in DOMAIN partials |->
                  AuthorizedShare(t, Authorization(SubSession(base, 3), y.output), partials[t])]
           o == GateOutput(inputX, sign, x.output)
<1>1. r = [maskingSession |-> SubSession(base, 0), masking |-> m, x |-> x, y |-> y,
           partialSession |-> SubSession(base, 3), partials |-> p, openedSign |-> sign, output |-> o]
  BY DEF GateRecord, NativeRecord
<1>2. /\ x.session = SubSession(base, 1) /\ x.output = RerandomizedX
      /\ y.session = SubSession(base, 2) /\ y.output = RerandomizedY
  BY DEF RerandomizationRecord, RerandomizedX, RerandomizedY
<1>3. sign = IF Opened = 1 THEN 1 ELSE -1
  BY <1>2 DEF Opened
<1>4. /\ p = [t \in DOMAIN partials |->
               AuthorizedShare(t, Authorization(SubSession(base, 3), RerandomizedY), partials[t])]
      /\ o = GateOutput(inputX, sign, RerandomizedX)
  BY <1>2
<1> HIDE DEF x, y, m, sign, p, o
<1>5. /\ r.maskingSession = SubSession(base, 0) /\ r.masking = m /\ r.x = x /\ r.y = y
      /\ r.partialSession = SubSession(base, 3) /\ r.partials = p /\ r.openedSign = sign /\ r.output = o
  BY <1>1
<1> QED
  BY <1>2, <1>3, <1>4, <1>5 DEF x, y, m

\* The rerandomization records of a run verify, in the session they are of.
LEMMA HonestRerandomization ==
  ASSUME NEW session, NEW c, NEW zeros \in [TrusteeIds -> Ciphertexts],
         \A t \in TrusteeIds : EncryptsZero(zeros[t]),
         NEW r, r = RerandomizationRecord(session, c, zeros)
  PROVE  RerandomizationVerifies(r, c, {session})
<1> DEFINE v == [t \in DOMAIN zeros |-> [session |-> session, input |-> c, contribution |-> zeros[t]]]
           W == {[session |-> session, input |-> c, contribution |-> zeros[t]] : t \in TrusteeIds}
<1>1. /\ r.session = session /\ r.input = c /\ r.vector = v /\ r.output = Rerandomized(c, zeros)
  BY DEF RerandomizationRecord
<1>2. DOMAIN zeros = TrusteeIds /\ TrusteeIds = 1..Trustees /\ Trustees \in Nat
  BY SetupAssumption DEF TrusteeIds
<1>3. /\ v \in [TrusteeIds -> W] /\ DOMAIN v = 1..Trustees
      /\ \A t \in TrusteeIds : /\ v[t].session = session /\ v[t].input = c
                               /\ v[t].contribution = zeros[t]
  BY <1>2
<1> HIDE DEF v
<1>4. Len(v) = Trustees
  BY <1>3, VectorsOfTrustees
<1> DEFINE n == Trustees
           z == [t \in 1..n |-> v[t].contribution]
<1>5. n \in Nat /\ DOMAIN v = 1..n /\ z = zeros
  BY <1>2, <1>3
<1>6. r.output = FoldLeft(LAMBDA d, e : AddCiphertexts(d, e.contribution), c, v)
  <2> HIDE DEF n
  <2>1. FoldLeft(LAMBDA d, e : AddCiphertexts(d, e.contribution), c, v) = Rerandomized(c, z)
    BY <1>5, VectorRerandomizes
  <2> QED
    BY <1>1, <1>5, <2>1
<1>7. FoldLeft(LAMBDA d, e : AddCiphertexts(d, e.contribution), r.input, r.vector) = r.output
  BY <1>1, <1>6
<1> QED
  BY <1>1, <1>3, <1>4, <1>7, Zenon DEF RerandomizationVerifies

\* The masking messages of a run chain up.
LEMMA HonestChain ==
  ASSUME NEW session, masks \in [TrusteeIds -> Pairs], MasksValid, MasksAreHonest
  PROVE  ChainVerifies(MaskMessages(session, masks), session)
<1> DEFINE m == MaskMessages(session, masks)
           W == {[session |-> session, previous |-> Previous(masks, t), next |-> masks[t]] : t \in TrusteeIds}
<1>1. DOMAIN masks = TrusteeIds /\ Trustees \in Nat /\ Trustees >= 2
  BY SetupAssumption
<1>2. /\ m \in [TrusteeIds -> W]
      /\ \A t \in TrusteeIds : /\ m[t].session = session /\ m[t].previous = Previous(masks, t)
                               /\ m[t].next = masks[t]
  BY <1>1 DEF MaskMessages
<1> HIDE DEF m, W
<1>3. Len(m) = Trustees
  BY <1>2, VectorsOfTrustees
<1>4. ASSUME NEW t \in TrusteeIds
      PROVE  Previous(masks, t) = IF t = 1 THEN Previous(<<>>, 1) ELSE m[t - 1].next
  <2>1. t # 1 => t - 1 \in TrusteeIds
    BY <1>1 DEF TrusteeIds
  <2> QED
    BY <1>2, <2>1 DEF Previous
<1>5. ASSUME NEW t \in TrusteeIds
      PROVE  MaskingProofValid(Previous(masks, t), masks[t])
  <2>1. ~MaskRefused(masks[t]) /\ StepIsHonest(Previous(masks, t), masks[t])
    BY <1>1 DEF MasksValid, MasksAreHonest
  <2> QED
    BY <2>1 DEF StepIsHonest, MaskingProofValid
<1>6. ASSUME NEW t \in TrusteeIds
      PROVE  LET previous == IF t = 1 THEN Previous(<<>>, 1) ELSE m[t - 1].next
             IN /\ m[t].session = session /\ m[t].previous = previous
                /\ MaskingProofValid(previous, m[t].next)
  BY <1>2, <1>4, <1>5
<1> QED
  BY <1>3, <1>6 DEF ChainVerifies, m

\* The opened sign is read off the opened point.
LEMMA SignIsRead ==
  ASSUME NEW sign \in Signs
  PROVE  sign = IF ScalarMod(sign) = 1 THEN 1 ELSE -1
<1>1. ScalarMod(1) = 1
  BY ZeroInField, FieldIsSmall
<1>2. ScalarMod(-1) # 1
  <2> DEFINE q == SubgroupOrder
             m == ScalarMod(-1)
  <2>1. m = (-1) % q /\ q \in Nat /\ q > 2
    BY OrderIsLarge DEF ScalarMod
  <2>2. (-1) % q = q - 1
    BY <2>1
  <2> QED
    BY <2>1, <2>2
<1> QED
  BY <1>1, <1>2 DEF Signs

\* The record of a gate that has opened is the verifiers' kind, natively.
LEMMA HonestRecord ==
  ASSUME GateInv, MasksAreHonest, outcome = "opened", NEW base \in Bases,
         NEW r, r = GateRecord(base)
  PROVE  /\ r \in NativeRecords
         /\ openedSign = r.openedSign /\ output = r.output
         /\ NativeVerify(r)
         /\ OpeningVerifies(r, r.partials)
         /\ \A t \in TrusteeIds : /\ r.partials[t].trustee = t
                                  /\ r.partials[t].authorization = Authorization(r.partialSession, r.y.output)
<1>1. /\ SharesComplete /\ openedSign \in Signs /\ Opened = ScalarMod(openedSign)
      /\ output = GateOutput(inputX, openedSign, RerandomizedX)
      /\ TypeOK /\ PhasesInOrder /\ ContributionsAreZeros /\ SharesAreHonest
  BY DEF GateInv, OutcomeFollows
<1>2. /\ masks \in [TrusteeIds -> Pairs]
      /\ xZeros \in [TrusteeIds -> Ciphertexts] /\ yZeros \in [TrusteeIds -> Ciphertexts]
      /\ partials \in [TrusteeIds -> Field]
  BY <1>1, CompleteVectors
<1>3. MasksValid
  BY <1>1, SharesAreLast
<1>4. InputsAreCiphertexts
  BY InputsDecode
<1>5. r \in NativeRecords
  BY <1>2, <1>4, RecordTyped DEF GateRecord
<1> DEFINE s(k) == SubSession(base, k)
           a == Authorization(s(3), RerandomizedY)
<1>6. /\ r.maskingSession = s(0) /\ r.masking = MaskMessages(s(0), masks)
      /\ r.x = RerandomizationRecord(s(1), Masked(masks).X, xZeros)
      /\ r.y = RerandomizationRecord(s(2), Masked(masks).Y, yZeros)
      /\ r.x.session = s(1) /\ r.y.session = s(2)
      /\ r.x.output = RerandomizedX /\ r.y.output = RerandomizedY /\ r.partialSession = s(3)
      /\ r.partials = [t \in DOMAIN partials |-> AuthorizedShare(t, a, partials[t])]
      /\ r.openedSign = (IF Opened = 1 THEN 1 ELSE -1)
      /\ r.output = GateOutput(inputX, r.openedSign, RerandomizedX)
  BY RecordFields
<1> HIDE DEF s, a
<1>7. openedSign = r.openedSign
  BY <1>1, <1>6, SignIsRead
<1>8. output = r.output
  BY <1>1, <1>6, <1>7
<1>9. \A t \in TrusteeIds : /\ r.partials[t].trustee = t /\ r.partials[t].authorization = a
                            /\ r.partials[t].w = partials[t]
  BY <1>2, <1>6 DEF AuthorizedShare
<1>10. a = Authorization(r.partialSession, r.y.output) /\ a.ciphertext = r.y.output
  BY <1>6 DEF a, Authorization
<1>11. ChainVerifies(r.masking, r.maskingSession)
  BY <1>2, <1>3, <1>6, HonestChain
<1>12. r.masking[Trustees].next = Masked(masks)
  <2>1. Trustees \in TrusteeIds /\ DOMAIN masks = TrusteeIds
    BY <1>2, SetupAssumption DEF TrusteeIds
  <2>2. r.masking[Trustees].next = masks[Trustees]
    BY <1>6, <2>1 DEF MaskMessages
  <2> QED
    BY <1>2, <1>4, <2>2, PreviousTyped
<1>13. /\ RerandomizationVerifies(r.x, Masked(masks).X, {r.x.session})
       /\ RerandomizationVerifies(r.y, Masked(masks).Y, {r.y.session})
  <2>1. /\ \A t \in TrusteeIds : EncryptsZero(xZeros[t])
        /\ \A t \in TrusteeIds : EncryptsZero(yZeros[t])
    BY <1>1, <1>2 DEF ContributionsAreZeros
  <2> QED
    BY <1>2, <1>6, <2>1, HonestRerandomization
<1>14. \A t \in TrusteeIds : ShareProofValid(r.partials[t], r.y.output)
  <2>1. \A t \in TrusteeIds : partials[t] = PartialDecryption(t, RerandomizedY)
    BY <1>1, <1>2 DEF SharesAreHonest
  <2> QED
    BY <1>6, <1>9, <2>1 DEF ShareProofValid
<1>15. {r.partials[i].trustee : i \in TrusteeIds} = TrusteeIds
  BY <1>9
<1>16. Quorum \subseteq TrusteeIds
  BY FirstIds DEF Quorum
<1>17. OpeningVerifies(r, r.partials)
  <2>1. Opened = Combine(RerandomizedY, partials, Quorum)
    BY DEF Opened
  <2> DEFINE w == [t \in Quorum |-> r.partials[t].w]
  <2>2. [t \in Quorum |-> LagrangeCoefficientAtZero(Quorum, t) * w[t]]
          = [t \in Quorum |-> LagrangeCoefficientAtZero(Quorum, t) * partials[t]]
    BY <1>9, <1>16
  <2> HIDE DEF w
  <2>3. Combine(RerandomizedY, w, Quorum) = Combine(RerandomizedY, partials, Quorum)
    BY <2>2 DEF Combine
  <2> QED
    BY <1>1, <1>6, <1>7, <2>1, <2>3 DEF OpeningVerifies, AuthorizedCiphertext, w
<1>18. NativeOpeningVerifies(r)
  <2>1. [i \in Quorum |-> LagrangeCoefficientAtZero(Quorum, r.partials[i].trustee) * r.partials[i].w]
          = [t \in Quorum |-> LagrangeCoefficientAtZero(Quorum, t) * partials[t]]
    BY <1>9, <1>16
  <2>2. Opened = ScalarMod(RerandomizedY.S
                   - ModSum([t \in Quorum |-> LagrangeCoefficientAtZero(Quorum, t) * partials[t]], Quorum))
    BY DEF Opened, Combine
  <2> QED
    BY <1>1, <1>6, <1>7, <2>1, <2>2 DEF NativeOpeningVerifies, AuthorizedCiphertext
<1>19. NativeVerify(r)
  <2>1. AuthorizedCiphertext(r) = r.y.output /\ r.output = GateOutput(inputX, r.openedSign, r.x.output)
    BY <1>6 DEF AuthorizedCiphertext
  <2> QED
    BY <1>9, <1>10, <1>11, <1>12, <1>13, <1>14, <1>15, <1>18, <2>1 DEF NativeVerify
<1> QED
  BY <1>5, <1>7, <1>8, <1>9, <1>10, <1>17, <1>19

-----------------------------------------------------------------------------
(* Boards of sealed phases.                                                 *)

Messages == MaskMessageSet \cup ContributionSet \cup ShareSet

\* A sealed phase that the board's verifier has nothing against.
WellSealed(p) ==
  /\ p.key \in Sessions \X Names /\ p.status = "SEALED"
  /\ Board!CanonicalParticipants(p.required)
  /\ Board!VerifyBarrier(p) /\ Board!VerifySubmissions(p)

\* Counting is the same on the board that a verifier reads.
LEMMA BoardCounts == \A S : Board!Cardinality(S) = Cardinality(S)
  BY Zenon DEF Board!Cardinality, Cardinality

\* So is taking elements at places.
LEMMA BoardPlaces ==
  ASSUME NEW s, NEW P
  PROVE  Board!AtPlaces(s, P) = AtPlaces(s, P)
<1>1. \A S, R : Board!InOrder(S, R) = InOrder(S, R)
  <2> SUFFICES ASSUME NEW S, NEW R PROVE Board!InOrder(S, R) = InOrder(S, R)
    OBVIOUS
  <2> DEFINE rank == [x \in S |-> Cardinality({y \in S : <<y, x>> \in R})]
             boardRank == [x \in S |-> Board!Cardinality({y \in S : <<y, x>> \in R})]
  <2>1. rank = boardRank /\ Board!Cardinality(S) = Cardinality(S)
    BY BoardCounts
  <2>2. /\ InOrder(S, R) = [i \in 1..Cardinality(S) |-> CHOOSE x \in S : rank[x] = i - 1]
        /\ Board!InOrder(S, R)
             = [i \in 1..Board!Cardinality(S) |-> CHOOSE x \in S : boardRank[x] = i - 1]
    BY DEF Board!InOrder, InOrder
  <2> HIDE DEF rank, boardRank
  <2> QED
    BY <2>1, <2>2
<1>2. Board!Ascending(P) = Ascending(P)
  BY DEF Board!Ascending, Ascending
<1> QED
  BY <1>1, <1>2 DEF Board!AtPlaces, AtPlaces

\* A vector of trustees in ascending order.
IsRoster(required) ==
  \E n \in Nat \ {0} :
    /\ required \in [1..n -> TrusteeIds]
    /\ \A i, j \in 1..n : i < j => required[i] < required[j]

\* A roster is canonical, and is in the order of all of its members.
LEMMA RosterIsCanonical ==
  ASSUME NEW required, IsRoster(required)
  PROVE  /\ Board!CanonicalParticipants(required)
         /\ \A P : P = {required[i] : i \in DOMAIN required} =>
              Board!AtPlaces(required, {i \in DOMAIN required : required[i] \in P}) = required
<1>1. PICK n \in Nat \ {0} :
        /\ required \in [1..n -> TrusteeIds]
        /\ \A i, j \in 1..n : i < j => required[i] < required[j]
  BY DEF IsRoster
<1>2. Trustees \in Nat /\ TrusteeIds = 1..Trustees
  BY SetupAssumption DEF TrusteeIds
<1>3. /\ DOMAIN required = 1..n /\ Len(required) = n /\ required \in [1..n -> Int]
      /\ required # <<>>
  BY <1>1, <1>2
<1> DEFINE S == {required[i] : i \in 1..n}
<1>4. /\ \A i \in 1..n : required[i] \in S
      /\ \A x \in S : \E i \in 1..n : required[i] = x
      /\ S \subseteq 1..Trustees
  BY <1>1, <1>2
<1>5. required \in Bijection(1..n, S)
  <2>1. \A i, j \in 1..n : required[i] = required[j] => i = j
    <3> SUFFICES ASSUME NEW i \in 1..n, NEW j \in 1..n, required[i] = required[j], i # j PROVE FALSE
      OBVIOUS
    <3>1. i < j \/ j < i
      OBVIOUS
    <3>2. required[i] \in Int /\ required[j] \in Int
      BY <1>3
    <3> QED
      BY <1>1, <3>1, <3>2
  <2> HIDE DEF S
  <2>2. required \in [1..n -> S]
    BY <1>3, <1>4
  <2> QED
    BY <1>4, <2>1, <2>2 DEF Bijection, Injection, Surjection, IsInjective
<1>6. IsFiniteSet(S) /\ Cardinality(S) = n
  <2>1. IsFiniteSet(1..n) /\ Cardinality(1..n) = n
    BY FS_Interval
  <2> HIDE DEF S
  <2> QED
    BY <1>5, <2>1, FS_Bijection DEF ExistsBijection
<1>7. Board!Members(required) = S
  BY <1>3 DEF Board!Members
<1>8. Board!TrusteeSet = 1..Trustees
  BY DEF Board!TrusteeSet
<1>9. \A i \in 2..n : required[i - 1] < required[i]
  <2> TAKE i \in 2..n
  <2>1. i - 1 \in 1..n /\ i \in 1..n /\ i - 1 < i
    OBVIOUS
  <2> QED
    BY <1>1, <2>1
<1>10. Board!CanonicalParticipants(required)
  <2> HIDE DEF S
  <2> QED
    BY <1>3, <1>4, <1>6, <1>7, <1>8, <1>9, BoardCounts DEF Board!CanonicalParticipants
<1>11. AtPlaces(required, {i \in 1..n : required[i] \in S}) = required
  <2> HIDE DEF S
  <2>1. AtPlaces(required, {i \in 1..n : required[i] \in S}) = InOrder(S, Ascending(S))
    BY <1>1, <1>3, <1>4, PlacesSort
  <2>2. S \in SUBSET Int
    BY <1>2, <1>4
  <2>3. StrictOrder(S, Ascending(S))
    BY <2>2, AscendingIsStrict
  <2>4. Sorts(required, S, Ascending(S))
    <3>1. required \in [1..n -> S]
      BY <1>3, <1>4
    <3>2. \A i, j \in 1..n : i < j => <<required[i], required[j]>> \in Ascending(S)
      BY <1>1, <1>4 DEF Ascending
    <3> QED
      BY <1>6, <3>1, <3>2 DEF Sorts
  <2>5. required = InOrder(S, Ascending(S))
    BY <1>6, <2>3, <2>4, OneOrder
  <2> QED
    BY <2>1, <2>5
<1> QED
  BY <1>3, <1>10, <1>11, BoardPlaces

\* What a gate seals, under a session and a name in use, is well sealed.
LEMMA SealedVerifies ==
  ASSUME NEW session, NEW name, NEW dependsOn, NEW required, NEW messages,
         <<session, name>> \in Sessions \X Names, IsRoster(required),
         \A i \in DOMAIN required : messages[i] \in Messages,
         NEW p, p = SealedPhase(session, name, dependsOn, required, messages)
  PROVE  WellSealed(p)
<1>1. PICK n \in Nat \ {0} : required \in [1..n -> TrusteeIds]
  BY DEF IsRoster
<1>2. DOMAIN required = 1..n /\ Len(required) = n
  BY <1>1
<1>3. /\ p.key = <<session, name>> /\ p.status = "SEALED" /\ p.required = required
      /\ p.submissions = [i \in DOMAIN required |-> [trustee |-> required[i], payload |-> messages[i]]]
  BY DEF SealedPhase
<1>4. /\ DOMAIN p.submissions = 1..n /\ Len(p.submissions) = n
      /\ \A i \in 1..n : /\ p.submissions[i].trustee = required[i]
                         /\ p.submissions[i].payload = messages[i]
  <2> DEFINE s == [i \in 1..n |-> [trustee |-> required[i], payload |-> messages[i]]]
  <2>1. DOMAIN s = 1..n /\ Len(s) = n
    OBVIOUS
  <2> QED
    BY <1>2, <1>3, <2>1
<1>5. p.key \in Sessions \X Names
  BY <1>3
<1>6. Board!CanonicalParticipants(p.required)
  BY <1>3, RosterIsCanonical
<1>7. Board!VerifyBarrier(p)
  BY <1>2, <1>3, <1>4 DEF Board!VerifyBarrier
<1>8. Board!VerifySubmissions(p)
  <2> DEFINE P == {p.submissions[i].trustee : i \in DOMAIN p.submissions}
             B == [t \in TrusteeIds |-> [k \in Sessions \X ToSet(NameOrder) |->
                      MaskMessageSet \cup ContributionSet \cup ShareSet]]
  <2>1. P = {required[i] : i \in DOMAIN required}
    BY <1>2, <1>4
  <2>2. Board!AtPlaces(required, {i \in DOMAIN required : required[i] \in P}) = required
    BY <2>1, RosterIsCanonical
  <2>3. [i \in DOMAIN p.submissions |-> p.submissions[i].trustee] = required
    BY <1>1, <1>4
  <2>4. ASSUME NEW i \in DOMAIN p.submissions
        PROVE  /\ p.submissions[i].trustee \in Board!Members(p.required)
               /\ p.submissions[i].payload \in B[p.submissions[i].trustee][p.key]
    <3>1. i \in 1..n /\ required[i] \in TrusteeIds
      BY <1>1, <1>4
    <3>2. B[required[i]][p.key] = Messages
      BY <1>5, <3>1 DEF Messages, Names
    <3> QED
      BY <1>2, <1>3, <1>4, <3>1, <3>2 DEF Board!Members
  <2>5. [i \in DOMAIN p.submissions |-> p.submissions[i].trustee]
          = Board!AtPlaces(p.required, {i \in DOMAIN p.required : p.required[i] \in P})
    BY <1>3, <2>2, <2>3
  <2> HIDE DEF B
  <2> QED
    BY <2>4, <2>5 DEF Board!VerifySubmissions, B
<1> QED
  BY <1>3, <1>5, <1>6, <1>7, <1>8 DEF WellSealed

\* All the phases of a typed record are.
LEMMA GatePhasesAreSealed ==
  ASSUME NEW r \in NativeRecords
  PROVE  \A p \in GatePhases(r) : WellSealed(p)
<1>1. /\ r.maskingSession \in Sessions /\ r.partialSession \in Sessions
      /\ r.x \in RerandomizationRecords /\ r.y \in RerandomizationRecords
      /\ r.masking \in [TrusteeIds -> MaskMessageSet] /\ r.partials \in [TrusteeIds -> NativeShares]
  BY DEF NativeRecords
<1>2. /\ r.x.session \in Sessions /\ r.y.session \in Sessions /\ r.y.output \in Ciphertexts
      /\ r.x.vector \in [TrusteeIds -> ContributionSet] /\ r.y.vector \in [TrusteeIds -> ContributionSet]
  BY <1>1 DEF RerandomizationRecords
<1>3. \A t \in TrusteeIds : IsRoster(<<t>>)
  <2> TAKE t \in TrusteeIds
  <2>1. /\ 1 \in Nat \ {0} /\ <<t>> \in [1..1 -> TrusteeIds]
        /\ \A i, j \in 1..1 : i < j => <<t>>[i] < <<t>>[j]
    OBVIOUS
  <2> QED
    BY <2>1 DEF IsRoster
<1>4. IsRoster(AllTrustees) /\ DOMAIN AllTrustees = TrusteeIds
  <2>1. Trustees \in Nat \ {0} /\ TrusteeIds = 1..Trustees
    BY SetupAssumption DEF TrusteeIds
  <2>2. AllTrustees \in [TrusteeIds -> TrusteeIds] /\ \A i \in TrusteeIds : AllTrustees[i] = i
    BY DEF AllTrustees
  <2> QED
    BY <2>1, <2>2 DEF IsRoster
<1>5. ASSUME NEW t \in TrusteeIds PROVE WellSealed(MaskPhase(r, t))
  <2> DEFINE d == IF t = 1 THEN NoPhase ELSE MaskingPhase(t - 1)
             q == <<t>>
             m == <<r.masking[t]>>
  <2>1. MaskPhase(r, t) = SealedPhase(r.maskingSession, MaskingPhase(t), d, q, m)
    BY DEF MaskPhase
  <2>2. IsRoster(q)
    BY <1>3
  <2>3. \A i \in DOMAIN q : m[i] \in Messages
    BY <1>1 DEF Messages
  <2>4. <<r.maskingSession, MaskingPhase(t)>> \in Sessions \X Names
    BY <1>1, NamesInOrder
  <2> HIDE DEF d, q, m
  <2> QED
    BY <2>1, <2>2, <2>3, <2>4, SealedVerifies
<1>6. ASSUME NEW t \in TrusteeIds PROVE WellSealed(SharePhase(r, t))
  <2> DEFINE q == <<t>>
             m == <<ShareMessage(r, t)>>
  <2>1. SharePhase(r, t) = SealedPhase(r.partialSession, PartialPhase(t), NoPhase, q, m)
    BY DEF SharePhase
  <2>2. IsRoster(q)
    BY <1>3
  <2>3. ShareMessage(r, t) \in ShareSet
    <3>1. r.partials[t].authorization \in Authorizations /\ r.partials[t].w \in Field
      BY <1>1 DEF NativeShares
    <3>2. Authorization(r.partialSession, r.y.output) \in Authorizations
      BY <1>1, <1>2 DEF Authorization, Authorizations
    <3>3. ShareSet = [trustee : TrusteeIds, authorization : Authorizations, proven : Authorizations, w : Field]
      BY DEF ShareSet, Authorizations
    <3> QED
      BY <3>1, <3>2, <3>3 DEF ShareMessage
  <2>4. \A i \in DOMAIN q : m[i] \in Messages
    BY <2>3 DEF Messages
  <2>5. <<r.partialSession, PartialPhase(t)>> \in Sessions \X Names
    BY <1>1, NamesInOrder
  <2> HIDE DEF q, m
  <2> QED
    BY <2>1, <2>2, <2>4, <2>5, SealedVerifies
<1>7. WellSealed(XVector(r)) /\ WellSealed(YVector(r))
  <2>1. <<r.x.session, XPhase>> \in Sessions \X Names /\ <<r.y.session, YPhase>> \in Sessions \X Names
    BY <1>2, NamesInOrder
  <2>2. /\ \A i \in DOMAIN AllTrustees : r.x.vector[i] \in Messages
        /\ \A i \in DOMAIN AllTrustees : r.y.vector[i] \in Messages
    BY <1>2, <1>4 DEF Messages
  <2>3. WellSealed(XVector(r))
    BY <1>4, <2>1, <2>2, SealedVerifies DEF XVector
  <2>4. WellSealed(YVector(r))
    BY <1>4, <2>1, <2>2, SealedVerifies DEF YVector
  <2> QED
    BY <2>3, <2>4
<1> QED
  BY <1>5, <1>6, <1>7 DEF GatePhases

\* The phases of the gates of the sessions in use, if all ran like this one.
Phases == UNION {GatePhases(GateRecord(b)) : b \in Bases}

\* The records of a complete gate are typed, and their phases well sealed.
LEMMA RecordsTyped ==
  ASSUME GateInv, SharesComplete
  PROVE  /\ \A b \in Bases : GateRecord(b) \in NativeRecords /\ GatePhases(GateRecord(b)) \subseteq Phases
         /\ \A p \in Phases : WellSealed(p) /\ p.key \in GateSessions \X Names
<1>1. ASSUME NEW b \in Bases PROVE GateRecord(b) \in NativeRecords
  BY CompleteVectors, InputsDecode, RecordTyped DEF GateRecord
<1>2. ASSUME NEW b \in Bases
      PROVE  \A p \in GatePhases(GateRecord(b)) : WellSealed(p) /\ p.key \in GateSessions \X Names
  BY <1>1, GatePhasesAreSealed, PhasesAreKeyed
<1> QED
  BY <1>1, <1>2 DEF Phases

-----------------------------------------------------------------------------
(* Lists of phases that a board may export.                                 *)

DistinctKeys(ps) == \A i, j \in DOMAIN ps : ps[i].key = ps[j].key => i = j
DependenciesMet(ps) ==
  \A i \in DOMAIN ps : ps[i].dependsOn # NoPhase =>
    \E j \in DOMAIN ps : ps[j].key = <<ps[i].key[1], ps[i].dependsOn>>

\* Phases of the sessions T, each once and after those that they depend on.
Posted(ps, T) ==
  /\ ps \in Seq(Phases) /\ \A i \in DOMAIN ps : ps[i].key[1] \in T
  /\ DistinctKeys(ps) /\ DependenciesMet(ps)

\* Phases of different sessions are posted one after the other.
LEMMA PostedTogether ==
  ASSUME NEW a, NEW b, NEW T, NEW U, Posted(a, T), Posted(b, U), T \cap U = {}
  PROVE  Posted(a \o b, T \cup U)
<1> DEFINE s == a \o b
           n == Len(a)
           m == Len(b)
<1>1. a \in Seq(Phases) /\ b \in Seq(Phases) /\ n \in Nat /\ m \in Nat
  BY DEF Posted
<1>2. /\ s \in Seq(Phases) /\ Len(s) = n + m
      /\ \A i \in 1..(n + m) : s[i] = IF i <= n THEN a[i] ELSE b[i - n]
  BY <1>1, ConcatProperties
<1>3. DOMAIN a = 1..n /\ DOMAIN b = 1..m /\ DOMAIN s = 1..(n + m)
  BY <1>1, <1>2
<1>4. /\ \A i \in 1..n : a[i].key[1] \in T
      /\ \A i \in 1..m : b[i].key[1] \in U
      /\ \A i, j \in 1..n : a[i].key = a[j].key => i = j
      /\ \A i, j \in 1..m : b[i].key = b[j].key => i = j
      /\ \A i \in 1..n : a[i].dependsOn # NoPhase =>
           \E j \in 1..n : a[j].key = <<a[i].key[1], a[i].dependsOn>>
      /\ \A i \in 1..m : b[i].dependsOn # NoPhase =>
           \E j \in 1..m : b[j].key = <<b[i].key[1], b[i].dependsOn>>
  BY <1>3 DEF Posted, DistinctKeys, DependenciesMet
<1> HIDE DEF s, n, m
<1>5. ASSUME NEW i \in 1..(n + m)
      PROVE  \/ i \in 1..n /\ s[i] = a[i]
             \/ i - n \in 1..m /\ s[i] = b[i - n] /\ ~(i <= n)
  BY <1>1, <1>2
<1>6. \A i \in 1..(n + m) : s[i].key[1] \in T \cup U
  BY <1>4, <1>5
<1>7. ASSUME NEW i \in 1..(n + m), NEW j \in 1..(n + m), s[i].key = s[j].key
      PROVE  i = j
  <2>1. CASE i \in 1..n /\ s[i] = a[i] /\ j \in 1..n /\ s[j] = a[j]
    BY <1>4, <1>7, <2>1
  <2>2. CASE i - n \in 1..m /\ s[i] = b[i - n] /\ j - n \in 1..m /\ s[j] = b[j - n]
    <3>1. i - n = j - n
      BY <1>4, <1>7, <2>2
    <3> QED
      BY <1>1, <3>1
  <2>3. CASE (s[i].key[1] \in T /\ s[j].key[1] \in U) \/ (s[i].key[1] \in U /\ s[j].key[1] \in T)
    BY <1>7, <2>3
  <2> QED
    BY <1>4, <1>5, <2>1, <2>2, <2>3
<1>8. ASSUME NEW i \in 1..(n + m), s[i].dependsOn # NoPhase
      PROVE  \E j \in 1..(n + m) : s[j].key = <<s[i].key[1], s[i].dependsOn>>
  <2>1. CASE i \in 1..n /\ s[i] = a[i]
    <3>1. PICK j \in 1..n : a[j].key = <<a[i].key[1], a[i].dependsOn>>
      BY <1>4, <1>8, <2>1
    <3>2. j \in 1..(n + m) /\ s[j] = a[j]
      BY <1>1, <1>2
    <3> QED
      BY <2>1, <3>1, <3>2
  <2>2. CASE i - n \in 1..m /\ s[i] = b[i - n]
    <3>1. PICK j \in 1..m : b[j].key = <<b[i - n].key[1], b[i - n].dependsOn>>
      BY <1>4, <1>8, <2>2
    <3>2. j + n \in 1..(n + m) /\ s[j + n] = b[j]
      <4>1. j + n \in 1..(n + m) /\ ~(j + n <= n) /\ (j + n) - n = j
        BY <1>1
      <4> QED
        BY <1>2, <4>1
    <3> QED
      BY <2>2, <3>1, <3>2
  <2> QED
    BY <1>5, <2>1, <2>2
<1> QED
  BY <1>2, <1>3, <1>6, <1>7, <1>8 DEF Posted, DistinctKeys, DependenciesMet, s

-----------------------------------------------------------------------------
(* Boards in the order of the keys.                                         *)

\* f runs through S in the order of the keys.
Lists(f, S) ==
  /\ f \in Seq(S)
  /\ \A p \in S : \E i \in DOMAIN f : f[i] = p
  /\ \A i, j \in DOMAIN f : i < j => PhaseBefore(f[i], f[j])

HaveKeys(S) == \A p \in S : p.key \in GateSessions \X Names

KeyPairs(S) == {p \in S \X S : PhaseBefore(p[1], p[2])}

\* The order of the keys is strict.
LEMMA KeysAreOrdered ==
  ASSUME NEW S, HaveKeys(S)
  PROVE  /\ \A p, q \in S : PhaseBefore(p, q) => p.key # q.key
         /\ \A p, q, r \in S : PhaseBefore(p, q) /\ PhaseBefore(q, r) => PhaseBefore(p, r)
         /\ \A p, q \in S : p.key # q.key => PhaseBefore(p, q) \/ PhaseBefore(q, p)
<1> DEFINE s(p) == p.key[1]
           x(p) == NameIndex[p.key[2]]
           B(p, q) == SessionBefore(s(p), s(q))
<1>1. \A p \in S : /\ s(p) \in GateSessions /\ p.key[2] \in Names /\ x(p) \in Nat
                   /\ p.key = <<s(p), p.key[2]>>
  BY NamesHavePlaces DEF HaveKeys
<1>2. \A p, q \in S : s(p) = s(q) /\ x(p) = x(q) => p.key = q.key
  <2> SUFFICES ASSUME NEW p \in S, NEW q \in S, s(p) = s(q), x(p) = x(q) PROVE p.key = q.key
    OBVIOUS
  <2>1. p.key[2] \in Names /\ q.key[2] \in Names
    BY <1>1
  <2>2. p.key[2] = q.key[2]
    BY <2>1, NamesHavePlaces
  <2>3. p.key = <<s(p), p.key[2]>> /\ q.key = <<s(q), q.key[2]>>
    BY <1>1
  <2> HIDE DEF s, x
  <2> QED
    BY ONLY <2>2, <2>3, s(p) = s(q)
<1>3. \A p, q \in S : p.key = q.key => s(p) = s(q) /\ x(p) = x(q)
  OBVIOUS
<1>4. \A p, q : PhaseBefore(p, q) <=> B(p, q) \/ (s(p) = s(q) /\ x(p) < x(q))
  BY DEF PhaseBefore
<1>5. /\ \A p \in S : ~B(p, p)
      /\ \A p, q, r \in S : B(p, q) /\ B(q, r) => B(p, r)
      /\ \A p, q \in S : s(p) # s(q) => B(p, q) \/ B(q, p)
  BY <1>1, SessionsAreOrdered
<1>6. /\ \A p, q, r \in S : s(p) = s(q) => (B(p, r) <=> B(q, r)) /\ (B(r, p) <=> B(r, q))
  OBVIOUS
<1> HIDE DEF s, x, B
<1>7. ASSUME NEW p \in S, NEW q \in S, PhaseBefore(p, q) PROVE p.key # q.key
  <2>1. CASE p.key = q.key
    <3>1. s(p) = s(q) /\ x(p) = x(q)
      BY <1>3, <2>1
    <3>2. ~B(p, q)
      BY <1>5, <1>6, <3>1
    <3>3. ~(x(p) < x(q))
      BY <1>1, <3>1
    <3> QED
      BY <1>4, <1>7, <3>2, <3>3
  <2> QED
    BY <2>1
<1>8. ASSUME NEW p \in S, NEW q \in S, NEW r \in S, PhaseBefore(p, q), PhaseBefore(q, r)
      PROVE  PhaseBefore(p, r)
  <2>1. B(p, q) \/ (s(p) = s(q) /\ x(p) < x(q))
    BY <1>4, <1>8
  <2>2. B(q, r) \/ (s(q) = s(r) /\ x(q) < x(r))
    BY <1>4, <1>8
  <2>3. CASE B(p, q) \/ B(q, r)
    <3>1. B(p, r)
      BY <1>5, <1>6, <2>1, <2>2, <2>3
    <3> QED
      BY <1>4, <3>1
  <2>4. CASE s(p) = s(q) /\ x(p) < x(q) /\ s(q) = s(r) /\ x(q) < x(r)
    <3>1. x(p) \in Nat /\ x(q) \in Nat /\ x(r) \in Nat
      BY <1>1
    <3>2. s(p) = s(r) /\ x(p) < x(r)
      BY <2>4, <3>1
    <3> QED
      BY <1>4, <3>2
  <2> QED
    BY <2>1, <2>2, <2>3, <2>4
<1>9. ASSUME NEW p \in S, NEW q \in S, p.key # q.key PROVE PhaseBefore(p, q) \/ PhaseBefore(q, p)
  <2>1. CASE s(p) # s(q)
    BY <1>4, <1>5, <2>1
  <2>2. CASE s(p) = s(q)
    <3>1. x(p) # x(q)
      BY <1>2, <1>9, <2>2
    <3>2. x(p) \in Nat /\ x(q) \in Nat
      BY <1>1
    <3>3. x(p) < x(q) \/ x(q) < x(p)
      BY <3>1, <3>2
    <3> QED
      BY <1>4, <2>2, <3>3
  <2> QED
    BY <2>1, <2>2
<1> QED
  BY <1>7, <1>8, <1>9

\* There is one such list.
LEMMA OneList ==
  ASSUME NEW S, HaveKeys(S), NEW f, Lists(f, S)
  PROVE  /\ IsFiniteSet(S) /\ Cardinality(S) = Len(f)
         /\ f = InOrder(S, KeyPairs(S))
         /\ \A p, q \in S : p.key = q.key => p = q
<1> DEFINE n == Len(f)
           R == KeyPairs(S)
<1>1. /\ n \in Nat /\ DOMAIN f = 1..n /\ f \in [1..n -> S]
      /\ \A p \in S : \E i \in 1..n : f[i] = p
      /\ \A i, j \in 1..n : i < j => PhaseBefore(f[i], f[j])
  BY DEF Lists
<1> HIDE DEF n, R
<1>2. /\ \A p, q \in S : PhaseBefore(p, q) => p.key # q.key
      /\ \A p, q, r \in S : PhaseBefore(p, q) /\ PhaseBefore(q, r) => PhaseBefore(p, r)
      /\ \A p, q \in S : p.key # q.key => PhaseBefore(p, q) \/ PhaseBefore(q, p)
  BY KeysAreOrdered
<1>3. ASSUME NEW i \in 1..n, NEW j \in 1..n, f[i].key = f[j].key PROVE i = j
  <2>1. CASE i < j \/ j < i
    <3>1. f[i] \in S /\ f[j] \in S
      BY <1>1
    <3>2. PhaseBefore(f[i], f[j]) \/ PhaseBefore(f[j], f[i])
      BY <1>1, <2>1
    <3> QED
      BY <1>2, <1>3, <3>1, <3>2
  <2>2. i < j \/ j < i \/ i = j
    BY <1>1
  <2> QED
    BY <2>1, <2>2
<1>4. \A p, q \in S : p.key = q.key => p = q
  BY <1>1, <1>3
<1>5. f \in Bijection(1..n, S)
  <2>1. \A i, j \in 1..n : f[i] = f[j] => i = j
    BY <1>3
  <2> QED
    BY <1>1, <2>1 DEF Bijection, Injection, Surjection, IsInjective
<1>6. IsFiniteSet(S) /\ Cardinality(S) = n
  <2>1. IsFiniteSet(1..n) /\ Cardinality(1..n) = n
    BY <1>1, FS_Interval
  <2> QED
    BY <1>5, <2>1, FS_Bijection DEF ExistsBijection
<1>7. \A p, q \in S : <<p, q>> \in R <=> PhaseBefore(p, q)
  BY DEF R, KeyPairs
<1>8. StrictOrder(S, R)
  <2>1. \A p \in S : <<p, p>> \notin R
    BY <1>2, <1>7
  <2>2. \A p, q, r \in S : <<p, q>> \in R /\ <<q, r>> \in R => <<p, r>> \in R
    BY <1>2, <1>7
  <2>3. \A p, q \in S : p # q => <<p, q>> \in R \/ <<q, p>> \in R
    BY <1>2, <1>4, <1>7
  <2> QED
    BY <2>1, <2>2, <2>3 DEF StrictOrder
<1>9. Sorts(f, S, R)
  BY <1>1, <1>6, <1>7 DEF Sorts
<1>10. f = InOrder(S, R)
  BY <1>6, <1>8, <1>9, OneOrder
<1> QED
  BY <1>4, <1>6, <1>10 DEF n, R

\* The elements of a list at some of its places, in the order of the places.
LEMMA PlacesOfList ==
  ASSUME NEW S, HaveKeys(S), NEW f, Lists(f, S), NEW P \in SUBSET DOMAIN f,
         NEW Q \in SUBSET S, \A i \in DOMAIN f : i \in P <=> f[i] \in Q
  PROVE  Lists(AtPlaces(f, P), Q)
<1> DEFINE n == Len(f)
           R == Ascending(P)
           order == InOrder(P, R)
           m == Cardinality(P)
           g == [i \in DOMAIN order |-> f[order[i]]]
<1>1. /\ n \in Nat /\ DOMAIN f = 1..n /\ f \in [1..n -> S]
      /\ \A p \in S : \E i \in 1..n : f[i] = p
      /\ \A i, j \in 1..n : i < j => PhaseBefore(f[i], f[j])
  BY DEF Lists
<1>2. IsFiniteSet(P) /\ P \subseteq 1..n /\ P \in SUBSET Int
  <2>1. IsFiniteSet(1..n)
    BY <1>1, FS_Interval
  <2>2. P \subseteq 1..n
    BY <1>1
  <2> QED
    BY <2>1, <2>2, FS_Subset
<1>3. m \in Nat
  BY <1>2, FS_CardinalityType
<1>4. StrictOrder(P, R)
  BY <1>2, AscendingIsStrict
<1>5. Sorts(order, P, R) /\ \A x \in P : \E i \in 1..m : order[i] = x
  <2> HIDE DEF R
  <2> QED
    BY <1>2, <1>4, InOrderSorts
<1>6. /\ order \in [1..m -> P] /\ DOMAIN order = 1..m
      /\ \A i, j \in 1..m : i < j => order[i] < order[j]
  BY <1>5 DEF Sorts, Ascending
<1>7. AtPlaces(f, P) = g
  BY DEF AtPlaces
<1> HIDE DEF order, m, n
<1>8. g \in [1..m -> Q] /\ \A i \in 1..m : g[i] = f[order[i]]
  BY <1>1, <1>2, <1>6
<1> HIDE DEF g
<1>9. g \in Seq(Q) /\ DOMAIN g = 1..m
  BY <1>3, <1>8
<1>10. ASSUME NEW p \in Q PROVE \E i \in 1..m : g[i] = p
  <2>1. PICK k \in 1..n : f[k] = p
    BY <1>1
  <2>2. k \in P
    BY <1>1, <2>1
  <2>3. PICK i \in 1..m : order[i] = k
    BY <1>5, <2>2
  <2> QED
    BY <1>8, <2>1, <2>3
<1>11. ASSUME NEW i \in 1..m, NEW j \in 1..m, i < j PROVE PhaseBefore(g[i], g[j])
  <2>1. order[i] \in 1..n /\ order[j] \in 1..n /\ order[i] < order[j]
    BY <1>2, <1>6, <1>11
  <2> QED
    BY <1>1, <1>8, <2>1
<1> QED
  BY <1>7, <1>9, <1>10, <1>11 DEF Lists

\* The phases of gates have keys and are well sealed.
LEMMA PhasesAreSound ==
  ASSUME GateInv, SharesComplete
  PROVE  HaveKeys(Phases) /\ \A p \in Phases : WellSealed(p)
  BY RecordsTyped DEF HaveKeys

\* Exports of posted phases are in the order of the keys.
LEMMA PostedExports ==
  ASSUME GateInv, SharesComplete, NEW ps, NEW T, Posted(ps, T)
  PROVE  /\ Lists(Export(ps), ToSet(ps)) /\ Len(Export(ps)) = Len(ps)
         /\ ToSet(ps) \subseteq Phases
         /\ \A p \in ToSet(ps) : p.key[1] \in T
<1> DEFINE n == Len(ps)
           S == ToSet(ps)
<1>1. /\ n \in Nat /\ DOMAIN ps = 1..n /\ ps \in Seq(Phases)
      /\ \A i \in 1..n : ps[i] \in Phases /\ ps[i].key[1] \in T
      /\ \A i, j \in 1..n : ps[i].key = ps[j].key => i = j
  BY DEF Posted, DistinctKeys
<1>2. /\ \A i \in 1..n : ps[i] \in S
      /\ \A p \in S : \E i \in 1..n : ps[i] = p
  BY <1>1 DEF ToSet
<1>3. HaveKeys(Phases)
  BY PhasesAreSound
<1>4. S \subseteq Phases /\ \A p \in S : p.key[1] \in T
  BY <1>1, <1>2
<1>5. Keyed(ps)
  BY <1>1, <1>3 DEF Keyed, HaveKeys
<1> HIDE DEF n, S
<1>6. PICK order \in [1..n -> 1..n] :
        /\ Export(ps) = [i \in 1..n |-> ps[order[i]]]
        /\ \A j \in 1..n : \E i \in 1..n : order[i] = j
        /\ \A i, j \in 1..n : i < j => PlaceBefore(ps, order[i], order[j])
  <2>1. \E order \in [1..n -> 1..n] :
          /\ order = InOrder(1..n, PlacePairs(ps, 1..n))
          /\ Export(ps) = [i \in 1..n |-> ps[order[i]]]
          /\ \A j \in 1..n : \E i \in 1..n : order[i] = j
          /\ \A i, j \in 1..n : i < j => PlaceBefore(ps, order[i], order[j])
    BY <1>1, <1>5, ExportSorts
  <2> QED
    BY <2>1
<1> DEFINE f == Export(ps)
<1>7. f \in [1..n -> S] /\ \A i \in 1..n : f[i] = ps[order[i]]
  BY <1>2, <1>6
<1> HIDE DEF f
<1>8. f \in Seq(S) /\ Len(f) = n /\ DOMAIN f = 1..n
  BY <1>1, <1>7
<1>9. ASSUME NEW p \in S PROVE \E i \in 1..n : f[i] = p
  <2>1. PICK j \in 1..n : ps[j] = p
    BY <1>2
  <2>2. PICK i \in 1..n : order[i] = j
    BY <1>6
  <2> QED
    BY <1>7, <2>1, <2>2
<1>10. ASSUME NEW i \in 1..n, NEW j \in 1..n, i < j PROVE PhaseBefore(f[i], f[j])
  <2>1. PlaceBefore(ps, order[i], order[j])
    BY <1>6, <1>10
  <2>2. PhaseBefore(ps[order[i]], ps[order[j]])
          \/ (ps[order[i]].key = ps[order[j]].key /\ order[i] < order[j])
    BY <2>1 DEF PlaceBefore
  <2>3. order[i] \in 1..n /\ order[j] \in 1..n
    BY <1>6
  <2>4. CASE ps[order[i]].key = ps[order[j]].key /\ order[i] < order[j]
    <3>1. order[i] = order[j]
      BY <1>1, <2>3, <2>4
    <3> QED
      BY <1>1, <2>3, <2>4, <3>1
  <2> QED
    BY <1>7, <2>2, <2>4
<1>11. Lists(f, S)
  BY <1>8, <1>9, <1>10 DEF Lists
<1> QED
  BY <1>4, <1>8, <1>11 DEF f, n, S

-----------------------------------------------------------------------------
(* The order of the phases of an export is the one the verifier asks for.   *)

\* The sessions in use are finitely many.
LEMMA FinitelyManySessions == IsFiniteSet(Sessions)
<1> DEFINE n == Len(BaseSessions)
           D == (1..n) \X (0..3)
           f == [d \in D |-> SubSession(BaseSessions[d[1]], d[2])]
<1>1. n \in Nat /\ DOMAIN BaseSessions = 1..n
  BY SessionAssumption
<1>0. n \in Int /\ 0 \in Int /\ 1 \in Int /\ 3 \in Int
  BY <1>1
<1>2. IsFiniteSet(D)
  <2>1. IsFiniteSet(1..n) /\ IsFiniteSet(0..3)
    <3> HIDE DEF n
    <3> QED
      BY <1>1, <1>0, FS_Interval
  <2> HIDE DEF n
  <2> QED
    BY <2>1, FS_Product
<1>3. \A b \in Bases : \E i \in 1..n : BaseSessions[i] = b
  BY <1>1, BasesAreSessions
<1>4. \A i \in 1..n : BaseSessions[i] \in Bases
  BY <1>1 DEF Bases, ToSet
<1>5. \A i \in 1..n, k \in 0..3 : <<i, k>> \in D /\ f[<<i, k>>] = SubSession(BaseSessions[i], k)
  <2> TAKE i \in 1..n, k \in 0..3
  <2>1. <<i, k>> \in D /\ <<i, k>>[1] = i /\ <<i, k>>[2] = k
    OBVIOUS
  <2> HIDE DEF D
  <2> QED
    BY <2>1
<1>6. \A d \in D : \E i \in 1..n, k \in 0..3 : d = <<i, k>>
  OBVIOUS
<1>7. DOMAIN f = D
  OBVIOUS
<1> HIDE DEF D, f, n
<1>8. ASSUME NEW d \in D PROVE f[d] \in Sessions
  <2>1. PICK i \in 1..n, k \in 0..3 : d = <<i, k>>
    BY <1>6
  <2>2. f[d] = SubSession(BaseSessions[i], k)
    BY <1>5, <2>1
  <2>3. BaseSessions[i] \in Bases
    BY <1>4
  <2>4. SubSession(BaseSessions[i], k) \in Sessions
    BY <2>3, SessionsAre
  <2> QED
    BY <2>2, <2>4
<1>9. ASSUME NEW s \in Sessions PROVE \E d \in D : f[d] = s
  <2>1. PICK b \in Bases, k \in 0..3 : s = SubSession(b, k)
    BY SessionsAre
  <2>2. PICK i \in 1..n : BaseSessions[i] = b
    BY <1>3
  <2>3. <<i, k>> \in D /\ f[<<i, k>>] = SubSession(BaseSessions[i], k)
    BY <1>5
  <2> QED
    BY <2>1, <2>2, <2>3
<1>10. f = [d \in D |-> f[d]]
  BY DEF f
<1>11. f \in Surjection(D, Sessions)
  BY <1>7, <1>8, <1>9, <1>10 DEF Surjection
<1> QED
  BY <1>2, <1>11, FS_Surjection

\* Sessions precede each other in the verifier's order as in the export's.
LEMMA SessionsPrecede ==
  ASSUME NEW s \in Sessions, NEW t \in Sessions, SessionBefore(s, t)
  PROVE  Board!Precedes(SessionOrder, s, t)
<1> DEFINE R == {p \in Sessions \X Sessions : SessionBefore(p[1], p[2])}
           n == Cardinality(Sessions)
<1>1. /\ \A x \in Sessions : <<x, x>> \notin R
      /\ \A x, y \in Sessions : <<x, y>> \in R <=> SessionBefore(x, y)
      /\ \A x, y, z \in Sessions : <<x, y>> \in R /\ <<y, z>> \in R => <<x, z>> \in R
      /\ \A x, y \in Sessions : x # y => <<x, y>> \in R \/ <<y, x>> \in R
  BY SessionsAre, SessionsAreOrdered
<1>2. SessionOrder = InOrder(Sessions, R)
  BY DEF SessionOrder
<1> HIDE DEF R
<1>3. IsFiniteSet(Sessions) /\ StrictOrder(Sessions, R) /\ n \in Nat
  BY <1>1, FinitelyManySessions, FS_CardinalityType DEF StrictOrder
<1>4. /\ Sorts(SessionOrder, Sessions, R)
      /\ \A x \in Sessions : \E i \in 1..n : SessionOrder[i] = x
  BY <1>2, <1>3, InOrderSorts
<1>5. /\ DOMAIN SessionOrder = 1..n
      /\ \A i, j \in 1..n : i < j => <<SessionOrder[i], SessionOrder[j]>> \in R
  BY <1>4 DEF Sorts
<1>6. PICK i \in 1..n : SessionOrder[i] = s
  BY <1>4
<1>7. PICK j \in 1..n : SessionOrder[j] = t
  BY <1>4
<1>8. i < j
  <2>1. CASE j < i
    <3>1. <<t, s>> \in R /\ <<s, t>> \in R
      BY <1>1, <1>5, <1>6, <1>7, <2>1
    <3> QED
      BY <1>1, <3>1
  <2>2. CASE i = j
    <3>1. <<s, s>> \in R
      BY <1>1, <1>6, <1>7, <2>2
    <3> QED
      BY <1>1, <3>1
  <2> QED
    BY <1>3, <2>1, <2>2
<1> QED
  BY <1>5, <1>6, <1>7, <1>8 DEF Board!Precedes

\* So do the names of phases.
LEMMA NamesPrecede ==
  ASSUME NEW n \in Names, NEW m \in Names, NameIndex[n] < NameIndex[m]
  PROVE  Board!Precedes(NameOrder, n, m)
<1>1. ASSUME NEW x \in Names
      PROVE  NameIndex[x] \in DOMAIN NameOrder /\ NameOrder[NameIndex[x]] = x
  <2>1. \E i \in DOMAIN NameOrder : NameOrder[i] = x
    BY DEF Names, ToSet
  <2>2. NameIndex[x] = CHOOSE i \in DOMAIN NameOrder : NameOrder[i] = x
    BY DEF NameIndex, Names
  <2> QED
    BY <2>1, <2>2
<1> QED
  BY <1>1 DEF Board!Precedes

\* verifyBroadcastTranscript accepts every export of posted phases.
LEMMA PostedVerifies ==
  ASSUME GateInv, SharesComplete, NEW ps, NEW T, Posted(ps, T)
  PROVE  BoardVerifies(Export(ps))
<1> DEFINE f == Export(ps)
           S == ToSet(ps)
           t == [status |-> "OPEN", abortRecord |-> {}, phases |-> f]
<1>1. Lists(f, S) /\ S \subseteq Phases
  BY PostedExports
<1>2. \A p \in S : WellSealed(p)
  BY <1>1, PhasesAreSound
<1>3. \A i \in DOMAIN ps : ps[i] \in S
  BY DEF ToSet
<1>4. \A p \in S : \E i \in DOMAIN ps : ps[i] = p
  BY DEF ToSet
<1>5. t.status = "OPEN" /\ t.abortRecord = {} /\ t.phases = f
  OBVIOUS
<1> HIDE DEF f, S, t
<1>6. /\ f \in Seq(S) /\ Len(f) \in Nat /\ DOMAIN f = 1..Len(f)
      /\ \A i \in DOMAIN f : f[i] \in S
      /\ \A p \in S : \E i \in DOMAIN f : f[i] = p
      /\ \A i, j \in DOMAIN f : i < j => PhaseBefore(f[i], f[j])
  BY <1>1 DEF Lists
<1>7. ASSUME NEW p \in S, NEW q \in S, PhaseBefore(p, q)
      PROVE  Board!KeyBefore(NameOrder, p.key, q.key)
  <2>1. p.key \in Sessions \X Names /\ q.key \in Sessions \X Names
    BY <1>2 DEF WellSealed
  <2>2. /\ p.key[1] \in Sessions /\ q.key[1] \in Sessions
        /\ p.key[2] \in Names /\ q.key[2] \in Names
    BY <2>1
  <2>3. CASE SessionBefore(p.key[1], q.key[1])
    BY <2>2, <2>3, SessionsPrecede DEF Board!KeyBefore
  <2>4. CASE p.key[1] = q.key[1] /\ NameIndex[p.key[2]] < NameIndex[q.key[2]]
    BY <2>2, <2>4, NamesPrecede DEF Board!KeyBefore
  <2> QED
    BY <1>7, <2>3, <2>4 DEF PhaseBefore
<1>8. Board!VerifyPhaseOrder(t)
  <2>1. ASSUME NEW i \in 2..Len(f) PROVE Board!KeyBefore(NameOrder, f[i - 1].key, f[i].key)
    <3>1. i - 1 \in DOMAIN f /\ i \in DOMAIN f /\ i - 1 < i
      BY <1>6
    <3> QED
      BY <1>6, <1>7, <3>1
  <2> QED
    BY <1>5, <2>1 DEF Board!VerifyPhaseOrder
<1>9. ASSUME NEW i \in DOMAIN f
      PROVE  /\ Board!CanonicalParticipants(f[i].required)
             /\ Board!VerifyBarrier(f[i]) /\ Board!VerifySubmissions(f[i])
  BY <1>2, <1>6 DEF WellSealed
<1>10. ASSUME NEW i \in DOMAIN f PROVE Board!VerifyDependency(t, f[i])
  <2>1. SUFFICES ASSUME f[i].dependsOn # NoPhase
                 PROVE  \E j \in DOMAIN f : /\ f[j].key = <<f[i].key[1], f[i].dependsOn>>
                                            /\ f[j].status = "SEALED"
    BY <1>5 DEF Board!VerifyDependency
  <2>2. PICK k \in DOMAIN ps : ps[k] = f[i]
    BY <1>4, <1>6
  <2>3. PICK l \in DOMAIN ps : ps[l].key = <<f[i].key[1], f[i].dependsOn>>
    BY <2>1, <2>2 DEF Posted, DependenciesMet
  <2>4. PICK j \in DOMAIN f : f[j] = ps[l]
    BY <1>3, <1>6
  <2>5. f[j].status = "SEALED"
    BY <1>2, <1>6 DEF WellSealed
  <2> QED
    BY <2>3, <2>4, <2>5
<1>11. Board!VerifyBroadcastTranscript(t)
  BY <1>5, <1>8, <1>9, <1>10 DEF Board!VerifyBroadcastTranscript
<1> QED
  BY <1>11 DEF BoardVerifies, t, f

\* What the phases of a gate depend on.
LEMMA DependenciesOfPhases ==
  ASSUME NEW r
  PROVE  /\ \A t : /\ MaskPhase(r, t).dependsOn = (IF t = 1 THEN NoPhase ELSE MaskingPhase(t - 1))
                   /\ MaskPhase(r, t).status = "SEALED"
                   /\ SharePhase(r, t).dependsOn = NoPhase /\ SharePhase(r, t).status = "SEALED"
         /\ XVector(r).dependsOn = NoPhase /\ XVector(r).status = "SEALED"
         /\ YVector(r).dependsOn = NoPhase /\ YVector(r).status = "SEALED"
  BY DEF MaskPhase, SharePhase, XVector, YVector, SealedPhase

SessionsBeforeShares(base) == {SubSession(base, k) : k \in 0..2}

\* A gate posts masks, contributions and then shares, each once.
LEMMA GatePosts ==
  ASSUME GateInv, SharesComplete, NEW base \in Bases, NEW r, r = GateRecord(base)
  PROVE  /\ Posted(PhasesBeforeShares(r), SessionsBeforeShares(base))
         /\ Posted(SharePhases(r), {SubSession(base, 3)})
<1> DEFINE N == Trustees
           a == PhasesBeforeShares(r)
           b == SharePhases(r)
           S == GatePhases(r)
<1>1. N \in Nat /\ TrusteeIds = 1..N
  BY SetupAssumption DEF TrusteeIds
<1>2. /\ a \in Seq(S) /\ Len(a) = N + 2 /\ b \in Seq(S) /\ Len(b) = N
      /\ \A t \in 1..N : a[t] = MaskPhase(r, t) /\ b[t] = SharePhase(r, t)
      /\ a[N + 1] = XVector(r) /\ a[N + 2] = YVector(r)
  BY <1>1, PhasesOfGate
<1>3. S \subseteq Phases
  BY RecordsTyped
<1>4. /\ r.maskingSession = SubSession(base, 0) /\ r.x.session = SubSession(base, 1)
      /\ r.y.session = SubSession(base, 2) /\ r.partialSession = SubSession(base, 3)
  BY RecordFields
<1>5. /\ \A t : /\ MaskPhase(r, t).key = <<SubSession(base, 0), MaskingPhase(t)>>
                /\ SharePhase(r, t).key = <<SubSession(base, 3), PartialPhase(t)>>
      /\ XVector(r).key = <<SubSession(base, 1), XPhase>>
      /\ YVector(r).key = <<SubSession(base, 2), YPhase>>
  <2>1. /\ \A t : /\ MaskPhase(r, t).key = <<r.maskingSession, MaskingPhase(t)>>
                  /\ SharePhase(r, t).key = <<r.partialSession, PartialPhase(t)>>
        /\ XVector(r).key = <<r.x.session, XPhase>>
        /\ YVector(r).key = <<r.y.session, YPhase>>
    BY FieldsOfPhases
  <2> QED
    BY ONLY <1>4, <2>1
<1> HIDE DEF a, b, S, N
<1>6. DOMAIN a = 1..(N + 2) /\ DOMAIN b = 1..N /\ a \in Seq(Phases) /\ b \in Seq(Phases)
  BY <1>1, <1>2, <1>3
<1>7. ASSUME NEW i \in 1..(N + 2)
      PROVE  \/ i \in 1..N /\ a[i] = MaskPhase(r, i)
             \/ i = N + 1 /\ a[i] = XVector(r)
             \/ i = N + 2 /\ a[i] = YVector(r)
  BY <1>1, <1>2
<1>8. ASSUME NEW i \in 1..(N + 2) PROVE a[i].key[1] \in SessionsBeforeShares(base)
  <2>1. \A k \in {0, 1, 2} : SubSession(base, k) \in SessionsBeforeShares(base)
    BY DEF SessionsBeforeShares
  <2>2. \A s, n : <<s, n>>[1] = s
    OBVIOUS
  <2> QED
    BY <1>5, <1>7, <2>1, <2>2
<1>9. DistinctKeys(a)
  <2> SUFFICES ASSUME NEW i \in 1..(N + 2), NEW j \in 1..(N + 2), a[i].key = a[j].key PROVE i = j
    BY <1>6 DEF DistinctKeys
  <2>1. \A s, n, t, m : <<s, n>> = <<t, m>> => n = m
    OBVIOUS
  <2>2. \/ i \in 1..N /\ a[i].key = <<SubSession(base, 0), MaskingPhase(i)>>
        \/ i = N + 1 /\ a[i].key = <<SubSession(base, 1), XPhase>>
        \/ i = N + 2 /\ a[i].key = <<SubSession(base, 2), YPhase>>
    BY <1>5, <1>7
  <2>3. \/ j \in 1..N /\ a[j].key = <<SubSession(base, 0), MaskingPhase(j)>>
        \/ j = N + 1 /\ a[j].key = <<SubSession(base, 1), XPhase>>
        \/ j = N + 2 /\ a[j].key = <<SubSession(base, 2), YPhase>>
    BY <1>5, <1>7
  <2> QED
    BY <2>1, <2>2, <2>3, NamesDiffer
<1>10. DependenciesMet(a)
  <2> SUFFICES ASSUME NEW i \in 1..(N + 2), a[i].dependsOn # NoPhase
               PROVE  \E j \in 1..(N + 2) : a[j].key = <<a[i].key[1], a[i].dependsOn>>
    BY <1>6 DEF DependenciesMet
  <2>1. i \in 1..N /\ a[i] = MaskPhase(r, i) /\ i # 1
    BY <1>7, DependenciesOfPhases
  <2>2. i - 1 \in 1..N /\ i - 1 \in 1..(N + 2)
    BY <1>1, <2>1
  <2>3. a[i].key = <<SubSession(base, 0), MaskingPhase(i)>> /\ a[i].dependsOn = MaskingPhase(i - 1)
    BY <1>5, <2>1, DependenciesOfPhases
  <2>4. a[i - 1].key = <<SubSession(base, 0), MaskingPhase(i - 1)>>
    BY <1>2, <1>5, <2>2
  <2> QED
    BY <2>2, <2>3, <2>4
<1>11. \A i \in 1..N : b[i].key[1] \in {SubSession(base, 3)}
  BY <1>2, <1>5
<1>12. DistinctKeys(b)
  <2> SUFFICES ASSUME NEW i \in 1..N, NEW j \in 1..N, b[i].key = b[j].key PROVE i = j
    BY <1>6 DEF DistinctKeys
  <2>1. PartialPhase(i) = PartialPhase(j)
    BY <1>2, <1>5
  <2> QED
    BY <2>1, NamesDiffer
<1>13. DependenciesMet(b)
  BY <1>2, <1>6, DependenciesOfPhases DEF DependenciesMet
<1> QED
  BY <1>6, <1>8, <1>9, <1>10, <1>11, <1>12, <1>13 DEF Posted, a, b

-----------------------------------------------------------------------------
(* What the verifier finds on such a board.                                 *)

\* A sealed phase of a list is found under its key.
LEMMA FoundOnBoard ==
  ASSUME NEW S, HaveKeys(S), NEW board, Lists(board, S),
         NEW session, NEW name, NEW p \in S, p.key = <<session, name>>, p.status = "SEALED"
  PROVE  HasVector(board, session, name) /\ VectorFor(board, session, name) = Listed(p)
<1>1. \A q \in S : q.key = p.key => q = p
  BY OneList
<1>2. /\ \A i \in DOMAIN board : board[i] \in S
      /\ \A q \in S : \E i \in DOMAIN board : board[i] = q
  BY DEF Lists
<1> DEFINE i == CHOOSE k \in DOMAIN board : board[k].key = <<session, name>>
<1>3. \E k \in DOMAIN board : board[k] = p
  BY <1>2
<1>4. i \in DOMAIN board /\ board[i].key = <<session, name>>
  BY <1>3
<1>5. VectorFor(board, session, name) = Listed(board[i])
  BY DEF VectorFor, Listed
<1> HIDE DEF i
<1>6. board[i] = p
  BY <1>1, <1>2, <1>4
<1> QED
  BY <1>3, <1>5, <1>6 DEF HasVector

\* The shares of a gate are what a prefix leaves out.
LEMMA OnlyShares ==
  ASSUME NEW r, NEW t, NEW s, r.partialSession = s
  PROVE  SharePhaseOf(SharePhase(r, t), s)
<1>1. /\ SharePhase(r, t).key = <<r.partialSession, PartialPhase(t)>>
      /\ SharePhase(r, t).key[2] = PartialPhase(t)
  BY FieldsOfPhases
<1>2. SharePhase(r, t).key[1] = s
  BY <1>1
<1> QED
  BY <1>1, <1>2 DEF SharePhaseOf, IsPartialPhase, PartialPhase

\* Taking a gate's shares off a board leaves the board before them.
LEMMA PrefixOfBoard ==
  ASSUME GateInv, SharesComplete, NEW base \in Bases, NEW r, r = GateRecord(base),
         NEW a, NEW T, Posted(a, T), SubSession(base, 3) \notin T,
         NEW board, board = Export(a \o SharePhases(r))
  PROVE  /\ WithoutShares(board, SubSession(base, 3)) = Export(a)
         /\ Len(Export(a)) = Len(board) - Trustees
<1> DEFINE b == SharePhases(r)
           s == SubSession(base, 3)
           A == ToSet(a)
           S == ToSet(a \o b)
           P == {i \in DOMAIN board : ~SharePhaseOf(board[i], s)}
<1>1. Posted(b, {s}) /\ Len(b) = Trustees /\ b \in Seq(Phases) /\ a \in Seq(Phases)
      /\ \A t \in TrusteeIds : b[t] = SharePhase(r, t)
  BY GatePosts, PhasesOfGate DEF Posted
<1>2. Posted(a \o b, T \cup {s})
  <2>1. T \cap {s} = {}
    OBVIOUS
  <2> HIDE DEF b, s
  <2> QED
    BY <1>1, <2>1, PostedTogether
<1>3. /\ Lists(board, S) /\ Len(board) = Len(a \o b) /\ S \subseteq Phases
      /\ Lists(Export(a), A) /\ Len(Export(a)) = Len(a)
      /\ \A p \in A : p.key[1] \in T
  BY <1>2, PostedExports
<1>4. Len(a \o b) = Len(a) + Trustees /\ Len(a) \in Nat /\ Trustees \in Nat
  <2> HIDE DEF b
  <2>1. Len(a \o b) = Len(a) + Len(b) /\ Len(a) \in Nat
    BY <1>1, ConcatProperties
  <2> QED
    BY <1>1, <2>1, SetupAssumption
<1>5. r.partialSession = s
  BY RecordFields
<1>6. DOMAIN b = TrusteeIds /\ DOMAIN a = 1..Len(a)
  BY <1>1, SetupAssumption DEF TrusteeIds
<1>7. \A p : p \in S <=> p \in A \/ p \in ToSet(b)
  <2> DEFINE c == a \o b
             n == Len(a)
             m == Len(b)
  <2>1. /\ c \in Seq(Phases) /\ Len(c) = n + m /\ n \in Nat /\ m \in Nat
        /\ \A i \in 1..(n + m) : c[i] = IF i <= n THEN a[i] ELSE b[i - n]
    BY <1>1, ConcatProperties
  <2>2. DOMAIN c = 1..(n + m) /\ DOMAIN a = 1..n /\ DOMAIN b = 1..m
    BY <1>1, <2>1
  <2>3. /\ \A p : p \in ToSet(c) <=> \E i \in 1..(n + m) : c[i] = p
        /\ \A p : p \in ToSet(a) <=> \E i \in 1..n : a[i] = p
        /\ \A p : p \in ToSet(b) <=> \E i \in 1..m : b[i] = p
    BY <2>2 DEF ToSet
  <2> HIDE DEF c, n, m, b
  <2>4. ASSUME NEW i \in 1..n PROVE i \in 1..(n + m) /\ c[i] = a[i]
    BY <2>1
  <2>5. ASSUME NEW i \in 1..m PROVE i + n \in 1..(n + m) /\ c[i + n] = b[i]
    <3>1. i + n \in 1..(n + m) /\ ~(i + n <= n) /\ (i + n) - n = i
      BY <2>1
    <3> QED
      BY <2>1, <3>1
  <2>6. ASSUME NEW i \in 1..(n + m)
        PROVE  (i \in 1..n /\ c[i] = a[i]) \/ (i - n \in 1..m /\ c[i] = b[i - n])
    BY <2>1
  <2> QED
    BY <2>3, <2>4, <2>5, <2>6 DEF c
<1>8. \A p \in ToSet(b) : SharePhaseOf(p, s)
  <2> TAKE p \in ToSet(b)
  <2>1. PICK t \in TrusteeIds : p = SharePhase(r, t)
    BY <1>1, <1>6 DEF ToSet
  <2> QED
    BY <1>5, <2>1, OnlyShares
<1>9. \A p \in A : ~SharePhaseOf(p, s)
  BY <1>3 DEF SharePhaseOf
<1> HIDE DEF A, S, b, s
<1>10. HaveKeys(S) /\ HaveKeys(A) /\ A \in SUBSET S
  <2>1. A \in SUBSET S
    BY <1>7
  <2> QED
    BY <1>3, <2>1, PhasesAreSound DEF HaveKeys
<1>11. \A i \in DOMAIN board : board[i] \in S
  BY <1>3 DEF Lists
<1>12. \A i \in DOMAIN board : i \in P <=> board[i] \in A
  BY <1>7, <1>8, <1>9, <1>11
<1>13. P \in SUBSET DOMAIN board
  OBVIOUS
<1>14. WithoutShares(board, s) = AtPlaces(board, P)
  BY DEF WithoutShares
<1> HIDE DEF P
<1>15. Lists(AtPlaces(board, P), A)
  BY <1>3, <1>10, <1>12, <1>13, PlacesOfList
<1>16. AtPlaces(board, P) = Export(a)
  <2>1. AtPlaces(board, P) = InOrder(A, KeyPairs(A))
    BY <1>10, <1>15, OneList
  <2>2. Export(a) = InOrder(A, KeyPairs(A))
    BY <1>3, <1>10, OneList
  <2> QED
    BY <2>1, <2>2
<1>17. Len(Export(a)) = Len(board) - Trustees
  BY <1>3, <1>4
<1> QED
  BY <1>14, <1>16, <1>17 DEF s

-----------------------------------------------------------------------------
(* What other gates left on the board.                                      *)

OtherSessions == {SubSession(b, k) : b \in Bases \ {Base}, k \in 0..3}

\* What is posted in some sessions is posted in more.
LEMMA PostedElsewhere ==
  ASSUME NEW ps, NEW T, NEW U, Posted(ps, T), T \subseteq U
  PROVE  Posted(ps, U)
  BY DEF Posted

\* The sessions of gates of different bases are different.
LEMMA SessionsOfGate ==
  ASSUME NEW b \in Bases, NEW T, T = SessionsBeforeShares(b)
  PROVE  /\ SubSession(b, 3) \notin T
         /\ \A c \in Bases, k \in 0..3 : c # b => SubSession(c, k) \notin T
         /\ \A c \in Bases : c # b => /\ SubSession(c, 3) # SubSession(b, 3)
                                      /\ SubSession(b, 3) \notin SessionsBeforeShares(c)
                                      /\ T \cap SessionsBeforeShares(c) = {}
         /\ b # Base => T \cup {SubSession(b, 3)} \subseteq OtherSessions
<1>1. \A c, d \in Bases, k, l \in 0..3 : SubSession(c, k) = SubSession(d, l) => c = d /\ k = l
  BY SessionsAre
<1>2. \A c : \A s \in SessionsBeforeShares(c) : \E k \in 0..2 : s = SubSession(c, k)
  BY DEF SessionsBeforeShares
<1>3. 3 \in 0..3 /\ \A k \in 0..2 : k \in 0..3 /\ k # 3
  OBVIOUS
<1>4. SubSession(b, 3) \notin T
  BY <1>1, <1>2, <1>3
<1>5. ASSUME NEW c \in Bases, NEW k \in 0..3, c # b PROVE SubSession(c, k) \notin T
  BY <1>1, <1>2, <1>3, <1>5
<1>6. ASSUME NEW c \in Bases, c # b
      PROVE  /\ SubSession(c, 3) # SubSession(b, 3)
             /\ SubSession(b, 3) \notin SessionsBeforeShares(c)
             /\ T \cap SessionsBeforeShares(c) = {}
  <2>1. SubSession(c, 3) # SubSession(b, 3)
    BY <1>1, <1>3, <1>6
  <2>2. SubSession(b, 3) \notin SessionsBeforeShares(c)
    BY <1>1, <1>2, <1>3, <1>6
  <2>3. ASSUME NEW s \in SessionsBeforeShares(c) PROVE s \notin T
    <3>1. PICK k \in 0..2 : s = SubSession(c, k)
      BY <1>2
    <3> QED
      BY <1>3, <1>5, <1>6, <3>1
  <2> QED
    BY <2>1, <2>2, <2>3
<1>7. ASSUME b # Base PROVE T \cup {SubSession(b, 3)} \subseteq OtherSessions
  BY <1>2, <1>3, <1>7 DEF OtherSessions
<1> QED
  BY <1>4, <1>5, <1>6, <1>7

\* A whole gate on a board.
LEMMA GateIsPosted ==
  ASSUME GateInv, SharesComplete, NEW b \in Bases
  PROVE  Posted(PhasesBeforeShares(GateRecord(b)) \o SharePhases(GateRecord(b)),
                SessionsBeforeShares(b) \cup {SubSession(b, 3)})
<1> DEFINE x == PhasesBeforeShares(GateRecord(b))
           y == SharePhases(GateRecord(b))
           T == SessionsBeforeShares(b)
           U == {SubSession(b, 3)}
<1>1. Posted(x, T) /\ Posted(y, U)
  BY GatePosts
<1>2. T \cap U = {}
  BY SessionsOfGate
<1> HIDE DEF x, y, T, U
<1>3. Posted(x \o y, T \cup U)
  BY <1>1, <1>2, PostedTogether
<1> QED
  BY <1>3 DEF x, y, T, U

\* What other gates left on the board was posted, in their sessions.
LEMMA BoardsArePosted ==
  ASSUME GateInv, SharesComplete, NEW before \in BoardsBefore
  PROVE  Posted(before, OtherSessions)
<1> DEFINE phasesOf(b) == PhasesBeforeShares(GateRecord(b))
           complete(b) == phasesOf(b) \o SharePhases(GateRecord(b))
           others == Bases \ {Base}
<1>1. \/ before = <<>>
      \/ \E b \in others : before = phasesOf(b)
      \/ \E p \in others \X others : p[1] # p[2] /\ before = complete(p[1]) \o phasesOf(p[2])
  BY DEF BoardsBefore, Bases
<1>2. CASE before = <<>>
  BY <1>2 DEF Posted, DistinctKeys, DependenciesMet
<1>3. ASSUME NEW b \in others
      PROVE  /\ Posted(phasesOf(b), SessionsBeforeShares(b))
             /\ Posted(complete(b), SessionsBeforeShares(b) \cup {SubSession(b, 3)})
             /\ SessionsBeforeShares(b) \cup {SubSession(b, 3)} \subseteq OtherSessions
  <2>1. Posted(phasesOf(b), SessionsBeforeShares(b))
    BY GatePosts
  <2>2. Posted(complete(b), SessionsBeforeShares(b) \cup {SubSession(b, 3)})
    BY GateIsPosted
  <2>3. SessionsBeforeShares(b) \cup {SubSession(b, 3)} \subseteq OtherSessions
    BY SessionsOfGate
  <2> QED
    BY <2>1, <2>2, <2>3
<1> HIDE DEF phasesOf, complete
<1>4. ASSUME NEW b \in others, before = phasesOf(b)
      PROVE  Posted(before, OtherSessions)
  BY <1>3, <1>4, PostedElsewhere
<1>5. ASSUME NEW b \in others, NEW c \in others, b # c, before = complete(b) \o phasesOf(c)
      PROVE  Posted(before, OtherSessions)
  <2> DEFINE T == SessionsBeforeShares(b) \cup {SubSession(b, 3)}
             U == SessionsBeforeShares(c)
             x == complete(b)
             y == phasesOf(c)
  <2>1. T \cap U = {}
    BY <1>5, SessionsOfGate
  <2>2. Posted(x, T) /\ Posted(y, U) /\ T \cup U \subseteq OtherSessions /\ before = x \o y
    BY <1>3, <1>5
  <2> HIDE DEF T, U, x, y
  <2>3. Posted(x \o y, T \cup U)
    BY <2>1, <2>2, PostedTogether
  <2> QED
    BY <2>2, <2>3, PostedElsewhere
<1> QED
  BY <1>1, <1>2, <1>4, <1>5

-----------------------------------------------------------------------------
(* The adapted record of a gate on such a board.                            *)

\* The parts of an adapted record.
LEMMA AdaptedFields ==
  ASSUME NEW r, NEW before, NEW q, q = Adapted(r, before)
  PROVE  /\ q.maskingSession = r.maskingSession /\ q.masked = r.masking[Trustees].next
         /\ q.x.session = r.x.session /\ q.x.input = r.x.input /\ q.x.output = r.x.output
         /\ q.y.session = r.y.session /\ q.y.input = r.y.input /\ q.y.output = r.y.output
         /\ q.partialSession = r.partialSession
         /\ q.prefix = Export(before \o PhasesBeforeShares(r))
         /\ q.openedSign = r.openedSign /\ q.output = r.output
         /\ q.board = Export((before \o PhasesBeforeShares(r)) \o SharePhases(r))
  BY DEF Adapted

\* The board of a gate: sound, with the gate's phases on it, and the prefix.
LEMMA GateBoardIsSound ==
  ASSUME GateInv, SharesComplete, NEW before, Posted(before, OtherSessions),
         NEW r, r = GateRecord(Base), NEW q, q = Adapted(r, before)
  PROVE  /\ BoardVerifies(q.board) /\ PrefixVerifies(q, q.partialSession)
         /\ \E S : Lists(q.board, S) /\ HaveKeys(S) /\ GatePhases(r) \subseteq S /\ S \subseteq Phases
<1> DEFINE a == before \o PhasesBeforeShares(r)
           c == a \o SharePhases(r)
           O == OtherSessions
           T == SessionsBeforeShares(Base)
           s == SubSession(Base, 3)
<1>1. Base \in Bases
  BY BasesAreSessions
<1>2. Posted(PhasesBeforeShares(r), T) /\ Posted(SharePhases(r), {s})
  BY <1>1, GatePosts
<1>3. O \cap T = {} /\ s \notin O /\ s \notin T
  <2>1. \A u \in O : \E b \in Bases \ {Base}, k \in 0..3 : u = SubSession(b, k)
    BY DEF OtherSessions
  <2>2. \A b \in Bases, k \in 0..3 : b # Base => SubSession(b, k) \notin T
    BY <1>1, SessionsOfGate
  <2>3. s \notin T
    BY <1>1, SessionsOfGate
  <2>4. s \notin O
    BY <1>1, <2>1, SessionsAre
  <2> HIDE DEF O, T
  <2> QED
    BY <2>1, <2>2, <2>3, <2>4
<1>4. Posted(a, O \cup T)
  <2> DEFINE x == PhasesBeforeShares(r)
  <2>1. Posted(x, T) /\ Posted(before, O) /\ O \cap T = {}
    BY <1>2, <1>3
  <2> HIDE DEF x, O, T
  <2>2. Posted(before \o x, O \cup T)
    BY <2>1, PostedTogether
  <2> QED
    BY <2>2 DEF x
<1>5. Posted(c, (O \cup T) \cup {s})
  <2> DEFINE y == SharePhases(r)
             V == O \cup T
             W == {s}
  <2>1. Posted(a, V) /\ Posted(y, W) /\ V \cap W = {}
    BY <1>2, <1>3, <1>4
  <2> HIDE DEF y, V, W, a
  <2>2. Posted(a \o y, V \cup W)
    BY <2>1, PostedTogether
  <2> QED
    BY <2>2 DEF y, V, W
<1>6. /\ q.board = Export(c) /\ q.prefix = Export(a) /\ q.partialSession = s
  <2>1. q.board = Export(c) /\ q.prefix = Export(a) /\ q.partialSession = r.partialSession
    BY AdaptedFields
  <2> QED
    BY <2>1, RecordFields
<1>7. BoardVerifies(q.board)
  <2> HIDE DEF c, O, T, s
  <2> QED
    BY <1>5, <1>6, PostedVerifies
<1>8. /\ WithoutShares(q.board, s) = Export(a)
      /\ Len(Export(a)) = Len(q.board) - Trustees
  <2> DEFINE V == O \cup T
  <2>1. Posted(a, V) /\ s \notin V /\ q.board = Export(a \o SharePhases(r))
    BY <1>3, <1>4, <1>6
  <2> HIDE DEF a, V
  <2> QED
    BY <1>1, <2>1, PrefixOfBoard
<1>9. PrefixVerifies(q, q.partialSession)
  <2> HIDE DEF a, c, s
  <2> QED
    BY <1>6, <1>8 DEF PrefixVerifies
<1> DEFINE S == ToSet(c)
<1>10. Lists(q.board, S) /\ S \subseteq Phases
  <2> DEFINE V == (O \cup T) \cup {s}
  <2>1. Posted(c, V)
    BY <1>5
  <2> HIDE DEF c, V
  <2> QED
    BY <1>6, <2>1, PostedExports
<1>11. HaveKeys(S)
  BY <1>10, PhasesAreSound DEF HaveKeys
<1>12. GatePhases(r) \subseteq S
  <2> DEFINE x == PhasesBeforeShares(r)
             y == SharePhases(r)
             N == Trustees
             n == Len(before)
  <2>1. /\ before \in Seq(Phases) /\ x \in Seq(Phases) /\ y \in Seq(Phases) /\ a \in Seq(Phases)
        /\ c \in Seq(Phases)
    BY <1>2, <1>4, <1>5 DEF Posted
  <2>2. /\ Len(x) = N + 2 /\ Len(y) = N /\ N \in Nat /\ n \in Nat /\ TrusteeIds = 1..N
        /\ \A t \in TrusteeIds : x[t] = MaskPhase(r, t) /\ y[t] = SharePhase(r, t)
        /\ x[N + 1] = XVector(r) /\ x[N + 2] = YVector(r)
    BY <2>1, PhasesOfGate, SetupAssumption DEF TrusteeIds
  <2> HIDE DEF x, y, N, n
  <2>3. /\ Len(a) = n + (N + 2)
        /\ \A i \in 1..(n + (N + 2)) : a[i] = IF i <= n THEN before[i] ELSE x[i - n]
    <3>1. a = before \o x
      BY DEF x
    <3> HIDE DEF a
    <3> QED
      <4>1. /\ Len(before \o x) = Len(before) + Len(x)
            /\ \A i \in 1..(Len(before) + Len(x)) :
                 (before \o x)[i] = IF i <= Len(before) THEN before[i] ELSE x[i - Len(before)]
        BY <2>1, ConcatProperties
      <4> QED
        BY <2>2, <3>1, <4>1 DEF n
  <2>4. /\ Len(c) = Len(a) + N
        /\ \A i \in 1..(Len(a) + N) : c[i] = IF i <= Len(a) THEN a[i] ELSE y[i - Len(a)]
    <3>1. c = a \o y
      BY DEF y
    <3> HIDE DEF a, c
    <3> QED
      BY <2>1, <2>2, <3>1, ConcatProperties
  <2> HIDE DEF a, c
  <2>5. \A i \in 1..(Len(a) + N) : c[i] \in S
    <3>1. DOMAIN c = 1..(Len(a) + N)
      BY <2>1, <2>4
    <3>2. \A i \in DOMAIN c : c[i] \in S
      BY DEF ToSet
    <3> QED
      BY <3>1, <3>2
  <2>6. ASSUME NEW i \in 1..(N + 2) PROVE x[i] \in S
    <3>1. i + n \in 1..(n + (N + 2)) /\ ~(i + n <= n) /\ (i + n) - n = i
      BY <2>2
    <3>2. a[i + n] = x[i]
      BY <2>3, <3>1
    <3>3. i + n \in 1..(Len(a) + N) /\ i + n <= Len(a)
      BY <2>2, <2>3, <3>1
    <3> QED
      BY <2>4, <2>5, <3>2, <3>3
  <2>7. ASSUME NEW i \in 1..N PROVE y[i] \in S
    <3>1. /\ i + Len(a) \in 1..(Len(a) + N) /\ ~(i + Len(a) <= Len(a))
          /\ (i + Len(a)) - Len(a) = i
      <4>1. Len(a) \in Nat
        BY <2>2, <2>3
      <4> QED
        BY <2>2, <4>1
    <3> QED
      BY <2>4, <2>5, <3>1
  <2>8. \A t \in 1..N : t \in 1..(N + 2)
    BY <2>2
  <2>9. N + 1 \in 1..(N + 2) /\ N + 2 \in 1..(N + 2)
    BY <2>2
  <2>10. /\ \A t \in TrusteeIds : MaskPhase(r, t) \in S /\ SharePhase(r, t) \in S
         /\ XVector(r) \in S /\ YVector(r) \in S
    BY <2>2, <2>6, <2>7, <2>8, <2>9
  <2> HIDE DEF S
  <2> QED
    BY <2>10 DEF GatePhases
<1> HIDE DEF S
<1> QED
  BY <1>7, <1>9, <1>10, <1>11, <1>12

\* What the verifier reads from a board that holds the gate's phases.
LEMMA OwnVectors ==
  ASSUME NEW r \in NativeRecords, NEW before, NEW q, q = Adapted(r, before),
         NEW S, HaveKeys(S), Lists(q.board, S), GatePhases(r) \subseteq S
  PROVE  /\ OnBoard(q) /\ Masks(q) = r.masking
         /\ WithVector(q, q.x, XPhase) = r.x /\ WithVector(q, q.y, YPhase) = r.y
         /\ \A t \in TrusteeIds : Shares(q)[t] = ShareMessage(r, t)
<1>1. /\ q.maskingSession = r.maskingSession /\ q.partialSession = r.partialSession
      /\ q.x.session = r.x.session /\ q.x.input = r.x.input /\ q.x.output = r.x.output
      /\ q.y.session = r.y.session /\ q.y.input = r.y.input /\ q.y.output = r.y.output
  BY AdaptedFields
<1>2. /\ \A t \in TrusteeIds : MaskPhase(r, t) \in S /\ SharePhase(r, t) \in S
      /\ XVector(r) \in S /\ YVector(r) \in S
  BY DEF GatePhases
<1> DEFINE b == q.board
<1>3. ASSUME NEW session, NEW name, NEW p \in S, p.key = <<session, name>>, p.status = "SEALED"
      PROVE  HasVector(b, session, name) /\ VectorFor(b, session, name) = Listed(p)
  BY <1>3, FoundOnBoard
<1> HIDE DEF b
<1>4. ASSUME NEW t \in TrusteeIds
      PROVE  /\ HasVector(b, r.maskingSession, MaskingPhase(t))
             /\ VectorFor(b, r.maskingSession, MaskingPhase(t)) = <<r.masking[t]>>
             /\ HasVector(b, r.partialSession, PartialPhase(t))
             /\ VectorFor(b, r.partialSession, PartialPhase(t)) = <<ShareMessage(r, t)>>
  <2> DEFINE p == MaskPhase(r, t)
             w == SharePhase(r, t)
  <2>1. /\ p.key = <<r.maskingSession, MaskingPhase(t)>> /\ Listed(p) = <<r.masking[t]>>
        /\ w.key = <<r.partialSession, PartialPhase(t)>> /\ Listed(w) = <<ShareMessage(r, t)>>
    BY FieldsOfPhases
  <2>2. p.status = "SEALED" /\ w.status = "SEALED" /\ p \in S /\ w \in S
    BY <1>2, DependenciesOfPhases
  <2> HIDE DEF p, w
  <2>3. /\ HasVector(b, r.maskingSession, MaskingPhase(t))
        /\ VectorFor(b, r.maskingSession, MaskingPhase(t)) = Listed(p)
    BY <1>3, <2>1, <2>2
  <2>4. /\ HasVector(b, r.partialSession, PartialPhase(t))
        /\ VectorFor(b, r.partialSession, PartialPhase(t)) = Listed(w)
    BY <1>3, <2>1, <2>2
  <2> QED
    BY <2>1, <2>3, <2>4
<1>5. /\ HasVector(b, r.x.session, XPhase)
      /\ VectorFor(b, r.x.session, XPhase) = [j \in TrusteeIds |-> r.x.vector[j]]
  <2> DEFINE p == XVector(r)
  <2>1. p.key = <<r.x.session, XPhase>> /\ Listed(p) = [j \in TrusteeIds |-> r.x.vector[j]]
    BY FieldsOfPhases
  <2>2. p.status = "SEALED" /\ p \in S
    BY <1>2, DependenciesOfPhases
  <2> HIDE DEF p
  <2>3. HasVector(b, r.x.session, XPhase) /\ VectorFor(b, r.x.session, XPhase) = Listed(p)
    BY <1>3, <2>1, <2>2
  <2> QED
    BY <2>1, <2>3
<1>6. /\ HasVector(b, r.y.session, YPhase)
      /\ VectorFor(b, r.y.session, YPhase) = [j \in TrusteeIds |-> r.y.vector[j]]
  <2> DEFINE p == YVector(r)
  <2>1. p.key = <<r.y.session, YPhase>> /\ Listed(p) = [j \in TrusteeIds |-> r.y.vector[j]]
    BY FieldsOfPhases
  <2>2. p.status = "SEALED" /\ p \in S
    BY <1>2, DependenciesOfPhases
  <2> HIDE DEF p
  <2>3. HasVector(b, r.y.session, YPhase) /\ VectorFor(b, r.y.session, YPhase) = Listed(p)
    BY <1>3, <2>1, <2>2
  <2> QED
    BY <2>1, <2>3
<1>7. /\ r.masking \in [TrusteeIds -> MaskMessageSet]
      /\ r.x \in RerandomizationRecords /\ r.y \in RerandomizationRecords
  BY DEF NativeRecords
<1>8. ASSUME NEW e \in RerandomizationRecords
      PROVE  /\ [j \in TrusteeIds |-> e.vector[j]] = e.vector
             /\ e = [session |-> e.session, input |-> e.input, output |-> e.output, vector |-> e.vector]
  BY DEF RerandomizationRecords
<1>9. OnBoard(q)
  BY <1>1, <1>4, <1>5, <1>6 DEF OnBoard, b
<1>10. Masks(q) = r.masking
  <2>1. Masks(q) = [t \in TrusteeIds |-> VectorFor(b, r.maskingSession, MaskingPhase(t))[1]]
    BY <1>1 DEF Masks, b
  <2>2. \A t \in TrusteeIds : VectorFor(b, r.maskingSession, MaskingPhase(t))[1] = r.masking[t]
    BY <1>4
  <2> QED
    BY <1>7, <2>1, <2>2
<1>11. ASSUME NEW t \in TrusteeIds PROVE Shares(q)[t] = ShareMessage(r, t)
  <2>1. Shares(q)[t] = VectorFor(b, r.partialSession, PartialPhase(t))[1]
    BY <1>1 DEF Shares, b
  <2>2. VectorFor(b, r.partialSession, PartialPhase(t))[1] = ShareMessage(r, t)
    BY <1>4
  <2> QED
    BY <2>1, <2>2
<1>12. WithVector(q, q.x, XPhase) = r.x
  <2>1. WithVector(q, q.x, XPhase)
          = [session |-> r.x.session, input |-> r.x.input, output |-> r.x.output,
             vector |-> VectorFor(b, r.x.session, XPhase)]
    BY <1>1 DEF WithVector, b
  <2>2. VectorFor(b, r.x.session, XPhase) = r.x.vector
    BY <1>5, <1>7, <1>8
  <2> QED
    BY <1>7, <1>8, <2>1, <2>2
<1>13. WithVector(q, q.y, YPhase) = r.y
  <2>1. WithVector(q, q.y, YPhase)
          = [session |-> r.y.session, input |-> r.y.input, output |-> r.y.output,
             vector |-> VectorFor(b, r.y.session, YPhase)]
    BY <1>1 DEF WithVector, b
  <2>2. VectorFor(b, r.y.session, YPhase) = r.y.vector
    BY <1>6, <1>7, <1>8
  <2> QED
    BY <1>7, <1>8, <2>1, <2>2
<1> QED
  BY <1>9, <1>10, <1>11, <1>12, <1>13

\* verifyConditionalGateTranscript accepts the adapted record of an open gate.
LEMMA HonestVerify ==
  ASSUME GateInv, MasksAreHonest, outcome = "opened", NEW before \in BoardsBefore
  PROVE  Verify(Adapted(GateRecord(Base), before))
<1> DEFINE r == GateRecord(Base)
           q == Adapted(r, before)
           a == Authorization(r.partialSession, r.y.output)
<1>1. SharesComplete
  BY DEF GateInv, OutcomeFollows
<1>2. /\ r \in NativeRecords /\ NativeVerify(r) /\ OpeningVerifies(r, r.partials)
      /\ \A t \in TrusteeIds : r.partials[t].trustee = t /\ r.partials[t].authorization = a
  BY BasesAreSessions, HonestRecord
<1>3. Posted(before, OtherSessions)
  BY <1>1, BoardsArePosted
<1>4. /\ BoardVerifies(q.board) /\ PrefixVerifies(q, q.partialSession)
      /\ \E S : Lists(q.board, S) /\ HaveKeys(S) /\ GatePhases(r) \subseteq S /\ S \subseteq Phases
  BY <1>1, <1>3, GateBoardIsSound
<1>5. /\ q.maskingSession = r.maskingSession /\ q.masked = r.masking[Trustees].next
      /\ q.x.session = r.x.session /\ q.x.input = r.x.input /\ q.x.output = r.x.output
      /\ q.y.session = r.y.session /\ q.y.input = r.y.input /\ q.y.output = r.y.output
      /\ q.partialSession = r.partialSession
      /\ q.openedSign = r.openedSign /\ q.output = r.output
  BY AdaptedFields
<1>6. SessionsDerived(q)
  <2>1. /\ r.maskingSession = SubSession(Base, 0) /\ r.x.session = SubSession(Base, 1)
        /\ r.y.session = SubSession(Base, 2) /\ r.partialSession = SubSession(Base, 3)
    BY RecordFields
  <2>2. SubSessions(Base) = <<SubSession(Base, 0), SubSession(Base, 1), SubSession(Base, 2), SubSession(Base, 3)>>
    BY DEF SubSessions
  <2> HIDE DEF q, r
  <2> QED
    BY <1>5, <2>1, <2>2 DEF SessionsDerived
<1> HIDE DEF r, q
<1>7. /\ OnBoard(q) /\ Masks(q) = r.masking
      /\ WithVector(q, q.x, XPhase) = r.x /\ WithVector(q, q.y, YPhase) = r.y
      /\ \A t \in TrusteeIds : Shares(q)[t] = ShareMessage(r, t)
  <2>1. PICK S : Lists(q.board, S) /\ HaveKeys(S) /\ GatePhases(r) \subseteq S
    BY <1>4
  <2>2. q = Adapted(r, before)
    BY DEF q
  <2> QED
    BY <1>2, <2>1, <2>2, OwnVectors
<1>8. /\ ChainVerifies(r.masking, r.maskingSession)
      /\ RerandomizationVerifies(r.x, r.masking[Trustees].next.X, {r.x.session})
      /\ RerandomizationVerifies(r.y, r.masking[Trustees].next.Y, {r.y.session})
      /\ \A t \in TrusteeIds : ShareProofValid(r.partials[t], r.y.output)
      /\ r.output = GateOutput(inputX, r.openedSign, r.x.output)
  BY <1>2 DEF NativeVerify, AuthorizedCiphertext, Authorization
<1>9. /\ ChainVerifies(Masks(q), q.maskingSession)
      /\ q.masked = Masks(q)[Trustees].next
      /\ RerandomizationVerifies(WithVector(q, q.x, XPhase), q.masked.X, {q.x.session})
      /\ RerandomizationVerifies(WithVector(q, q.y, YPhase), q.masked.Y, {q.y.session})
  BY <1>5, <1>7, <1>8
<1>10. /\ AuthorizedCiphertext(q) = r.y.output /\ AuthorizedCiphertext(r) = r.y.output
       /\ Authorization(q.partialSession, AuthorizedCiphertext(q)) = a
       /\ a.ciphertext = r.y.output
  BY <1>5 DEF AuthorizedCiphertext, Authorization
<1> HIDE DEF a
<1>11. ASSUME NEW t \in TrusteeIds PROVE ShareVerifies(Shares(q)[t], t, a)
  <2> DEFINE m == ShareMessage(r, t)
  <2>1. /\ m.trustee = t /\ m.authorization = a /\ m.proven = r.partials[t].authorization
        /\ m.w = r.partials[t].w
    BY DEF ShareMessage, a
  <2> HIDE DEF m
  <2>2. ShareProofValid(m, r.y.output)
    BY <1>2, <1>8, <2>1 DEF ShareProofValid
  <2>3. Shares(q)[t] = m
    BY <1>7 DEF m
  <2> QED
    BY <1>2, <1>10, <2>1, <2>2, <2>3 DEF ShareVerifies
<1>12. OpeningVerifies(q, Shares(q))
  <2>1. \A t \in Quorum : t \in TrusteeIds
    BY FirstIds DEF Quorum
  <2>2. \A t \in TrusteeIds : Shares(q)[t].w = r.partials[t].w
    <3> TAKE t \in TrusteeIds
    <3>1. ShareMessage(r, t).w = r.partials[t].w
      BY DEF ShareMessage
    <3> QED
      BY <1>7, <3>1
  <2>3. [t \in Quorum |-> Shares(q)[t].w] = [t \in Quorum |-> r.partials[t].w]
    BY <2>1, <2>2
  <2> DEFINE v == [t \in Quorum |-> Shares(q)[t].w]
             w == [t \in Quorum |-> r.partials[t].w]
  <2>4. /\ v = w
        /\ OpeningVerifies(q, Shares(q)) <=>
             q.openedSign \in Signs /\ Combine(AuthorizedCiphertext(q), v, Quorum) = ScalarMod(q.openedSign)
        /\ OpeningVerifies(r, r.partials) <=>
             r.openedSign \in Signs /\ Combine(AuthorizedCiphertext(r), w, Quorum) = ScalarMod(r.openedSign)
    BY <2>3 DEF OpeningVerifies
  <2> HIDE DEF v, w
  <2> QED
    BY <1>2, <1>5, <1>10, <2>4
<1>13. \A t \in TrusteeIds : ShareVerifies(Shares(q)[t], t, Authorization(q.partialSession, AuthorizedCiphertext(q)))
  BY <1>10, <1>11
<1>14. q.output = GateOutput(inputX, q.openedSign, q.x.output)
  BY <1>5, <1>8
<1>15. Verify(q)
  BY <1>4, <1>6, <1>7, <1>9, <1>12, <1>13, <1>14 DEF Verify
<1> QED
  BY <1>15 DEF q, r

(* A gate that opened leaves a record that both verifiers accept: whether   *)
(* it ran in JavaScript or was adapted from a native record, and whatever   *)
(* other gates, finished or failed, left on its board (runConditionalGate,  *)
(* verifyConditionalGateTranscript and verify_gate_json_with_setup).        *)
THEOREM HonestRecordsVerify == Spec => []RecordVerifies
<1>1. GateInv /\ MasksAreHonest => RecordVerifies
  <2> SUFFICES ASSUME GateInv, MasksAreHonest, outcome = "opened"
               PROVE  /\ openedSign = GateRecord(Base).openedSign /\ output = GateRecord(Base).output
                      /\ NativeVerify(GateRecord(Base))
                      /\ \A before \in BoardsBefore : Verify(Adapted(GateRecord(Base), before))
    BY DEF RecordVerifies
  <2>1. /\ openedSign = GateRecord(Base).openedSign /\ output = GateRecord(Base).output
        /\ NativeVerify(GateRecord(Base))
    BY BasesAreSessions, HonestRecord
  <2>2. \A before \in BoardsBefore : Verify(Adapted(GateRecord(Base), before))
    BY HonestVerify
  <2> QED
    BY <2>1, <2>2
<1> QED
  BY <1>1, GateInvariant, MasksStayHonest, PTL

-----------------------------------------------------------------------------
(* The accepted record is the gate's own.                                   *)

OwnShares(r) == {SharePhase(r, t) : t \in TrusteeIds}

\* A board whose prefix verifies has, of the shares of a session, the
\* trustees' and no others.
LEMMA PrefixIsRest ==
  ASSUME NEW r, NEW own, NEW s, own.partialSession = s, PrefixVerifies(r, s),
         NEW n \in Nat, DOMAIN r.board = 1..n, Len(r.board) = n,
         NEW W, W = OwnShares(own), W \subseteq ToSet(r.board)
  PROVE  ToSet(r.prefix) = ToSet(r.board) \ W
<1> DEFINE b == r.board
           P == {i \in 1..n : ~SharePhaseOf(b[i], s)}
           U == {i \in 1..n : SharePhaseOf(b[i], s)}
           f == [i \in U |-> b[i]]
           V == {b[i] : i \in U}
           N == Trustees
           D == 1..n
<1>1. N \in Nat /\ TrusteeIds = 1..N
  BY SetupAssumption DEF TrusteeIds
<1>2. /\ IsFiniteSet(D) /\ Cardinality(D) = n
  BY FS_Interval
<1>3. /\ IsFiniteSet(P) /\ IsFiniteSet(U) /\ Cardinality(P) + Cardinality(U) = n
      /\ Cardinality(P) \in Nat /\ Cardinality(U) \in Nat
  <2>1. P \subseteq D /\ U \subseteq D /\ P \cap U = {} /\ P \cup U = D
    OBVIOUS
  <2> HIDE DEF P, U, D
  <2>2. IsFiniteSet(P) /\ IsFiniteSet(U)
    BY <1>2, <2>1, FS_Subset
  <2>3. Cardinality(P) \in Nat /\ Cardinality(U) \in Nat
    BY <2>2, FS_CardinalityType
  <2>4. Cardinality(P \cup U) = Cardinality(P) + Cardinality(U) - Cardinality(P \cap U)
    BY <2>2, FS_Union
  <2>5. Cardinality(P \cap U) = 0
    BY <2>1, FS_EmptySet
  <2>6. Cardinality(P \cup U) = n
    BY <1>2, <2>1
  <2> DEFINE p == Cardinality(P)
             u == Cardinality(U)
  <2>7. p \in Nat /\ u \in Nat /\ n = p + u - 0
    BY <2>3, <2>4, <2>5, <2>6
  <2> HIDE DEF p, u
  <2>8. p + u = n
    BY <2>7
  <2> QED
    BY <2>2, <2>3, <2>8 DEF p, u
<1>4. /\ \A p : p \in ToSet(b) <=> \E i \in 1..n : b[i] = p
      /\ WithoutShares(b, s) = AtPlaces(b, P)
      /\ r.prefix = AtPlaces(b, P) /\ Len(AtPlaces(b, P)) = n - N
  BY DEF ToSet, WithoutShares, PrefixVerifies
<1> DEFINE R == Ascending(P)
           order == InOrder(P, R)
           m == Cardinality(P)
<1>5. P \in SUBSET Int /\ P \subseteq 1..n
  OBVIOUS
<1>6. StrictOrder(P, R)
  <2> HIDE DEF P
  <2> QED
    BY <1>5, AscendingIsStrict
<1>7. Sorts(order, P, R) /\ \A x \in P : \E i \in 1..m : order[i] = x
  <2> HIDE DEF P, R
  <2> QED
    BY <1>3, <1>6, InOrderSorts
<1>8. order \in [1..m -> P] /\ DOMAIN order = 1..m
  <2> HIDE DEF P, R, order
  <2> QED
    BY <1>7 DEF Sorts
<1> DEFINE g == [i \in 1..m |-> b[order[i]]]
<1>9. AtPlaces(b, P) = g
  <2>1. AtPlaces(b, P) = [i \in DOMAIN order |-> b[order[i]]]
    BY DEF AtPlaces
  <2> HIDE DEF order, P, m
  <2> QED
    BY <1>8, <2>1
<1>10. \A p : p \in ToSet(r.prefix) <=> \E i \in P : b[i] = p
  <2> HIDE DEF order, P, m, b
  <2>1. \A p : p \in ToSet(g) <=> \E i \in 1..m : b[order[i]] = p
    BY DEF ToSet
  <2> HIDE DEF g
  <2> QED
    BY <1>4, <1>7, <1>8, <1>9, <2>1
<1>11. m = n - N
  <2> HIDE DEF order, P, b
  <2>1. DOMAIN g = 1..m /\ m \in Nat
    BY <1>3
  <2> HIDE DEF m, g
  <2>2. Len(g) = m
    BY <2>1
  <2> QED
    BY <1>4, <1>9, <2>2
<1>12. Cardinality(U) = N
  <2> HIDE DEF P, U
  <2> QED
    BY <1>1, <1>3, <1>11
<1>13. f \in Surjection(U, V) /\ IsFiniteSet(V) /\ Cardinality(V) <= N
  <2>1. f \in Surjection(U, V)
    BY DEF Surjection
  <2> HIDE DEF f, U, V
  <2>2. IsFiniteSet(V) /\ Cardinality(V) <= Cardinality(U)
    BY <1>3, <2>1, FS_Surjection
  <2> QED
    BY <1>12, <2>1, <2>2
<1>0. \A x : x \in W <=> \E t \in TrusteeIds : SharePhase(own, t) = x
  BY DEF OwnShares
<1>14. W \subseteq V
  <2> SUFFICES ASSUME NEW t \in TrusteeIds PROVE SharePhase(own, t) \in V
    BY <1>0
  <2>1. SharePhaseOf(SharePhase(own, t), s)
    BY OnlyShares
  <2>2. PICK i \in 1..n : b[i] = SharePhase(own, t)
    BY <1>0, <1>4
  <2> QED
    BY <2>1, <2>2
<1>15. Cardinality(W) = N
  <2> DEFINE h == [t \in 1..N |-> SharePhase(own, t)]
             T == 1..N
  <2>1. \A t, u \in 1..N : SharePhase(own, t) = SharePhase(own, u) => t = u
    <3> SUFFICES ASSUME NEW t \in 1..N, NEW u \in 1..N, SharePhase(own, t) = SharePhase(own, u)
                 PROVE  t = u
      OBVIOUS
    <3>0. SharePhase(own, t) = SharePhase(own, u)
      OBVIOUS
    <3>1. /\ SharePhase(own, t).key[2] = PartialPhase(t)
          /\ SharePhase(own, u).key[2] = PartialPhase(u)
      BY FieldsOfPhases
    <3>2. PartialPhase(t) = PartialPhase(u)
      BY <3>0, <3>1
    <3> QED
      BY <3>2, NamesDiffer
  <2>2. \A x : x \in W <=> \E t \in 1..N : SharePhase(own, t) = x
    BY <1>0, <1>1
  <2>3. h \in [1..N -> W] /\ \A t \in 1..N : h[t] = SharePhase(own, t)
    BY <2>2
  <2> HIDE DEF h
  <2>4. h \in Bijection(1..N, W)
    BY <2>1, <2>2, <2>3 DEF Bijection, Injection, Surjection, IsInjective
  <2>5. IsFiniteSet(T) /\ Cardinality(T) = N
    BY <1>1, FS_Interval
  <2> QED
    BY <2>4, <2>5, FS_Bijection DEF ExistsBijection
<1>16. V = W
  <2> HIDE DEF V
  <2>1. Cardinality(W) <= Cardinality(V) /\ Cardinality(V) \in Nat
    BY <1>13, <1>14, FS_Subset, FS_CardinalityType
  <2>2. Cardinality(W) = Cardinality(V)
    BY <1>1, <1>13, <1>15, <2>1
  <2> QED
    BY <1>13, <1>14, <2>2, FS_Subset
<1>17. \A i \in 1..n : i \notin P <=> b[i] \in V
  OBVIOUS
<1>18. ASSUME NEW p PROVE p \in ToSet(r.prefix) <=> p \in ToSet(b) /\ p \notin W
  <2> HIDE DEF P, V
  <2>1. P \subseteq 1..n
    BY <1>5
  <2>2. CASE p \in ToSet(r.prefix)
    BY <1>4, <1>10, <1>16, <1>17, <2>1, <2>2
  <2>3. CASE p \in ToSet(b) /\ p \notin W
    BY <1>4, <1>10, <1>16, <1>17, <2>1, <2>3
  <2> QED
    BY <2>2, <2>3
<1> QED
  BY <1>18

\* The keys of a gate's phases are all found, sealed, on its board.
LEMMA KeysFound ==
  ASSUME NEW r, NEW q, OnBoard(q),
         q.maskingSession = r.maskingSession, q.x.session = r.x.session,
         q.y.session = r.y.session, q.partialSession = r.partialSession,
         NEW p \in GatePhases(r)
  PROVE  \E e \in ToSet(q.board) : e.key = p.key /\ e.status = "SEALED"
<1> DEFINE b == q.board
<1>1. /\ \A t \in TrusteeIds : /\ HasVector(b, r.maskingSession, MaskingPhase(t))
                               /\ HasVector(b, r.partialSession, PartialPhase(t))
      /\ HasVector(b, r.x.session, XPhase) /\ HasVector(b, r.y.session, YPhase)
  BY DEF OnBoard
<1> HIDE DEF b
<1>2. ASSUME NEW session, NEW name, HasVector(b, session, name)
      PROVE  \E e \in ToSet(b) : e.key = <<session, name>> /\ e.status = "SEALED"
  BY <1>2 DEF HasVector, ToSet
<1>3. CASE \E t \in TrusteeIds : p = MaskPhase(r, t)
  <2>1. PICK t \in TrusteeIds : p = MaskPhase(r, t)
    BY <1>3
  <2>2. p.key = <<r.maskingSession, MaskingPhase(t)>>
    BY <2>1, FieldsOfPhases
  <2> QED
    BY <1>1, <1>2, <2>2 DEF b
<1>4. CASE \E t \in TrusteeIds : p = SharePhase(r, t)
  <2>1. PICK t \in TrusteeIds : p = SharePhase(r, t)
    BY <1>4
  <2>2. p.key = <<r.partialSession, PartialPhase(t)>>
    BY <2>1, FieldsOfPhases
  <2> QED
    BY <1>1, <1>2, <2>2 DEF b
<1>5. CASE p = XVector(r)
  <2>1. p.key = <<r.x.session, XPhase>>
    BY <1>5, FieldsOfPhases
  <2> QED
    BY <1>1, <1>2, <2>1 DEF b
<1>6. CASE p = YVector(r)
  <2>1. p.key = <<r.y.session, YPhase>>
    BY <1>6, FieldsOfPhases
  <2> QED
    BY <1>1, <1>2, <2>1 DEF b
<1> QED
  BY <1>3, <1>4, <1>5, <1>6 DEF GatePhases

\* A phase and its fields.
LEMMA PhasesAreRecords ==
  ASSUME NEW p \in Phases
  PROVE  p = [key |-> p.key, dependsOn |-> p.dependsOn, required |-> p.required,
              status |-> p.status, submissions |-> p.submissions]
<1>1. \A s, n, d, q, m :
        LET e == SealedPhase(s, n, d, q, m)
        IN e = [key |-> e.key, dependsOn |-> e.dependsOn, required |-> e.required,
                status |-> e.status, submissions |-> e.submissions]
  BY DEF SealedPhase
<1>2. \E s, n, d, q, m : p = SealedPhase(s, n, d, q, m)
  <2>1. PICK r : p \in GatePhases(r)
    BY DEF Phases
  <2> QED
    BY <2>1 DEF GatePhases, MaskPhase, SharePhase, XVector, YVector
<1> QED
  BY <1>1, <1>2

\* A board with a phase lost, or reopened, is not accepted without the gate's.
LEMMA LostPhase ==
  ASSUME NEW S, \A p, e \in S : p.key = e.key => p = e,
         NEW r, GatePhases(r) \subseteq S, NEW q, OnBoard(q),
         q.maskingSession = r.maskingSession, q.x.session = r.x.session,
         q.y.session = r.y.session, q.partialSession = r.partialSession,
         \A e \in ToSet(q.board) : e \in S \/ e.status # "SEALED"
  PROVE  GatePhases(r) \subseteq ToSet(q.board)
<1> SUFFICES ASSUME NEW p \in GatePhases(r) PROVE p \in ToSet(q.board)
  OBVIOUS
<1>1. PICK e \in ToSet(q.board) : e.key = p.key /\ e.status = "SEALED"
  BY KeysFound
<1> QED
  BY <1>1

\* Nor is one with a phase moved to another session.
LEMMA MovedPhase ==
  ASSUME NEW S, \A p, e \in S : p.key = e.key => p = e,
         NEW r, GatePhases(r) \subseteq S, NEW q, OnBoard(q),
         q.maskingSession = r.maskingSession, q.x.session = r.x.session,
         q.y.session = r.y.session, q.partialSession = r.partialSession,
         NEW o \in S, NEW w, w.key = o.key => w = o,
         \A e : e \in ToSet(q.board) => (e \in S /\ e # o) \/ e = w,
         \A e \in S : e # o => e \in ToSet(q.board), w \in ToSet(q.board)
  PROVE  GatePhases(r) \subseteq ToSet(q.board)
<1> SUFFICES ASSUME NEW p \in GatePhases(r), p \notin ToSet(q.board) PROVE FALSE
  OBVIOUS
<1>1. p = o
  OBVIOUS
<1>2. PICK e \in ToSet(q.board) : e.key = p.key /\ e.status = "SEALED"
  BY KeysFound
<1>3. e = w
  BY <1>1, <1>2
<1> QED
  BY <1>1, <1>2, <1>3

-----------------------------------------------------------------------------
(* The boards that are displaced.                                           *)

LostBoards(b) == {RemoveAt(b, i) : i \in DOMAIN b}
ReopenedBoards(b) == {[b EXCEPT ![i] = Reopened(@)] : i \in DOMAIN b}
MovedBoards(b) ==
  UNION {{Export(Moved(b, i, s)) : i \in DOMAIN b} : s \in ToSet(SubSessions(Base))}

IsBoard(x) == \E n \in Nat : DOMAIN x = 1..n /\ Len(x) = n

\* Sequences are boards.
LEMMA SequencesAreBoards ==
  ASSUME NEW S, NEW x \in Seq(S)
  PROVE  IsBoard(x) /\ \A e \in ToSet(x) : e \in S
  BY DEF IsBoard, ToSet

\* A board with a phase lost has only phases that it had.
LEMMA LostIs ==
  ASSUME NEW S, NEW b, Lists(b, S), NEW x \in LostBoards(b)
  PROVE  IsBoard(x) /\ \A e \in ToSet(x) : e \in S
<1>1. PICK i \in DOMAIN b : x = SubSeq(b, 1, i - 1) \o SubSeq(b, i + 1, Len(b))
  BY DEF LostBoards, RemoveAt
<1> DEFINE n == Len(b)
           y == SubSeq(b, 1, i - 1)
           z == SubSeq(b, i + 1, n)
<1>2. b \in Seq(S) /\ n \in Nat /\ i \in 1..n /\ \A j \in 1..n : b[j] \in S
  BY DEF Lists
<1>3. y \in Seq(S)
  <2>1. 1 \in Int /\ i - 1 \in Int /\ \A j \in 1..(i - 1) : b[j] \in S
    BY <1>2
  <2> QED
    BY <2>1, SubSeqProperties
<1>4. z \in Seq(S)
  <2>1. i + 1 \in Int /\ n \in Int /\ \A j \in (i + 1)..n : b[j] \in S
    BY <1>2
  <2> HIDE DEF n
  <2> QED
    BY <2>1, SubSeqProperties
<1> HIDE DEF y, z
<1>5. y \o z \in Seq(S)
  BY <1>3, <1>4, ConcatProperties
<1> QED
  BY <1>1, <1>5, SequencesAreBoards DEF y, z, n

\* A board with a phase reopened has only phases that it had, sealed.
LEMMA ReopenedIs ==
  ASSUME NEW S, S \subseteq Phases, NEW b, Lists(b, S), NEW x \in ReopenedBoards(b)
  PROVE  IsBoard(x) /\ \A e \in ToSet(x) : e \in S \/ e.status # "SEALED"
<1>1. PICK i \in DOMAIN b : x = [b EXCEPT ![i] = Reopened(b[i])]
  BY DEF ReopenedBoards
<1> DEFINE w == Reopened(b[i])
           V == S \cup {w}
<1>2. b \in Seq(S) /\ b[i] \in S
  BY DEF Lists
<1>3. w.status = "STAGING"
  <2> DEFINE p == b[i]
  <2>1. p = [key |-> p.key, dependsOn |-> p.dependsOn, required |-> p.required,
             status |-> p.status, submissions |-> p.submissions]
    BY <1>2, PhasesAreRecords
  <2>2. w = [p EXCEPT !.status = "STAGING", !.submissions = <<>>]
    BY DEF Reopened
  <2> HIDE DEF p, w
  <2> QED
    BY <2>1, <2>2
<1> HIDE DEF w
<1>4. x \in Seq(V)
  <2> HIDE DEF V
  <2>1. w \in V /\ b \in Seq(V)
    BY <1>2 DEF V
  <2> QED
    BY <1>1, <2>1 DEF w
<1> HIDE DEF V
<1>5. IsBoard(x) /\ \A e \in ToSet(x) : e \in V
  BY <1>4, SequencesAreBoards
<1> QED
  BY <1>3, <1>5 DEF V

\* A phase that is moved takes its messages along.
MovedTo(p, s) == [p EXCEPT !.key[1] = s]

\* A board with a phase moved has the others, and that one if it stayed.
LEMMA MovedIs ==
  ASSUME NEW S, S \subseteq Phases, HaveKeys(S), NEW b, Lists(b, S), NEW x \in MovedBoards(b)
  PROVE  /\ IsBoard(x)
         /\ \E o \in S : \E w :
              /\ w.key = o.key => w = o
              /\ \A e : e \in ToSet(x) => (e \in S /\ e # o) \/ e = w
              /\ \A e \in S : e # o => e \in ToSet(x)
              /\ w \in ToSet(x)
<1>1. PICK i \in DOMAIN b, s \in ToSet(SubSessions(Base)) : x = Export(Moved(b, i, s))
  BY DEF MovedBoards
<1> DEFINE n == Len(b)
           o == b[i]
           w == MovedTo(o, s)
           y == [b EXCEPT ![i].key[1] = s]
           V == (S \ {o}) \cup {w}
<1>2. /\ b \in Seq(S) /\ n \in Nat /\ DOMAIN b = 1..n /\ o \in S
      /\ \A p \in S : \E j \in 1..n : b[j] = p
      /\ \A j \in 1..n : b[j] \in S
      /\ \A j, k \in 1..n : j < k => PhaseBefore(b[j], b[k])
  BY DEF Lists
<1>3. y = [b EXCEPT ![i] = w]
  BY DEF MovedTo
<1>4. s \in GateSessions
  <2>1. SubSessions(Base) = [k \in 1..4 |-> SubSession(Base, k - 1)]
    BY DEF SubSessions
  <2>2. PICK k \in 1..4 : s = SubSession(Base, k - 1)
    BY <2>1 DEF ToSet
  <2>3. k - 1 \in 0..3
    OBVIOUS
  <2> QED
    BY <2>2, <2>3, BasesAreSessions, SessionsAre
<1>5. /\ o.key = <<o.key[1], o.key[2]>> /\ o.key[2] \in Names
      /\ o = [key |-> o.key, dependsOn |-> o.dependsOn, required |-> o.required,
              status |-> o.status, submissions |-> o.submissions]
  <2>1. o.key \in GateSessions \X Names
    BY <1>2 DEF HaveKeys
  <2>2. o = [key |-> o.key, dependsOn |-> o.dependsOn, required |-> o.required,
              status |-> o.status, submissions |-> o.submissions]
    BY <1>2, PhasesAreRecords
  <2> HIDE DEF o
  <2> QED
    BY <2>1, <2>2
<1>6. w.key = <<s, o.key[2]>> /\ (w.key = o.key => w = o)
  <2> DEFINE k == o.key
             l == [k EXCEPT ![1] = s]
  <2>1. w = [o EXCEPT !.key = l]
    BY DEF MovedTo
  <2>2. l = <<s, k[2]>>
    <3> HIDE DEF o
    <3>1. k = <<k[1], k[2]>>
      BY <1>5
    <3> HIDE DEF k
    <3> QED
      BY <3>1
  <2> HIDE DEF o, w, l
  <2>3. w = [key |-> l, dependsOn |-> o.dependsOn, required |-> o.required,
             status |-> o.status, submissions |-> o.submissions]
    BY <1>5, <2>1
  <2>4. w.key = l
    BY <2>3
  <2> QED
    BY <1>5, <2>2, <2>3, <2>4
<1>11. \A j \in 1..n : j # i => b[j] # o
  <2> SUFFICES ASSUME NEW j \in 1..n, j # i, b[j] = o PROVE FALSE
    OBVIOUS
  <2>1. j < i \/ i < j
    BY <1>2
  <2>2. PhaseBefore(o, o)
    BY <1>2, <2>1
  <2> QED
    BY <1>2, <2>2, KeysAreOrdered
<1> HIDE DEF w, o, V
<1>7. y \in [1..n -> V] /\ y[i] = w /\ \A j \in 1..n : j # i => y[j] = b[j]
  BY <1>2, <1>3, <1>11 DEF V
<1> HIDE DEF y
<1>8. y \in Seq(V) /\ Len(y) = n
  BY <1>2, <1>7
<1>9. \A p \in V : p.key \in GateSessions \X Names
  BY <1>4, <1>5, <1>6 DEF HaveKeys, V
<1>10. x \in Seq(V) /\ Len(x) = n /\ \A j \in 1..n : \E k \in 1..n : x[k] = y[j]
  <2>1. x = Export(y)
    BY <1>1 DEF y, Moved
  <2>2. /\ Export(y) \in Seq(V) /\ Len(Export(y)) = Len(y)
        /\ \A j \in 1..Len(y) : \E k \in 1..Len(y) : Export(y)[k] = y[j]
    BY <1>8, <1>9, ExportedPhases
  <2> QED
    BY <1>8, <2>1, <2>2
<1> DEFINE Y == ToSet(x)
<1>12. /\ \A j \in 1..n : y[j] \in Y
       /\ DOMAIN x = 1..n
  <2>1. DOMAIN x = 1..n
    BY <1>2, <1>10
  <2>2. \A k \in 1..n : x[k] \in Y
    BY <2>1 DEF ToSet
  <2> HIDE DEF Y
  <2> QED
    BY <1>10, <2>1, <2>2
<1>13. w \in Y /\ \A e \in S : e # o => e \in Y
  <2>1. w \in Y
    BY <1>2, <1>7, <1>12
  <2>2. ASSUME NEW e \in S, e # o PROVE e \in Y
    <3>1. PICK j \in 1..n : b[j] = e
      BY <1>2
    <3>2. j # i
      BY <2>2, <3>1 DEF o
    <3> QED
      BY <1>7, <1>12, <3>1, <3>2
  <2> QED
    BY <2>1, <2>2
<1>14. IsBoard(x) /\ \A e : e \in ToSet(x) => (e \in S /\ e # o) \/ e = w
  BY <1>10, SequencesAreBoards DEF V
<1> QED
  BY <1>2, <1>6, <1>13, <1>14

ShiftedBoards(b) == LostBoards(b) \cup ReopenedBoards(b) \cup MovedBoards(b)
OnBoards(r, B) == {[r EXCEPT !.board = b] : b \in B}
FittedTo(r, B) ==
  {[[r EXCEPT !.board = b] EXCEPT !.prefix = WithoutShares(b, SubSession(Base, 3))] : b \in B}
CutPrefixes(r) == {[r EXCEPT !.prefix = RemoveAt(@, i)] : i \in DOMAIN r.prefix}

\* The displaced records, by what is displaced.
LEMMA DisplacedAre ==
  ASSUME NEW r
  PROVE  Displaced(r) = OnBoards(r, ShiftedBoards(r.board)) \cup FittedTo(r, ShiftedBoards(r.board))
                        \cup CutPrefixes(r) \cup {[r EXCEPT !.prefix = r.board]}
  BY Zenon DEF Displaced, OnBoards, FittedTo, CutPrefixes, ShiftedBoards, LostBoards, ReopenedBoards,
               MovedBoards

\* The boards of displaced records.
LEMMA DisplacedBoards ==
  ASSUME NEW r, NEW before, NEW own, own = Adapted(r, before), NEW q \in Displaced(own)
  PROVE  \/ q.board = own.board
         \/ q.board \in LostBoards(own.board) \cup ReopenedBoards(own.board) \cup MovedBoards(own.board)
<1> DEFINE B == ShiftedBoards(own.board)
<1>1. q \in OnBoards(own, B) \/ q \in FittedTo(own, B) \/ q \in CutPrefixes(own)
      \/ q = [own EXCEPT !.prefix = own.board]
  <2> DEFINE D == [own EXCEPT !.prefix = own.board]
  <2>1. Displaced(own) = OnBoards(own, B) \cup FittedTo(own, B) \cup CutPrefixes(own) \cup {D}
    BY DisplacedAre
  <2> HIDE DEF B, D
  <2>2. q \in OnBoards(own, B) \/ q \in FittedTo(own, B) \/ q \in CutPrefixes(own) \/ q = D
    BY <2>1
  <2> QED
    BY <2>2 DEF D
<1>2. "board" \in DOMAIN own /\ "board" # "prefix"
  BY DEF Adapted
<1> HIDE DEF B
<1>3. CASE q \in OnBoards(own, B)
  <2>1. PICK b \in B : q = [own EXCEPT !.board = b]
    BY <1>3 DEF OnBoards
  <2> QED
    BY <1>2, <2>1 DEF B, ShiftedBoards
<1>4. CASE q \in FittedTo(own, B)
  <2>1. PICK b \in B :
          q = [[own EXCEPT !.board = b] EXCEPT !.prefix = WithoutShares(b, SubSession(Base, 3))]
    BY <1>4 DEF FittedTo
  <2> DEFINE f == WithoutShares(b, SubSession(Base, 3))
  <2> HIDE DEF f
  <2>2. q = [[own EXCEPT !.board = b] EXCEPT !.prefix = f]
    BY <2>1 DEF f
  <2>3. q.board = b
    BY <1>2, <2>2
  <2> QED
    BY <2>3 DEF B, ShiftedBoards
<1>5. CASE q \in CutPrefixes(own)
  <2>1. PICK i \in DOMAIN own.prefix : q = [own EXCEPT !.prefix = RemoveAt(own.prefix, i)]
    BY <1>5 DEF CutPrefixes
  <2> QED
    BY <1>2, <2>1
<1>6. CASE q = [own EXCEPT !.prefix = own.board]
  BY <1>2, <1>6
<1> QED
  BY <1>1, <1>3, <1>4, <1>5, <1>6

\* The sessions of a record that is accepted are the gate's.
LEMMA OwnSessions ==
  ASSUME NEW q, Verify(q)
  PROVE  /\ q.maskingSession = SubSession(Base, 0) /\ q.x.session = SubSession(Base, 1)
         /\ q.y.session = SubSession(Base, 2) /\ q.partialSession = SubSession(Base, 3)
<1>1. SessionsDerived(q)
  BY DEF Verify
<1>2. SubSessions(Base) = <<SubSession(Base, 0), SubSession(Base, 1), SubSession(Base, 2), SubSession(Base, 3)>>
  BY DEF SubSessions
<1> QED
  BY <1>1, <1>2 DEF SessionsDerived

\* An accepted record with a displaced board holds the gate's phases.
LEMMA DisplacedIsOwn ==
  ASSUME GateInv, SharesComplete, NEW before \in BoardsBefore,
         NEW r, r = GateRecord(Base), NEW own, own = Adapted(r, before),
         NEW q \in Displaced(own), Verify(q)
  PROVE  GatePhases(r) \subseteq ToSet(q.board) /\ IsBoard(q.board)
<1>1. Posted(before, OtherSessions)
  BY BoardsArePosted
<1> DEFINE a == before \o PhasesBeforeShares(r)
           c == a \o SharePhases(r)
<1>2. PICK S : Lists(own.board, S) /\ HaveKeys(S) /\ GatePhases(r) \subseteq S /\ S \subseteq Phases
  BY <1>1, GateBoardIsSound
<1>3. \A p, e \in S : p.key = e.key => p = e
  BY <1>2, OneList
<1>4. /\ OnBoard(q) /\ q.maskingSession = r.maskingSession /\ q.x.session = r.x.session
      /\ q.y.session = r.y.session /\ q.partialSession = r.partialSession
  <2>1. OnBoard(q)
    BY DEF Verify
  <2> QED
    BY <2>1, OwnSessions, RecordFields
<1>5. \/ q.board = own.board
      \/ q.board \in LostBoards(own.board) \/ q.board \in ReopenedBoards(own.board)
      \/ q.board \in MovedBoards(own.board)
  BY DisplacedBoards
<1>6. CASE q.board = own.board
  <2>1. own.board \in Seq(S) /\ \A p \in S : \E i \in DOMAIN own.board : own.board[i] = p
    BY <1>2 DEF Lists
  <2>2. S \subseteq ToSet(own.board)
    BY <2>1 DEF ToSet
  <2> QED
    BY <1>2, <1>6, <2>1, <2>2, SequencesAreBoards
<1>7. CASE q.board \in LostBoards(own.board) \/ q.board \in ReopenedBoards(own.board)
  <2>1. IsBoard(q.board) /\ \A e \in ToSet(q.board) : e \in S \/ e.status # "SEALED"
    BY <1>2, <1>7, LostIs, ReopenedIs
  <2> QED
    BY <1>2, <1>3, <1>4, <2>1, LostPhase
<1>8. CASE q.board \in MovedBoards(own.board)
  <2>1. IsBoard(q.board)
    BY <1>2, <1>8, MovedIs
  <2>2. PICK o \in S : \E w :
          /\ w.key = o.key => w = o
          /\ \A e : e \in ToSet(q.board) => (e \in S /\ e # o) \/ e = w
          /\ \A e \in S : e # o => e \in ToSet(q.board)
          /\ w \in ToSet(q.board)
    BY <1>2, <1>8, MovedIs
  <2>3. PICK w :
          /\ w.key = o.key => w = o
          /\ \A e : e \in ToSet(q.board) => (e \in S /\ e # o) \/ e = w
          /\ \A e \in S : e # o => e \in ToSet(q.board)
          /\ w \in ToSet(q.board)
    BY <2>2
  <2>4. GatePhases(r) \subseteq ToSet(q.board)
    BY <1>2, <1>3, <1>4, <2>3, MovedPhase
  <2> QED
    BY <2>1, <2>4
<1> QED
  BY <1>5, <1>6, <1>7, <1>8

\* A record with parts of another gate is not accepted.
LEMMA RebasedIsRefused ==
  ASSUME NEW s \in Rebased
  PROVE  ~Verify(Adapted(s, <<>>))
<1> DEFINE own == GateRecord(Base)
<1>1. PICK b \in Bases \ {Base} :
        LET r == GateRecord(b)
        IN s \in {r, [own EXCEPT !.maskingSession = r.maskingSession, !.masking = r.masking],
                  [own EXCEPT !.x = r.x], [own EXCEPT !.y = r.y],
                  [own EXCEPT !.partialSession = r.partialSession, !.partials = r.partials]}
  BY DEF Rebased, Bases
<1> DEFINE r == GateRecord(b)
           q == Adapted(s, <<>>)
<1>2. /\ r.maskingSession = SubSession(b, 0) /\ r.x.session = SubSession(b, 1)
      /\ r.y.session = SubSession(b, 2) /\ r.partialSession = SubSession(b, 3)
  BY RecordFields
<1>3. {"maskingSession", "masking", "x", "y", "partialSession", "partials"} \subseteq DOMAIN own
  BY DEF GateRecord, NativeRecord
<1> HIDE DEF own, r
<1>4. \/ s.maskingSession = r.maskingSession \/ s.x.session = r.x.session
      \/ s.y.session = r.y.session \/ s.partialSession = r.partialSession
  <2>1. \/ s = r
        \/ s = [own EXCEPT !.maskingSession = r.maskingSession, !.masking = r.masking]
        \/ s = [own EXCEPT !.x = r.x] \/ s = [own EXCEPT !.y = r.y]
        \/ s = [own EXCEPT !.partialSession = r.partialSession, !.partials = r.partials]
    BY <1>1 DEF r
  <2> QED
    BY <1>3, <2>1
<1>5. /\ q.maskingSession = s.maskingSession /\ q.x.session = s.x.session
      /\ q.y.session = s.y.session /\ q.partialSession = s.partialSession
  BY AdaptedFields
<1> HIDE DEF q
<1>6. \A k \in 0..3 : SubSession(b, k) # SubSession(Base, k)
  BY BasesAreSessions, SessionsAre
<1> SUFFICES ASSUME Verify(q) PROVE FALSE
  BY DEF q
<1>7. /\ q.maskingSession = SubSession(Base, 0) /\ q.x.session = SubSession(Base, 1)
      /\ q.y.session = SubSession(Base, 2) /\ q.partialSession = SubSession(Base, 3)
  BY OwnSessions
<1>8. 0 \in 0..3 /\ 1 \in 0..3 /\ 2 \in 0..3 /\ 3 \in 0..3
  OBVIOUS
<1> QED
  BY <1>2, <1>4, <1>5, <1>6, <1>7, <1>8

\* The phases on the board of a gate that was alone on it.
LEMMA OwnPhases ==
  ASSUME NEW r \in NativeRecords
  PROVE  /\ ToSet(Adapted(r, <<>>).board) \subseteq GatePhases(r)
         /\ ToSet(SharePhases(r)) = OwnShares(r)
<1> DEFINE S == GatePhases(r)
           a == PhasesBeforeShares(r)
           b == SharePhases(r)
           q == Adapted(r, <<>>)
<1>1. a \in Seq(S) /\ b \in Seq(S) /\ \A p \in S : p.key \in GateSessions \X Names
  BY PhasesOfGate, PhasesAreKeyed
<1>2. q.board = Export((<<>> \o a) \o b)
  BY DEF Adapted
<1>3. q.board \in Seq(S)
  <2> HIDE DEF S, a, b, q
  <2>1. <<>> \o a = a
    BY <1>1
  <2>2. a \o b \in Seq(S)
    BY <1>1, ConcatProperties
  <2>3. Export(a \o b) \in Seq(S)
    BY <1>1, <2>2, ExportedPhases
  <2> QED
    BY <1>2, <2>1, <2>3
<1>4. ToSet(q.board) \subseteq S
  <2> HIDE DEF S, q
  <2> QED
    BY <1>3, SequencesAreBoards
<1>5. Len(b) = Trustees /\ \A t \in TrusteeIds : b[t] = SharePhase(r, t)
  BY PhasesOfGate
<1>6. DOMAIN b = TrusteeIds
  <2> HIDE DEF b, S
  <2>1. DOMAIN b = 1..Len(b)
    BY <1>1
  <2> QED
    BY <1>5, <2>1 DEF TrusteeIds
<1>7. ToSet(b) = OwnShares(r)
  <2> HIDE DEF b
  <2> QED
    BY <1>5, <1>6 DEF ToSet, OwnShares
<1> QED
  BY <1>4, <1>7

(* The messages of a record that the JavaScript verifier accepts are all on *)
(* its board, sealed, in the sub-sessions of this gate and made for them,   *)
(* whatever phase of its board is lost, reopened or moved and whatever part *)
(* of the record is of another gate; and its prefix is the board without    *)
(* this gate's shares and nothing else (boardVectorFor and                  *)
(* boardPrefixHashBeforePartialDecryptions).                                *)
THEOREM AcceptedRecordsAreOwn == Spec => []AcceptedRecordIsOwn
<1>1. GateInv => AcceptedRecordIsOwn
  <2> DEFINE r == GateRecord(Base)
             own(before) == Adapted(r, before)
             Own(q) == /\ ToSet(Adapted(r, <<>>).board) \subseteq ToSet(q.board)
                       /\ ToSet(q.prefix) = ToSet(q.board) \ ToSet(SharePhases(r))
  <2> SUFFICES ASSUME GateInv, outcome = "opened", NEW before \in BoardsBefore,
                      NEW q \in Displaced(own(before)) \cup {Adapted(s, <<>>) : s \in Rebased},
                      Verify(q)
               PROVE  Own(q)
    BY DEF AcceptedRecordIsOwn
  <2>1. SharesComplete
    BY DEF GateInv, OutcomeFollows
  <2>2. r \in NativeRecords
    BY <2>1, BasesAreSessions, RecordsTyped
  <2>3. q \in Displaced(own(before))
    BY RebasedIsRefused
  <2>4. GatePhases(r) \subseteq ToSet(q.board) /\ IsBoard(q.board)
    BY <2>1, <2>3, DisplacedIsOwn
  <2>5. ToSet(Adapted(r, <<>>).board) \subseteq ToSet(q.board)
    BY <2>2, <2>4, OwnPhases
  <2>6. PrefixVerifies(q, SubSession(Base, 3))
    BY OwnSessions DEF Verify
  <2>7. r.partialSession = SubSession(Base, 3)
    BY RecordFields
  <2> DEFINE W == OwnShares(r)
  <2>8. W \subseteq ToSet(q.board)
    BY <2>4 DEF GatePhases, OwnShares
  <2>9. PICK n \in Nat : DOMAIN q.board = 1..n /\ Len(q.board) = n
    BY <2>4 DEF IsBoard
  <2>10. ToSet(q.prefix) = ToSet(q.board) \ W
    <3>1. W = OwnShares(r)
      OBVIOUS
    <3> DEFINE s == SubSession(Base, 3)
    <3>2. r.partialSession = s /\ PrefixVerifies(q, s)
      BY <2>6, <2>7
    <3> HIDE DEF W, r, own, s
    <3> QED
      BY <2>8, <2>9, <3>1, <3>2, PrefixIsRest
  <2>11. ToSet(SharePhases(r)) = W
    BY <2>2, OwnPhases
  <2> QED
    BY <2>5, <2>10, <2>11
<1> QED
  BY <1>1, GateInvariant, PTL
=============================================================================
