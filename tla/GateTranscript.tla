--------------------------- MODULE GateTranscript ---------------------------
(* The record of a conditional gate and what its verifiers make of it:      *)
(* verifyConditionalGateTranscript of js_protocol/src/conditional_gate.js,  *)
(* and verify_gate_json_with_setup of cgy_native/src/gate.rs.  A hash is    *)
(* the value hashed; a proof binds what its challenge was computed from.    *)
EXTENDS GateBoard

-----------------------------------------------------------------------------
(* The proofs, as the relations they show.                                  *)

(* verifyMaskingTransition.  (Faulty: a sign for X and a sign for Y.)       *)
MaskingProofValid_TwoSigns(previous, next) ==
  /\ ~MaskRefused(next)
  /\ \A f \in {"X", "Y"} : \E sign \in Signs :
       EncryptsZero(AddCiphertexts(next[f], ScaleCiphertext(previous[f], -sign)))
MaskingProofValid(previous, next) ==
  /\ ~MaskRefused(next)
  /\ \E sign \in Signs : \A f \in {"X", "Y"} :
       EncryptsZero(AddCiphertexts(next[f], ScaleCiphertext(previous[f], -sign)))

(* verifyMaskingRecords.                                                    *)
ChainVerifies(messages, session) ==
  /\ Len(messages) = Trustees
  /\ \A t \in TrusteeIds :
       LET previous == IF t = 1 THEN Previous(<<>>, 1) ELSE messages[t - 1].next
       IN /\ messages[t].session = session
          /\ messages[t].previous = previous
          /\ MaskingProofValid(previous, messages[t].next)

(* (Faulty: the masked selector is authorized before its rerandomization.)  *)
AuthorizedCiphertext_Masked(r) == r.y.input
AuthorizedCiphertext(r) == r.y.output

(* The first `threshold` shares, weighed as those of the trustees 1, 2, ... *)
OpeningVerifies(r, shares) ==
  /\ r.openedSign \in Signs
  /\ Combine(AuthorizedCiphertext(r), [t \in Quorum |-> shares[t].w], Quorum)
       = ScalarMod(r.openedSign)
NativeOpeningVerifies(r) ==
  /\ r.openedSign \in Signs
  /\ ScalarMod(AuthorizedCiphertext(r).S
       - ModSum([i \in Quorum |-> LagrangeCoefficientAtZero(Quorum, r.partials[i].trustee)
                                    * r.partials[i].w], Quorum)) = ScalarMod(r.openedSign)

(* Every session of the record is the one derived from the gate's base.     *)
(* (Faulty: that of the masks is taken from the record.)                    *)
SessionsDerived_NotMasking(r) ==
  <<r.x.session, r.y.session, r.partialSession>>
    = <<SubSession(Base, 1), SubSession(Base, 2), SubSession(Base, 3)>>
SessionsDerived(r) ==
  <<r.maskingSession, r.x.session, r.y.session, r.partialSession>> = SubSessions(Base)

(* The messages of the gate, from the board.                                *)
OnBoard(r) ==
  /\ \A t \in TrusteeIds : /\ HasVector(r.board, r.maskingSession, MaskingPhase(t))
                           /\ HasVector(r.board, r.partialSession, PartialPhase(t))
  /\ HasVector(r.board, r.x.session, XPhase)
  /\ HasVector(r.board, r.y.session, YPhase)

Masks(r) == [t \in TrusteeIds |-> VectorFor(r.board, r.maskingSession, MaskingPhase(t))[1]]
Shares(r) == [t \in TrusteeIds |-> VectorFor(r.board, r.partialSession, PartialPhase(t))[1]]
WithVector(r, record, name) ==
  [session |-> record.session, input |-> record.input, output |-> record.output,
   vector |-> VectorFor(r.board, record.session, name)]

ShareVerifies(share, t, authorization) ==
  /\ share.trustee = t
  /\ share.authorization = authorization
  /\ share.proven = authorization
  /\ ShareProofValid(share, authorization.ciphertext)

(* verifyConditionalGateTranscript.                                         *)
Verify(r) ==
  /\ BoardVerifies(r.board)
  /\ SessionsDerived(r)
  /\ OnBoard(r)
  /\ ChainVerifies(Masks(r), r.maskingSession)
  /\ r.masked = Masks(r)[Trustees].next
  /\ RerandomizationVerifies(WithVector(r, r.x, XPhase), r.masked.X, {r.x.session})
  /\ RerandomizationVerifies(WithVector(r, r.y, YPhase), r.masked.Y, {r.y.session})
  /\ PrefixVerifies(r, r.partialSession)
  /\ \A t \in TrusteeIds :
       ShareVerifies(Shares(r)[t], t, Authorization(r.partialSession, AuthorizedCiphertext(r)))
  /\ OpeningVerifies(r, Shares(r))
  /\ r.output = GateOutput(inputX, r.openedSign, r.x.output)

(* verify_gate_json_with_setup: sessions are those of the record, shares    *)
(* come in any order, and there is no board.                                *)
NativeVerify(r) ==
  LET masked == r.masking[Trustees].next
      authorization == Authorization(r.partialSession, AuthorizedCiphertext(r))
  IN /\ ChainVerifies(r.masking, r.maskingSession)
     /\ RerandomizationVerifies(r.x, masked.X, {r.x.session})
     /\ RerandomizationVerifies(r.y, masked.Y, {r.y.session})
     /\ {r.partials[i].trustee : i \in TrusteeIds} = TrusteeIds
     /\ \A i \in TrusteeIds :
          /\ r.partials[i].authorization = authorization
          /\ ShareProofValid(r.partials[i], authorization.ciphertext)
     /\ NativeOpeningVerifies(r)
     /\ r.output = GateOutput(inputX, r.openedSign, r.x.output)

-----------------------------------------------------------------------------
(* The native runner: run_gate_core weighs the shares of all trustees with  *)
(* the coefficients of the first `threshold` ids.                           *)
NativeOpening ==
  ScalarMod(RerandomizedY.S
            - ModSum([t \in TrusteeIds |-> LagrangeCoefficientAtZero(Quorum, t) * partials[t]], TrusteeIds))

-----------------------------------------------------------------------------
(* Records that no honest run made.                                         *)

SharesOf(ys, m) == [t \in TrusteeIds |-> PartialDecryption(t, Rerandomized(m, ys))]

(* One message is any that its type allows; what follows it is honest.      *)
Forged ==
  LET masked(ms) == Masked(ms).Y
      honest == SharesOf(yZeros, masked(masks))
  IN {LET ms == [masks EXCEPT ![Trustees] = [X |-> c, Y |-> d]]
      IN NativeRecord(Base, ms, xZeros, yZeros, SharesOf(yZeros, d)) : c, d \in Ciphertexts}
     \cup {NativeRecord(Base, masks, [xZeros EXCEPT ![t] = c], yZeros, honest) :
             t \in TrusteeIds, c \in Ciphertexts}
     \cup {LET ys == [yZeros EXCEPT ![t] = c]
           IN NativeRecord(Base, masks, xZeros, ys, SharesOf(ys, masked(masks))) :
             t \in TrusteeIds, c \in Ciphertexts}
     \cup {NativeRecord(Base, masks, xZeros, yZeros, [honest EXCEPT ![t] = w]) :
             t \in TrusteeIds, w \in Field}

(* One part of the record is exchanged for another of its type.             *)
Altered(r) ==
  {[r EXCEPT !.output = c] : c \in Ciphertexts}
  \cup {[r EXCEPT !.openedSign = -@]}
  \cup {[[r EXCEPT !.openedSign = -@] EXCEPT !.output = GateOutput(inputX, -r.openedSign, r.x.output)]}
  \cup {[r EXCEPT !.masking = Reverse(@)], [r EXCEPT !.partials = Reverse(@)]}
  \cup {[[r EXCEPT !.x = r.y] EXCEPT !.y = r.x], [r EXCEPT !.y = r.x], [r EXCEPT !.x = r.y]}
  \cup {[r EXCEPT !.x.vector = r.y.vector], [r EXCEPT !.y.vector = r.x.vector]}
  \cup {[r EXCEPT !.x.output = c] : c \in Ciphertexts}
  \cup {[r EXCEPT !.y.output = c] : c \in Ciphertexts}
  \cup {[r EXCEPT !.partials[1].w = w] : w \in Field}

-----------------------------------------------------------------------------
GateRecord(base) == NativeRecord(base, masks, xZeros, yZeros, partials)

(* What a board may hold when the gate begins on it: nothing, or what gates *)
(* of other base sessions left there: one that failed before its shares, or *)
(* a complete one and then such a one.                                      *)
BoardsBefore ==
  LET phasesOf(b) == PhasesBeforeShares(GateRecord(b))
      complete(b) == phasesOf(b) \o SharePhases(GateRecord(b))
      others == ToSet(BaseSessions) \ {Base}
  IN {<<>>} \cup {phasesOf(b) : b \in others}
     \cup {complete(p[1]) \o phasesOf(p[2]) : p \in {q \in others \X others : q[1] # q[2]}}

(* A gate that opened leaves a record that both verifiers accept: whether   *)
(* it ran in JavaScript or was adapted from a native record, and whatever   *)
(* other gates, finished or failed, left on its board.                      *)
RecordVerifies ==
  outcome = "opened" =>
    /\ openedSign = GateRecord(Base).openedSign /\ output = GateRecord(Base).output
    /\ NativeVerify(GateRecord(Base))
    /\ \A before \in BoardsBefore : Verify(Adapted(GateRecord(Base), before))

(* Whatever one trustee posts, and whatever part of the record is changed,  *)
(* a record that a verifier accepts is of a selector that is a bit, and its *)
(* output decrypts to the product of the inputs.                            *)
AcceptedRecordMultiplies ==
  SharesComplete /\ outcome # "running" =>
    \A r \in Forged \cup Altered(GateRecord(Base)) :
      NativeVerify(r) \/ Verify(Adapted(r, <<>>)) =>
        LET y == Plaintext(inputY)
        IN y \in {0, 1} /\ Plaintext(r.output) = ScalarMod(Plaintext(inputX) * y)

(* A record with a phase of its board lost, reopened or put into another of *)
(* the gate's sessions, with the prefix as it was or to fit; and a record   *)
(* some or all of whose parts were made in the sub-sessions of another gate.*)
Reopened(e) == [e EXCEPT !.status = "STAGING", !.submissions = <<>>]
Moved(board, i, session) == [board EXCEPT ![i].key[1] = session]
Displaced(r) ==
  LET moved(s) == {Export(Moved(r.board, i, s)) : i \in DOMAIN r.board}
      boards == {RemoveAt(r.board, i) : i \in DOMAIN r.board}
                \cup {[r.board EXCEPT ![i] = Reopened(@)] : i \in DOMAIN r.board}
                \cup UNION {moved(s) : s \in ToSet(SubSessions(Base))}
      fitting(board) == WithoutShares(board, SubSession(Base, 3))
  IN {[r EXCEPT !.board = b] : b \in boards}
     \cup {[[r EXCEPT !.board = b] EXCEPT !.prefix = fitting(b)] : b \in boards}
     \cup {[r EXCEPT !.prefix = RemoveAt(@, i)] : i \in DOMAIN r.prefix}
     \cup {[r EXCEPT !.prefix = r.board]}

Rebased ==
  LET own == GateRecord(Base)
  IN UNION {LET r == GateRecord(b)
            IN {r, [own EXCEPT !.maskingSession = r.maskingSession, !.masking = r.masking],
                [own EXCEPT !.x = r.x], [own EXCEPT !.y = r.y],
                [own EXCEPT !.partialSession = r.partialSession, !.partials = r.partials]} :
              b \in ToSet(BaseSessions) \ {Base}}

(* The messages of a record that the JavaScript verifier accepts are all on *)
(* its board, sealed, in the sub-sessions of this gate and made for them;   *)
(* and its prefix is the board without this gate's shares and nothing else. *)
AcceptedRecordIsOwn ==
  outcome = "opened" =>
    \A before \in BoardsBefore :
      LET own == Adapted(GateRecord(Base), before)
      IN \A r \in Displaced(own) \cup {Adapted(s, <<>>) : s \in Rebased} :
           Verify(r) =>
             /\ ToSet(Adapted(GateRecord(Base), <<>>).board) \subseteq ToSet(r.board)
             /\ ToSet(r.prefix)
                  = ToSet(r.board) \ ToSet(SharePhases(GateRecord(Base)))

(* The native runner opens the selector that the trustees decrypt: the gate *)
(* it evaluates is "source-conforming" for the setup it is given.           *)
NativeGateOpens ==
  SharesComplete => NativeOpening = Plaintext(RerandomizedY)
=============================================================================
