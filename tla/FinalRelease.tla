---------------------------- MODULE FinalRelease ----------------------------
(* js_protocol/src/final_release.js: the decision is the negated borrow of  *)
(* the comparison; all trustees rerandomize it and a quorum of exactly      *)
(* `threshold` decrypts it.  A caller whose call failed may call again, for *)
(* the same session and on the same board.                                  *)
EXTENDS Rerandomization

CONSTANTS
  Comparisons,    \* what the tally may hand over
  Quorums,        \* the shareTrusteeIds that callers may ask for
  Nonces,         \* the scalars randomScalar() may draw
  Session         \* of the release: gateId and invocation

ASSUME ReleaseAssumption ==
  /\ Comparisons \subseteq [D : Ciphertexts, CStar : Ciphertexts, Q : Ciphertexts]
  /\ Quorums \subseteq Seq(Nat)
  /\ Nonces \subseteq Field

VARIABLES
  comparison,
  stage,
  quorum,       \* shareTrusteeIds of the last call
  zeros,        \* phase FINAL_DECISION_RERANDOMIZATION: the contributions
  shares,       \* phases FINAL_DECISION_PARTIAL_DECRYPTION_*, in their order
  resultBit

vars == <<comparison, stage, quorum, zeros, shares, resultBit>>

Stages == {"tallied", "ready", "running", "failed", "released"}
NoBit == -1

-----------------------------------------------------------------------------
(* (Faulty: the borrow is released as it is.)                               *)
DecisionFromBorrow_Borrow(borrow) == borrow
DecisionFromBorrow(borrow) ==
  AddCiphertexts(PublicValue(1), ScaleCiphertext(borrow, -1))

TerminalIdentity(c) ==
  c.Q = AddCiphertexts(c.D, ScaleCiphertext(c.CStar, -1))

Logical == DecisionFromBorrow(comparison.Q)

(* The ciphertext that the trustees are authorized to decrypt.  (Faulty: as *)
(* it was before the rerandomization.)                                      *)
AuthorizedForm_Logical(r) == r.input
AuthorizedForm(r) == r.output
ReleaseAuthorization(session, r) == Authorization(session, AuthorizedForm(r))

ValidQuorum(q) == Len(q) = Threshold /\ IsInjective(q)

(* The point that the shares of these trustees open; share[t] is t's.       *)
OpenedPoint(authorization, share, q) ==
  Combine(authorization.ciphertext, [t \in ToSet(q) |-> share[t].w], ToSet(q))

OnBoard == RerandomizationRecord(Session, Logical, zeros)
CurrentAuthorization == ReleaseAuthorization(Session, OnBoard)
ShareOf == [t \in {shares[i].trustee : i \in DOMAIN shares} |->
              CHOOSE s \in ToSet(shares) : s.trustee = t]
Opened == OpenedPoint(CurrentAuthorization, ShareOf, quorum)

-----------------------------------------------------------------------------
Init ==
  /\ comparison \in Comparisons
  /\ stage = "tallied" /\ quorum = <<>> /\ zeros = <<>> /\ shares = <<>>
  /\ resultBit = NoBit

(* buildLogicalDecisionCiphertext, which throws unless Q = D - C_*.         *)
BuildDecision ==
  /\ stage = "tallied"
  /\ TerminalIdentity(comparison)
  /\ stage' = "ready"
  /\ UNCHANGED <<comparison, quorum, zeros, shares, resultBit>>

(* A phase is defined once: a call finds the board as a failed one left it. *)
RerandomizationDefined == zeros # <<>>

Call(q) ==
  /\ stage \in {"ready", "failed"}
  /\ ValidQuorum(q) /\ ~RerandomizationDefined
  /\ stage' = "running" /\ quorum' = q
  /\ UNCHANGED <<comparison, zeros, shares, resultBit>>

(* E_RELEASE_QUORUM, E_DUPLICATE_TRUSTEE, or the phase exists already.      *)
RefuseCall(q) ==
  /\ stage \in {"ready", "failed"}
  /\ ~ValidQuorum(q) \/ RerandomizationDefined
  /\ stage' = "failed" /\ quorum' = q
  /\ UNCHANGED <<comparison, zeros, shares, resultBit>>

Contribute ==
  /\ stage = "running" /\ Len(zeros) < Trustees
  /\ \E r \in Nonces : zeros' = Append(zeros, EncZero(r))
  /\ UNCHANGED <<comparison, stage, quorum, shares, resultBit>>

Sharing == stage = "running" /\ Len(zeros) = Trustees
NextTrustee == quorum[Len(shares) + 1]

(* (Faulty: all trustees' shares are posted, to take the quorum's of them.) *)
EmitShare_All ==
  /\ Sharing /\ Len(shares) < Trustees
  /\ shares' = Append(shares,
       AuthorizedShare(Len(shares) + 1, CurrentAuthorization,
                       PartialDecryption(Len(shares) + 1, CurrentAuthorization.ciphertext)))
  /\ UNCHANGED <<comparison, stage, quorum, zeros, resultBit>>
EmitShare ==
  /\ Sharing /\ Len(shares) < Len(quorum)
  /\ NextTrustee \in TrusteeIds
  /\ shares' = Append(shares,
       AuthorizedShare(NextTrustee, CurrentAuthorization,
                       PartialDecryption(NextTrustee, CurrentAuthorization.ciphertext)))
  /\ UNCHANGED <<comparison, stage, quorum, zeros, resultBit>>

(* E_TRUSTEE_ID: an id is looked at when its turn comes.                    *)
RefuseTrustee ==
  /\ Sharing /\ Len(shares) < Len(quorum)
  /\ NextTrustee \notin TrusteeIds
  /\ stage' = "failed"
  /\ UNCHANGED <<comparison, quorum, zeros, shares, resultBit>>

Release ==
  /\ Sharing /\ Len(shares) = Len(quorum)
  /\ Opened \in {0, 1}
  /\ stage' = "released" /\ resultBit' = Opened
  /\ UNCHANGED <<comparison, quorum, zeros, shares>>

(* E_FINAL_RESULT_RANGE.                                                    *)
RefuseResult ==
  /\ Sharing /\ Len(shares) = Len(quorum)
  /\ Opened \notin {0, 1}
  /\ stage' = "failed"
  /\ UNCHANGED <<comparison, quorum, zeros, shares, resultBit>>

Next ==
  \/ BuildDecision
  \/ \E q \in Quorums : Call(q) \/ RefuseCall(q)
  \/ Contribute \/ EmitShare \/ RefuseTrustee
  \/ Release \/ RefuseResult

Spec == Init /\ [][Next]_vars

-----------------------------------------------------------------------------
(* The record, and verifyFinalRelease.  Its board holds the rerandomization *)
(* vector and, per trustee, the share of its phase.                         *)
RecordFrom(logical, cs, ids, share) ==
  LET r == RerandomizationRecord(Session, logical, cs)
  IN [session |-> Session, logical |-> logical, rerandomization |-> r, prefix |-> r.vector,
      shareTrusteeIds |-> ids, boardSession |-> Session, boardShares |-> share,
      resultBit |-> resultBit]
Record == RecordFrom(Logical, zeros, quorum, ShareOf)

(* (Faulty: the recorded ids may repeat, and name fewer than the threshold.)*)
RecordedQuorumValid_Repeats(r) == Len(r.shareTrusteeIds) = Threshold
RecordedQuorumValid(r) == ValidQuorum(r.shareTrusteeIds)

(* prefixHashBeforeFinalShares: as many phases are taken off the board as   *)
(* there are ids, and what is left is what the shares were authorized for.  *)
PrefixVerifies(r) ==
  /\ Cardinality(DOMAIN r.boardShares) = Len(r.shareTrusteeIds)
  /\ r.prefix = r.rerandomization.vector

ShareVerifies(r, t, authorization) ==
  /\ t \in TrusteeIds \cap DOMAIN r.boardShares
  /\ r.boardShares[t].trustee = t
  /\ r.boardShares[t].authorization = authorization
  /\ ShareProofValid(r.boardShares[t], authorization.ciphertext)

Verify(r) ==
  LET authorization == ReleaseAuthorization(r.session, r.rerandomization)
  IN /\ r.session = r.boardSession
     /\ RerandomizationVerifies(r.rerandomization, r.logical, {r.rerandomization.session})
     /\ PrefixVerifies(r)
     /\ RecordedQuorumValid(r)
     /\ \A t \in ToSet(r.shareTrusteeIds) : ShareVerifies(r, t, authorization)
     /\ r.resultBit \in {0, 1}
     /\ r.resultBit = OpenedPoint(authorization, r.boardShares, r.shareTrusteeIds)

-----------------------------------------------------------------------------
(* Records that no release made.                                            *)

(* What the board would hold had its trustees posted `cs` and these shares. *)
PostedRecord(logical, cs, ids) ==
  LET a == ReleaseAuthorization(Session, RerandomizationRecord(Session, logical, cs))
  IN RecordFrom(logical, cs, ids,
       [t \in ToSet(ids) \cap TrusteeIds |->
          AuthorizedShare(t, a, PartialDecryption(t, a.ciphertext))])

AlteredPart(r) ==
  {[r EXCEPT !.shareTrusteeIds = q] : q \in Quorums}
  \cup {[r EXCEPT !.logical = c] : c \in Ciphertexts}
  \cup {[r EXCEPT !.rerandomization.output = c] : c \in Ciphertexts}
  \cup {[r EXCEPT !.boardShares[t].w = w] : t \in DOMAIN r.boardShares, w \in Field}
  \cup {PostedRecord(Logical, [zeros EXCEPT ![t] = c], r.shareTrusteeIds) :
          t \in TrusteeIds, c \in Ciphertexts}
  \cup {PostedRecord(c, zeros, q) : c \in Ciphertexts, q \in Quorums}

Altered(r) ==
  {[r EXCEPT !.resultBit = bit] : bit \in {0, 1, 2}}
  \cup {[r EXCEPT !.boardShares = [t \in DOMAIN @ \ {u} |-> @[t]]] : u \in DOMAIN r.boardShares}
  \cup {[s EXCEPT !.resultBit = bit] : s \in AlteredPart(r), bit \in {0, 1}}

-----------------------------------------------------------------------------
(* Type invariant: at most one contribution and one share per trustee, of   *)
(* group elements.                                                          *)
TypeOK ==
  /\ comparison \in Comparisons
  /\ stage \in Stages
  /\ quorum \in Quorums \cup {<<>>}
  /\ zeros \in Seq(Ciphertexts) /\ Len(zeros) <= Trustees
  /\ shares \in Seq([trustee : TrusteeIds, w : Field,
                     authorization : [session : {Session}, ciphertext : Ciphertexts]])
  /\ Len(shares) <= Trustees
  /\ resultBit \in {NoBit, 0, 1}

(* A trustee decrypts the decision only after every trustee has added its   *)
(* encryption of zero, and with all of them in it: neither the borrow nor   *)
(* a ciphertext whose randomness fewer trustees know is ever opened.        *)
OpensOnlyRerandomized ==
  \A i \in DOMAIN shares :
    /\ Len(zeros) = Trustees
    /\ shares[i].w = ScalarMod(SecretShare(shares[i].trustee)
                        * (Logical.R + ModSum([t \in TrusteeIds |-> zeros[t].R], TrusteeIds)))

(* However often it is called, and whatever ids it is called with, the      *)
(* release posts no more shares than one quorum's; and calls that fail with *)
(* a decision that is a bit leave fewer than open anything.                 *)
FailedCallsOpenNothing ==
  /\ Len(shares) <= Threshold
  /\ stage = "failed" /\ Plaintext(Logical) \in {0, 1} => Len(shares) < Threshold

(* The verifier accepts the record of a release, and it accepts no record,  *)
(* whatever part of it is changed and whatever a trustee posted, with a     *)
(* result that is not the bit its logical ciphertext encrypts.              *)
VerifierIsExact ==
  stage = "released" =>
    /\ Verify(Record)
    /\ \A r \in Altered(Record) : Verify(r) => r.resultBit = Plaintext(r.logical)

(* The release opens the decision, the negation of the borrow, and nothing  *)
(* else; whatever the quorum, and however many calls fail.                  *)
Decision == INSTANCE DecisionRelease WITH
  Modulus <- SubgroupOrder,
  decision <- ScalarMod(1 - Plaintext(comparison.Q)),
  opened <- resultBit

ImplementsDecisionRelease == Decision!Spec
=============================================================================
