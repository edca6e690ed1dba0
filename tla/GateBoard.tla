------------------------------ MODULE GateBoard ------------------------------
(* The board of a conditional gate: the phases that runConditionalGate and  *)
(* the adapter of a native record (cgy_native/tools/native_gate_adapter.js) *)
(* define on it, its export, and how a verifier finds the messages in it.   *)
(* Both post the same phases in the same order, so that the record of a     *)
(* JavaScript gate is here the adapted native record of the same messages.  *)
(* A hash is the value hashed.                                              *)
EXTENDS ConditionalGate, Ordering

CONSTANTS
  BaseSessions,   \* base sessions in use, in ascending order
  Base            \* the gate's

SessionBefore(s, t) ==
  \/ s.gate < t.gate
  \/ s.gate = t.gate /\ s.invocation < t.invocation

ASSUME SessionAssumption ==
  /\ BaseSessions \in Seq([gate : Nat, invocation : Nat])
  /\ \A i, j \in DOMAIN BaseSessions : i < j => SessionBefore(BaseSessions[i], BaseSessions[j])
  /\ Base \in ToSet(BaseSessions)

SubSession(base, offset) == [base EXCEPT !.invocation = 16 * @ + offset]

(* All sub-sessions of a gate, in the order of the exports.                 *)
SubSessions(base) == [i \in 1..4 |-> SubSession(base, i - 1)]
Sessions == UNION {ToSet(SubSessions(b)) : b \in ToSet(BaseSessions)}
SessionOrder ==
  InOrder(Sessions, {p \in Sessions \X Sessions : SessionBefore(p[1], p[2])})

-----------------------------------------------------------------------------
(* The native record.                                                       *)

MaskMessages(session, ms) ==
  [t \in DOMAIN ms |-> [session |-> session, previous |-> Previous(ms, t), next |-> ms[t]]]

(* The record of a gate run for `base` with these masks and contributions;  *)
(* each w of ws is sent as a decryption of the rerandomized Y.              *)
NativeRecord(base, ms, xs, ys, ws) ==
  LET x == RerandomizationRecord(SubSession(base, 1), Masked(ms).X, xs)
      y == RerandomizationRecord(SubSession(base, 2), Masked(ms).Y, ys)
      sign == IF Combine(y.output, ws, Quorum) = 1 THEN 1 ELSE -1
  IN [maskingSession |-> SubSession(base, 0),
      masking |-> MaskMessages(SubSession(base, 0), ms),
      x |-> x, y |-> y,
      partialSession |-> SubSession(base, 3),
      partials |-> [t \in DOMAIN ws |->
                     AuthorizedShare(t, Authorization(SubSession(base, 3), y.output), ws[t])],
      openedSign |-> sign, output |-> GateOutput(inputX, sign, x.output)]

-----------------------------------------------------------------------------
(* Phases, as an export lists them.                                         *)

NoPhase == <<"none", 0>>
MaskingPhase(t) == <<"MASKING", t>>
XPhase == <<"GATE_X_RERANDOMIZATION", 0>>
YPhase == <<"GATE_Y_DECRYPT_RERANDOMIZATION", 0>>
PartialPhase(t) == <<"GATE_Y_PARTIAL_DECRYPTION", t>>
IsPartialPhase(name) == name[1] = "GATE_Y_PARTIAL_DECRYPTION"

SealedPhase(session, name, dependsOn, required, messages) ==
  [key |-> <<session, name>>, dependsOn |-> dependsOn, required |-> required,
   status |-> "SEALED",
   submissions |-> [i \in DOMAIN required |->
                      [trustee |-> required[i], payload |-> messages[i]]]]

AllTrustees == [t \in TrusteeIds |-> t]

PhasesBeforeShares(r) ==
  [t \in TrusteeIds |->
     SealedPhase(r.maskingSession, MaskingPhase(t),
                 IF t = 1 THEN NoPhase ELSE MaskingPhase(t - 1), <<t>>, <<r.masking[t]>>)]
  \o << SealedPhase(r.x.session, XPhase, NoPhase, AllTrustees, r.x.vector),
        SealedPhase(r.y.session, YPhase, NoPhase, AllTrustees, r.y.vector) >>

(* The message is made for the session and the ciphertext of the record,    *)
(* under the trustee of the phase; its proof is the one the record holds.   *)
ShareMessage(r, t) ==
  [trustee |-> t, authorization |-> Authorization(r.partialSession, r.y.output),
   proven |-> r.partials[t].authorization, w |-> r.partials[t].w]

SharePhases(r) ==
  [t \in TrusteeIds |->
     SealedPhase(r.partialSession, PartialPhase(t), NoPhase, <<t>>, <<ShareMessage(r, t)>>)]

(* The order of phases in an export.                                        *)
NameOrder ==
  <<XPhase, YPhase>> \o [t \in 1..(Trustees + 1) |-> PartialPhase(t)]
  \o [t \in TrusteeIds |-> MaskingPhase(t)]
NameIndex == [name \in ToSet(NameOrder) |-> CHOOSE i \in DOMAIN NameOrder : NameOrder[i] = name]

PhaseBefore(p, q) ==
  \/ SessionBefore(p.key[1], q.key[1])
  \/ p.key[1] = q.key[1] /\ NameIndex[p.key[2]] < NameIndex[q.key[2]]
PlaceBefore(phases, i, j) ==
  PhaseBefore(phases[i], phases[j]) \/ (phases[i].key = phases[j].key /\ i < j)
PlacePairs(phases, places) ==
  {p \in places \X places : PlaceBefore(phases, p[1], p[2])}
Export(phases) ==
  LET order == InOrder(DOMAIN phases, PlacePairs(phases, DOMAIN phases))
  IN [i \in DOMAIN phases |-> phases[order[i]]]

(* The record that verifyConditionalGateTranscript takes, from a board that *)
(* held `before`.                                                           *)
Adapted(r, before) ==
  LET posted == before \o PhasesBeforeShares(r)
  IN [maskingSession |-> r.maskingSession, masked |-> r.masking[Trustees].next,
      x |-> [session |-> r.x.session, input |-> r.x.input, output |-> r.x.output],
      y |-> [session |-> r.y.session, input |-> r.y.input, output |-> r.y.output],
      partialSession |-> r.partialSession, prefix |-> Export(posted),
      openedSign |-> r.openedSign, output |-> r.output,
      board |-> Export(posted \o SharePhases(r))]

-----------------------------------------------------------------------------
(* The board as a verifier reads it.                                        *)

MaskMessageSet ==
  LET pair == [X : Ciphertexts, Y : Ciphertexts]
  IN [session : Sessions, previous : pair, next : pair]
ContributionSet == [session : Sessions, input : Ciphertexts, contribution : Ciphertexts]
ShareSet ==
  LET authorizations == [session : Sessions, ciphertext : Ciphertexts]
  IN [trustee : TrusteeIds, authorization : authorizations, proven : authorizations, w : Field]

(* verifyBroadcastTranscript, of trustees that would sign any message.      *)
Board == INSTANCE BoardTranscript WITH
  NumTrustees   <- Trustees,
  PhaseNames    <- ToSet(NameOrder),
  Payloads      <- MaskMessageSet \cup ContributionSet \cup ShareSet,
  EmptyPayload  <- <<>>,
  Definitions   <- {},
  Signs         <- [t \in TrusteeIds |-> [k \in Sessions \X ToSet(NameOrder) |->
                      MaskMessageSet \cup ContributionSet \cup ShareSet]],
  SessionOrder  <- SessionOrder,
  LocaleOrder   <- NameOrder,
  CodeUnitOrder <- NameOrder,
  status <- "OPEN", abortRecord <- {}, phases <- <<>>, delivered <- {}, reply <- "NONE"

BoardVerifies(board) ==
  Board!VerifyBroadcastTranscript([status |-> "OPEN", abortRecord |-> {}, phases |-> board])

(* boardVectorFor.                                                          *)
HasVector(board, session, name) ==
  \E i \in DOMAIN board : board[i].key = <<session, name>> /\ board[i].status = "SEALED"
VectorFor(board, session, name) ==
  LET i == CHOOSE i \in DOMAIN board : board[i].key = <<session, name>>
  IN [j \in DOMAIN board[i].submissions |-> board[i].submissions[j].payload]

(* boardPrefixHashBeforePartialDecryptions.  (Faulty: the shares of all the *)
(* board's gates are taken off.)                                            *)
SharePhaseOf_AnyGate(e, session) == IsPartialPhase(e.key[2])
SharePhaseOf(e, session) == e.key[1] = session /\ IsPartialPhase(e.key[2])

WithoutShares(board, session) ==
  AtPlaces(board, {i \in DOMAIN board : ~SharePhaseOf(board[i], session)})
PrefixVerifies(r, session) ==
  /\ Len(WithoutShares(r.board, session)) = Len(r.board) - Trustees
  /\ WithoutShares(r.board, session) = r.prefix
=============================================================================
