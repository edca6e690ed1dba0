--------------------------- MODULE BoardTranscript --------------------------
(***************************************************************************)
(* The board's exported transcript and its independent verification:       *)
(* exportTranscript() writes every phase, staged ones included;            *)
(* verifyBroadcastTranscript() re-checks it without the board.  The two    *)
(* sort phase names with different comparisons: the export with            *)
(* localeCompare, the verifier with the code-unit order of "<".  Encoding  *)
(* and hashing of the canonical JSON are left out.                         *)
(***************************************************************************)
EXTENDS BroadcastBoard, Ordering

CONSTANTS
  SessionOrder,  \* the sessions by (gateId, invocation), both orders agree
  LocaleOrder,   \* the phase names as localeCompare sorts them
  CodeUnitOrder  \* the phase names as "<" on strings sorts them

ASSUME OrderAssumption ==
  /\ \A o \in {LocaleOrder, CodeUnitOrder} :
       /\ o \in Seq(PhaseNames)
       /\ Members(o) = PhaseNames /\ Len(o) = Cardinality(PhaseNames)
  /\ SessionOrder \in Seq(Sessions)
  /\ Members(SessionOrder) = Sessions /\ Len(SessionOrder) = Cardinality(Sessions)

\* x comes before y in the list o.
Precedes(o, x, y) == \E i, j \in DOMAIN o : i < j /\ o[i] = x /\ o[j] = y

KeyBefore(nameOrder, k, l) ==
  \/ Precedes(SessionOrder, k[1], l[1])
  \/ k[1] = l[1] /\ Precedes(nameOrder, k[2], l[2])

\* The submissions of a phase as the export lists them: by trustee identity.
SubmissionList(p) ==
  LET order == InOrder(Submitters(p), Ascending(Submitters(p)))
  IN [i \in DOMAIN order |-> [trustee |-> order[i], payload |-> p.submissions[order[i]]]]

ExportOrder(ks) ==
  InOrder(ks, {p \in ks \X ks : KeyBefore(LocaleOrder, p[1], p[2])})

ExportTranscript ==
  LET order == ExportOrder({k \in Keys : Defined(k)})
      entry(k) == [key |-> k, dependsOn |-> phases[k].dependsOn,
                   required |-> phases[k].required, status |-> phases[k].status,
                   submissions |-> SubmissionList(phases[k])]
  IN [status |-> status, abortRecord |-> abortRecord,
      phases |-> [i \in DOMAIN order |-> entry(order[i])]]

\* verifyBroadcastTranscript, check by check.
VerifyPhaseOrder(t) ==
  \A i \in 2..Len(t.phases) :
    KeyBefore(CodeUnitOrder, t.phases[i - 1].key, t.phases[i].key)

VerifyBarrier(p) ==
  /\ p.status \in {"STAGING", "SEALED"}
  /\ p.status = "SEALED"  => Len(p.submissions) = Len(p.required)
  /\ p.status = "STAGING" => Len(p.submissions) < Len(p.required)

VerifySubmissions(p) ==
  /\ \A i \in DOMAIN p.submissions :
       /\ p.submissions[i].trustee \in Members(p.required)
       /\ p.submissions[i].payload \in Signs[p.submissions[i].trustee][p.key]
  /\ LET submitted == {p.submissions[i].trustee : i \in DOMAIN p.submissions}
         expected == AtPlaces(p.required, {i \in DOMAIN p.required : p.required[i] \in submitted})
     IN [i \in DOMAIN p.submissions |-> p.submissions[i].trustee] = expected

VerifyDependency(t, p) ==
  (p.dependsOn # NoPhase /\ p.submissions # <<>>) =>
    \E i \in DOMAIN t.phases : /\ t.phases[i].key = <<p.key[1], p.dependsOn>>
                               /\ t.phases[i].status = "SEALED"

VerifyBroadcastTranscript(t) ==
  /\ VerifyPhaseOrder(t)
  /\ \A i \in DOMAIN t.phases :
       /\ CanonicalParticipants(t.phases[i].required)
       /\ VerifyBarrier(t.phases[i])
       /\ VerifySubmissions(t.phases[i])
       /\ VerifyDependency(t, t.phases[i])
  /\ t.status = "ABORTED" <=> t.abortRecord # {}

-----------------------------------------------------------------------------
\* A board's own export always verifies, at whatever moment it is taken: in
\* the middle of a phase, after an abort, with phases defined and unused
\* (broadcast_board.test.js: "canonical signed transcript replays").
ExportVerifies == VerifyBroadcastTranscript(ExportTranscript)
=============================================================================
