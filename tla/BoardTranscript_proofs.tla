----------------------- MODULE BoardTranscript_proofs ----------------------
(***************************************************************************)
(* Proofs about the broadcast board, for every number of trustees, every   *)
(* set of sessions, phase names, payloads and definitions.                 *)
(*                                                                         *)
(* The inductive invariant is PhaseInv for each key (who may be in a       *)
(* phase, when it is sealed, what its vector then is, that its             *)
(* prerequisite was sealed first), with CommonView for what was read and   *)
(* AbortOnlyOnEquivocation for the abort record.  The type invariant is    *)
(* part of it and not inductive alone: a sealed vector is a sequence of    *)
(* entries only because the barrier leaves no required slot empty.  The    *)
(* same invariant is what the verifier of an exported transcript re-checks.*)
(***************************************************************************)
EXTENDS BoardTranscript, Foundations, SequenceTheorems

\* What holds of the phase with key k.
PhaseInv(k) ==
  LET p == phases[k]
  IN /\ p.status = "UNDEFINED" => p = UndefinedPhase
     /\ p.status # "UNDEFINED" => CanonicalParticipants(p.required)
     /\ Submitters(p) \subseteq Members(p.required)
     /\ p.status # "UNDEFINED" =>
          (p.status = "SEALED" <=> Submitters(p) = Members(p.required))
     /\ \A t \in Submitters(p) : p.submissions[t] \in Signs[t][k]
     /\ p.status = "SEALED" => p.sealedVector = VectorOf(p)
     /\ (HasPrerequisite(k) /\ Submitters(p) # {}) =>
          phases[Prerequisite(k)].status = "SEALED"

\* The inductive invariant.
IInv ==
  /\ TypeOK
  /\ \A k \in Keys : PhaseInv(k)
  /\ CommonView
  /\ AbortOnlyOnEquivocation

-----------------------------------------------------------------------------
\* The board counts submissions where it means the required trustees: for a
\* canonical participant list the two barriers are the same.
LEMMA BarrierIsCompleteness ==
  ASSUME NEW required \in Seq(Int), CanonicalParticipants(required),
         NEW S, S \subseteq Members(required)
  PROVE  Cardinality(S) = Len(required) <=> S = Members(required)
<1>1. IsFiniteSet(Members(required))
  <2>1. IsFiniteSet(TrusteeSet)
    BY FS_Interval, BoardAssumption DEF TrusteeSet
  <2>. QED
    BY <2>1, FS_Subset DEF CanonicalParticipants
<1>2. Cardinality(Members(required)) = Len(required)
  BY DEF CanonicalParticipants
<1>. QED
  BY <1>1, <1>2, FS_Subset

\* The vector of a complete phase is a sequence of entries.
LEMMA VectorType ==
  ASSUME NEW p \in PhaseRecords, CanonicalParticipants(p.required),
         Submitters(p) = Members(p.required)
  PROVE  VectorOf(p) \in Seq(Entries)
<1>1. \A i \in 1..Len(p.required) :
        /\ p.required[i] \in TrusteeSet
        /\ p.submissions[p.required[i]] \in Payloads
  BY DEF PhaseRecords, CanonicalParticipants, Submitters, Members
<1>2. p.required \in Seq(Int)
  BY DEF PhaseRecords
<1>3. VectorOf(p) \in [1..Len(p.required) -> Entries]
  BY <1>1, <1>2 DEF VectorOf, Entries
<1>. QED
  BY <1>2, <1>3, SeqDef

LEMMA KeysLemma ==
  /\ \A x \in Definitions : Key(x) \in Keys
  /\ \A x \in Requests : Key(x) \in Keys
  /\ \A k \in Keys, n \in PhaseNames : <<k[1], n>> \in Keys
BY BoardAssumption DEF Key, Keys, Requests

-----------------------------------------------------------------------------
LEMMA InitIInv == Init => IInv
<1> SUFFICES ASSUME Init PROVE IInv
  OBVIOUS
<1>1. UndefinedPhase \in PhaseRecords /\ Submitters(UndefinedPhase) = {}
  BY DEF UndefinedPhase, PhaseRecords, NoSubmissions, Submitters
<1>2. TypeOK
  BY <1>1 DEF Init, TypeOK, Replies
<1>3. \A k \in Keys : PhaseInv(k)
  BY <1>1 DEF Init, PhaseInv, HasPrerequisite, UndefinedPhase
<1>4. CommonView /\ AbortOnlyOnEquivocation
  BY DEF Init, CommonView, AbortOnlyOnEquivocation
<1>. QED
  BY <1>2, <1>3, <1>4 DEF IInv

-----------------------------------------------------------------------------
\* What one more submission makes of a phase.
LEMMA StoreLemma ==
  ASSUME NEW p \in PhaseRecords, p.status = "STAGING",
         CanonicalParticipants(p.required),
         Submitters(p) \subseteq Members(p.required),
         NEW t \in Members(p.required), NEW payload \in Payloads
  PROVE  LET q == WithSubmission(p, t, payload)
         IN /\ q \in PhaseRecords
            /\ q.required = p.required /\ q.dependsOn = p.dependsOn
            /\ q.submissions = [p.submissions EXCEPT ![t] = payload]
            /\ Submitters(q) = Submitters(p) \cup {t}
            /\ q.status \in {"STAGING", "SEALED"}
            /\ q.status = "SEALED" <=> Submitters(q) = Members(q.required)
            /\ q.status = "SEALED" => q.sealedVector = VectorOf(q)
<1> DEFINE w == [p EXCEPT !.submissions[t] = payload]
           z == [w EXCEPT !.status = "SEALED", !.sealedVector = VectorOf(w)]
           q == WithSubmission(p, t, payload)
<1>1. t \in TrusteeSet
  BY DEF CanonicalParticipants
<1>2. /\ w \in PhaseRecords
      /\ w.status = "STAGING" /\ w.required = p.required /\ w.dependsOn = p.dependsOn
      /\ w.submissions = [p.submissions EXCEPT ![t] = payload]
  BY <1>1 DEF PhaseRecords
<1>3. Submitters(w) = Submitters(p) \cup {t}
  BY <1>1, <1>2, BoardAssumption DEF Submitters, PhaseRecords
<1>4. BarrierReached(w) <=> Submitters(w) = Members(w.required)
  <2>1. Submitters(w) \subseteq Members(w.required)
    BY <1>2, <1>3
  <2>2. w.required \in Seq(Int) /\ CanonicalParticipants(w.required)
    BY <1>2 DEF PhaseRecords
  <2>. QED
    BY <2>1, <2>2, BarrierIsCompleteness DEF BarrierReached
<1>5. CASE BarrierReached(w)
  <2>1. q = z
    BY <1>5 DEF WithSubmission
  <2>2. VectorOf(w) \in Seq(Entries)
    BY <1>2, <1>4, <1>5, VectorType
  <2>3. /\ z \in PhaseRecords
        /\ z.status = "SEALED" /\ z.sealedVector = VectorOf(w)
        /\ z.required = w.required /\ z.dependsOn = w.dependsOn
        /\ z.submissions = w.submissions
    BY <1>2, <2>2 DEF PhaseRecords
  <2>4. Submitters(z) = Submitters(w) /\ VectorOf(z) = VectorOf(w)
    BY <2>3 DEF Submitters, VectorOf
  <2> HIDE DEF w, z, q
  <2>. QED
    BY <1>2, <1>3, <1>4, <1>5, <2>1, <2>3, <2>4 DEF q
<1>6. CASE ~BarrierReached(w)
  <2>1. q = w
    BY <1>6 DEF WithSubmission
  <2> HIDE DEF w, z, q
  <2>. QED
    BY <1>2, <1>3, <1>4, <1>6, <2>1 DEF q
<1>. QED
  BY <1>5, <1>6

\* A step that changes nothing but the reply keeps the invariant.
LEMMA ReplyOnly ==
  ASSUME IInv, UNCHANGED <<status, abortRecord, phases, delivered>>, reply' \in Replies
  PROVE  IInv'
<1>1. TypeOK'
  BY DEF IInv, TypeOK
<1>2. ASSUME NEW k \in Keys PROVE PhaseInv(k)'
  BY DEF IInv, PhaseInv, HasPrerequisite, Prerequisite
<1>3. CommonView' /\ AbortOnlyOnEquivocation'
  BY DEF IInv, CommonView, AbortOnlyOnEquivocation
<1>. QED
  BY <1>1, <1>2, <1>3 DEF IInv

\* The phases other than the one that changed keep their invariant, as long as
\* the one that changed was not sealed.
LEMMA OtherPhases ==
  ASSUME IInv, NEW k0 \in Keys, NEW p, phases' = [phases EXCEPT ![k0] = p],
         phases[k0].status # "SEALED", NEW k \in Keys \ {k0}
  PROVE  PhaseInv(k)'
<1>1. phases'[k] = phases[k]
  BY DEF IInv, TypeOK
<1>2. PhaseInv(k)
  BY DEF IInv
<1>3. ASSUME HasPrerequisite(k), Submitters(phases[k]) # {}
      PROVE  phases'[Prerequisite(k)].status = "SEALED"
  <2>1. Prerequisite(k) \in Keys
    BY <1>3, KeysLemma DEF IInv, TypeOK, PhaseRecords, HasPrerequisite, Prerequisite
  <2>. QED
    BY <1>2, <1>3, <2>1 DEF PhaseInv, IInv, TypeOK
<1>. QED
  BY <1>1, <1>2, <1>3 DEF PhaseInv, HasPrerequisite, Prerequisite

\* What was read, and the evidence of an abort, do not move with the phase that
\* changed as long as it was not sealed and the board not aborted.
LEMMA OtherRecords ==
  ASSUME IInv, NEW k0 \in Keys, NEW p, phases' = [phases EXCEPT ![k0] = p],
         phases[k0].status # "SEALED", status = "OPEN",
         UNCHANGED <<status, abortRecord, delivered>>
  PROVE  CommonView' /\ AbortOnlyOnEquivocation'
<1>1. CommonView'
  <2> SUFFICES ASSUME NEW e \in delivered
               PROVE  /\ phases'[e.key].status = "SEALED"
                      /\ e.vector = phases'[e.key].sealedVector
    BY DEF CommonView
  <2>1. e.key \in Keys /\ phases[e.key].status = "SEALED"
    BY DEF IInv, TypeOK, CommonView
  <2>2. phases'[e.key] = phases[e.key]
    BY <2>1 DEF IInv, TypeOK
  <2>. QED
    BY <2>2 DEF IInv, CommonView
<1>2. AbortOnlyOnEquivocation'
  BY DEF IInv, AbortOnlyOnEquivocation
<1>. QED
  BY <1>1, <1>2

-----------------------------------------------------------------------------
LEMMA DefinePhaseIInv ==
  ASSUME IInv, NEW d \in Definitions, DefinePhase(d)
  PROVE  IInv'
<1> DEFINE k0 == Key(d)
           p == [status |-> "STAGING", dependsOn |-> d.dependsOn,
                 required |-> d.required, submissions |-> NoSubmissions,
                 sealedVector |-> <<>>]
<1>1. /\ k0 \in Keys /\ phases[k0].status = "UNDEFINED" /\ status = "OPEN"
      /\ phases' = [phases EXCEPT ![k0] = p]
      /\ UNCHANGED <<status, abortRecord, delivered>>
      /\ CanonicalParticipants(d.required)
  BY KeysLemma DEF DefinePhase, Definable, Defined
<1>2. p \in PhaseRecords /\ Submitters(p) = {} /\ p.required # <<>>
  BY <1>1, BoardAssumption DEF PhaseRecords, NoSubmissions, Submitters, CanonicalParticipants
<1>3. phases'[k0] = p
  BY <1>1 DEF IInv, TypeOK
<1>4. PhaseInv(k0)'
  <2>1. Members(p.required) # {}
    <3>1. p.required \in Seq(Int)
      BY <1>2 DEF PhaseRecords
    <3>2. Len(p.required) \in Nat \ {0} /\ DOMAIN p.required = 1..Len(p.required)
      BY <1>2, <3>1, EmptySeq, LenProperties
    <3>3. p.required[1] \in Members(p.required)
      BY <3>2 DEF Members
    <3>. QED
      BY <3>3
  <2>. QED
    BY <1>1, <1>2, <1>3, <2>1 DEF PhaseInv
<1>5. \A k \in Keys : PhaseInv(k)'
  BY <1>1, <1>4, OtherPhases
<1>6. TypeOK'
  BY <1>1, <1>2 DEF IInv, TypeOK, DefinePhase, Replies
<1>7. CommonView' /\ AbortOnlyOnEquivocation'
  BY <1>1, OtherRecords
<1>. QED
  BY <1>5, <1>6, <1>7 DEF IInv

LEMMA SubmitStoreIInv ==
  ASSUME IInv, NEW r \in Requests, SubmitStore(r)
  PROVE  IInv'
<1> DEFINE k0 == Key(r)
           p == phases[k0]
           q == WithSubmission(p, r.trustee, r.payload)
<1>1. /\ k0 \in Keys /\ p.status = "STAGING" /\ status = "OPEN"
      /\ p \in PhaseRecords /\ PhaseInv(k0)
      /\ r.trustee \in TrusteeSet /\ r.trustee \in Members(p.required)
      /\ r.payload \in Payloads /\ r.payload \in Signs[r.trustee][k0]
      /\ p.submissions[r.trustee] = EmptyPayload
      /\ DependencyReady(k0)
      /\ phases' = [phases EXCEPT ![k0] = q]
      /\ UNCHANGED <<status, abortRecord, delivered>>
      /\ reply' \in {"SEALED", "STAGED"}
  BY KeysLemma, BoardAssumption
     DEF SubmitStore, Writable, SlotAccepted, Authentic, Stored, Requests, IInv, TypeOK
<1>2. CanonicalParticipants(p.required) /\ Submitters(p) \subseteq Members(p.required)
  BY <1>1 DEF PhaseInv
<1>3. /\ q \in PhaseRecords
      /\ q.required = p.required /\ q.dependsOn = p.dependsOn
      /\ q.submissions = [p.submissions EXCEPT ![r.trustee] = r.payload]
      /\ Submitters(q) = Submitters(p) \cup {r.trustee}
      /\ q.status \in {"STAGING", "SEALED"}
      /\ q.status = "SEALED" <=> Submitters(q) = Members(q.required)
      /\ q.status = "SEALED" => q.sealedVector = VectorOf(q)
  BY <1>1, <1>2, StoreLemma
<1> HIDE DEF q
<1>4. phases'[k0] = q
  BY <1>1 DEF IInv, TypeOK
<1>5. PhaseInv(k0)'
  <2>1. \A t \in Submitters(q) : q.submissions[t] \in Signs[t][k0]
    BY <1>1, <1>3 DEF PhaseInv, PhaseRecords, Submitters
  <2>2. ASSUME HasPrerequisite(k0)'
        PROVE  phases'[Prerequisite(k0)'].status = "SEALED"
    <3>1. HasPrerequisite(k0) /\ Prerequisite(k0)' = Prerequisite(k0)
      BY <1>3, <1>4, <2>2 DEF HasPrerequisite, Prerequisite
    <3>2. phases[Prerequisite(k0)].status = "SEALED" /\ Prerequisite(k0) # k0
      BY <1>1, <3>1 DEF DependencyReady
    <3>3. Prerequisite(k0) \in Keys
      BY <1>1, <3>1, KeysLemma DEF Prerequisite, HasPrerequisite, PhaseRecords
    <3>. QED
      BY <1>1, <3>1, <3>2, <3>3 DEF IInv, TypeOK
  <2>3. CanonicalParticipants(q.required) /\ Submitters(q) \subseteq Members(q.required)
    BY <1>1, <1>2, <1>3
  <2> HIDE DEF p
  <2>. QED
    BY <1>3, <1>4, <2>1, <2>2, <2>3 DEF PhaseInv
<1>6. \A k \in Keys : PhaseInv(k)'
  BY <1>1, <1>5, OtherPhases
<1>7. TypeOK'
  BY <1>1, <1>3 DEF IInv, TypeOK, Replies
<1>8. CommonView' /\ AbortOnlyOnEquivocation'
  BY <1>1, OtherRecords
<1>. QED
  BY <1>6, <1>7, <1>8 DEF IInv

LEMMA SubmitConflictIInv ==
  ASSUME IInv, NEW r \in Requests, SubmitConflict(r)
  PROVE  IInv'
<1> DEFINE k0 == Key(r)
           a == [key |-> k0, trustee |-> r.trustee, first |-> Stored(r),
                 second |-> r.payload]
<1>1. /\ k0 \in Keys /\ phases[k0].status = "STAGING" /\ PhaseInv(k0)
      /\ phases[k0] \in PhaseRecords
      /\ r.trustee \in TrusteeSet
      /\ r.payload \in Payloads /\ r.payload \in Signs[r.trustee][k0]
      /\ Stored(r) # EmptyPayload /\ Stored(r) # r.payload
      /\ Stored(r) = phases[k0].submissions[r.trustee]
      /\ status' = "ABORTED" /\ abortRecord' = {a}
      /\ UNCHANGED <<phases, delivered>>
  BY KeysLemma, BoardAssumption
     DEF SubmitConflict, Writable, SlotAccepted, Authentic, Stored, Requests, IInv, TypeOK
<1>2. Stored(r) \in Payloads /\ Stored(r) \in Signs[r.trustee][k0]
  BY <1>1 DEF PhaseInv, PhaseRecords, Submitters
<1>3. TypeOK'
  BY <1>1, <1>2 DEF IInv, TypeOK, AbortRecords, SubmitConflict, Replies
<1>4. ASSUME NEW k \in Keys PROVE PhaseInv(k)'
  BY <1>1 DEF IInv, PhaseInv, HasPrerequisite, Prerequisite
<1>5. CommonView'
  BY <1>1 DEF IInv, CommonView
<1>6. AbortOnlyOnEquivocation'
  BY <1>1, <1>2 DEF AbortOnlyOnEquivocation, Honest
<1>. QED
  BY <1>3, <1>4, <1>5, <1>6 DEF IInv

LEMMA ReadSealedIInv ==
  ASSUME IInv, NEW k0 \in Keys, ReadSealed(k0)
  PROVE  IInv'
<1>1. /\ phases[k0].status = "SEALED"
      /\ delivered' = delivered \cup {[key |-> k0, vector |-> phases[k0].sealedVector]}
      /\ reply' = "SEALED"
      /\ UNCHANGED <<status, abortRecord, phases>>
  BY DEF ReadSealed
<1>2. phases[k0].sealedVector \in Seq(Entries)
  BY DEF IInv, TypeOK, PhaseRecords
<1>3. TypeOK'
  BY <1>1, <1>2 DEF IInv, TypeOK, Replies
<1>4. ASSUME NEW k \in Keys PROVE PhaseInv(k)'
  BY <1>1 DEF IInv, PhaseInv, HasPrerequisite, Prerequisite
<1>5. CommonView' /\ AbortOnlyOnEquivocation'
  BY <1>1 DEF IInv, CommonView, AbortOnlyOnEquivocation
<1>. QED
  BY <1>3, <1>4, <1>5 DEF IInv

LEMMA NextIInv == IInv /\ [Next]_vars => IInv'
<1> SUFFICES ASSUME IInv, [Next]_vars PROVE IInv'
  OBVIOUS
<1>1. ASSUME NEW d \in Definitions, DefinePhase(d) PROVE IInv'
  BY <1>1, DefinePhaseIInv
<1>2. ASSUME NEW d \in Definitions, DefinePhaseRejected(d) PROVE IInv'
  BY <1>2, ReplyOnly DEF DefinePhaseRejected, Replies
<1>3. ASSUME NEW r \in Requests, Submit(r) PROVE IInv'
  <2>1. CASE SubmitStore(r)
    BY <2>1, SubmitStoreIInv
  <2>2. CASE SubmitConflict(r)
    BY <2>2, SubmitConflictIInv
  <2>3. CASE SubmitWait(r)
    BY <2>3, ReplyOnly DEF SubmitWait, Replies
  <2>4. CASE SubmitRetry(r)
    BY <2>4, ReplyOnly DEF SubmitRetry, Replies
  <2>5. CASE SubmitRejected(r)
    BY <2>5, ReplyOnly DEF SubmitRejected, Replies
  <2>. QED
    BY <1>3, <2>1, <2>2, <2>3, <2>4, <2>5 DEF Submit
<1>4. ASSUME NEW k \in Keys, ReadPhase(k) PROVE IInv'
  <2>1. CASE ReadSealed(k)
    BY <2>1, ReadSealedIInv
  <2>2. CASE ReadNothing(k)
    BY <2>2, ReplyOnly DEF ReadNothing, Replies
  <2>. QED
    BY <1>4, <2>1, <2>2 DEF ReadPhase
<1>5. CASE UNCHANGED vars
  BY <1>5, ReplyOnly DEF vars, IInv, TypeOK
<1>. QED
  BY <1>1, <1>2, <1>3, <1>4, <1>5 DEF Next

THEOREM Inductive == Spec => []IInv
BY InitIInv, NextIInv, PTL DEF Spec

-----------------------------------------------------------------------------
(* The invariants the runs check follow from IInv                          *)

\* The board's fields always have their shape.
THEOREM TypeCorrect == Spec => []TypeOK
<1>1. IInv => TypeOK
  BY DEF IInv
<1>. QED
  BY <1>1, Inductive, PTL

\* Comparing two sizes in submit() seals a phase exactly when it is complete.
THEOREM BarrierCorrect == Spec => []SealedIffComplete
<1>1. IInv => SealedIffComplete
  BY DEF IInv, PhaseInv, SealedIffComplete, Defined
<1>. QED
  BY <1>1, Inductive, PTL

\* A sealed vector holds, in order, what each required trustee signed.
THEOREM VectorCorrect == Spec => []SealedVectorAuthentic
<1>1. ASSUME IInv, NEW k \in Keys, phases[k].status = "SEALED"
      PROVE  /\ Len(phases[k].sealedVector) = Len(phases[k].required)
             /\ \A i \in DOMAIN phases[k].required :
                  LET t == phases[k].required[i]
                  IN /\ phases[k].sealedVector[i] =
                          [trustee |-> t, payload |-> phases[k].submissions[t]]
                     /\ phases[k].submissions[t] \in Signs[t][k]
  <2> DEFINE p == phases[k]
  <2>1. /\ p \in PhaseRecords /\ p.sealedVector = VectorOf(p)
        /\ Submitters(p) = Members(p.required)
        /\ \A t \in Submitters(p) : p.submissions[t] \in Signs[t][k]
    BY <1>1 DEF IInv, TypeOK, PhaseInv
  <2>2. p.required \in Seq(Int) /\ p.sealedVector \in Seq(Entries)
    BY <2>1 DEF PhaseRecords
  <2>3. Len(VectorOf(p)) = Len(p.required)
    BY <2>1, <2>2, LenProperties DEF VectorOf
  <2>4. \A i \in DOMAIN p.required : p.required[i] \in Submitters(p)
    BY <2>1 DEF Members
  <2> HIDE DEF p
  <2>5. QED
    BY <2>1, <2>3, <2>4 DEF VectorOf, p
<1>2. IInv => SealedVectorAuthentic
  BY <1>1 DEF SealedVectorAuthentic
<1>. QED
  BY <1>2, Inductive, PTL

\* Nothing enters a phase before the phase it depends on is sealed.
THEOREM RevealAfterCommit == Spec => []CommitBeforeReveal
<1>1. IInv => CommitBeforeReveal
  BY DEF IInv, PhaseInv, CommitBeforeReveal
<1>. QED
  BY <1>1, Inductive, PTL

\* Whoever reads a phase, whenever, is given the one sealed vector.
THEOREM Agreement == Spec => []CommonView
<1>1. IInv => CommonView
  BY DEF IInv
<1>. QED
  BY <1>1, Inductive, PTL

\* The board aborts only on two payloads a dishonest trustee signed.
THEOREM NoFalseAbort == Spec => []AbortOnlyOnEquivocation
<1>1. IInv => AbortOnlyOnEquivocation
  BY DEF IInv
<1>. QED
  BY <1>1, Inductive, PTL

-----------------------------------------------------------------------------
(* Action properties                                                       *)

\* A stored submission is never replaced and a sealed phase never changes.
THEOREM WritesStick == Spec => FirstWriteWins
<1> DEFINE Keep == \A k \in Keys :
                     /\ phases[k].status = "SEALED" => phases'[k] = phases[k]
                     /\ \A t \in Submitters(phases[k]) :
                          phases'[k].submissions[t] = phases[k].submissions[t]
<1>1. ASSUME IInv, [Next]_vars PROVE Keep
  <2>1. ASSUME UNCHANGED phases PROVE Keep
    BY <2>1
  <2>2. ASSUME NEW d \in Definitions, DefinePhase(d) PROVE Keep
    <3>1. /\ Key(d) \in Keys /\ phases[Key(d)].status = "UNDEFINED"
          /\ phases[Key(d)] = UndefinedPhase
          /\ \A k \in Keys \ {Key(d)} : phases'[k] = phases[k]
      BY <1>1, <2>2, KeysLemma DEF DefinePhase, Definable, Defined, IInv, TypeOK, PhaseInv
    <3>2. Submitters(UndefinedPhase) = {}
      BY DEF Submitters, UndefinedPhase, NoSubmissions
    <3>. QED
      BY <3>1, <3>2
  <2>3. ASSUME NEW r \in Requests, SubmitStore(r) PROVE Keep
    <3> DEFINE k0 == Key(r)
               q == WithSubmission(phases[k0], r.trustee, r.payload)
    <3>1. /\ k0 \in Keys /\ phases[k0].status = "STAGING"
          /\ phases[k0] \in PhaseRecords
          /\ r.trustee \in Members(phases[k0].required) /\ r.payload \in Payloads
          /\ phases[k0].submissions[r.trustee] = EmptyPayload
          /\ CanonicalParticipants(phases[k0].required)
          /\ Submitters(phases[k0]) \subseteq Members(phases[k0].required)
          /\ phases' = [phases EXCEPT ![k0] = q]
      BY <1>1, <2>3, KeysLemma
         DEF SubmitStore, Writable, SlotAccepted, Authentic, Stored, Requests, IInv,
             TypeOK, PhaseInv
    <3>2. q.submissions = [phases[k0].submissions EXCEPT ![r.trustee] = r.payload]
      BY <3>1, StoreLemma
    <3> HIDE DEF q
    <3>3. phases'[k0] = q /\ \A k \in Keys \ {k0} : phases'[k] = phases[k]
      BY <1>1, <3>1 DEF IInv, TypeOK
    <3>4. \A t \in Submitters(phases[k0]) : t # r.trustee /\ t \in TrusteeSet
      BY <3>1 DEF Submitters
    <3>5. \A t \in Submitters(phases[k0]) : q.submissions[t] = phases[k0].submissions[t]
      BY <3>1, <3>2, <3>4 DEF PhaseRecords
    <3>. QED
      BY <3>1, <3>3, <3>5
  <2>4. ASSUME NEW r \in Requests, Submit(r), ~SubmitStore(r) PROVE UNCHANGED phases
    BY <2>4 DEF Submit, SubmitWait, SubmitRetry, SubmitConflict, SubmitRejected
  <2>5. ASSUME NEW k \in Keys, ReadPhase(k) PROVE UNCHANGED phases
    BY <2>5 DEF ReadPhase, ReadSealed, ReadNothing
  <2>6. ASSUME NEW d \in Definitions, DefinePhaseRejected(d) PROVE UNCHANGED phases
    BY <2>6 DEF DefinePhaseRejected
  <2>. QED
    BY <1>1, <2>1, <2>2, <2>3, <2>4, <2>5, <2>6 DEF Next, vars
<1>2. IInv /\ [Next]_vars => [Keep]_vars
  BY <1>1
<1>. QED
  BY <1>2, Inductive, PTL DEF Spec, FirstWriteWins

\* Nothing but replies changes after an abort.
THEOREM AbortSticks == Spec => AbortIsFinal
<1> DEFINE Frozen == status = "ABORTED" =>
                       UNCHANGED <<status, abortRecord, phases, delivered>>
<1>1. [Next]_vars => [Frozen]_vars
  BY DEF Next, vars, DefinePhase, Definable, DefinePhaseRejected, Submit, SubmitWait,
         SubmitRetry, SubmitConflict, SubmitStore, SubmitRejected, Writable,
         SlotAccepted, ReadPhase, ReadSealed, ReadNothing
<1>. QED
  BY <1>1, PTL DEF Spec, AbortIsFinal

-----------------------------------------------------------------------------
(* The board implements the abstract broadcast                             *)

LEMMA InitRefines == Init => A!AInit
BY DEF Init, A!AInit, OpenedSlots, DecidedVectors, Defined, UndefinedPhase

LEMMA DefinePhaseRefines ==
  ASSUME IInv, NEW d \in Definitions, DefinePhase(d)
  PROVE  A!ANext
<1> DEFINE k0 == Key(d)
           u == [after |-> SlotAfter(d.session, d.dependsOn), participants |-> d.required]
           o == [slot |-> k0, after |-> u.after, participants |-> u.participants]
<1>1. /\ k0 \in Keys /\ phases[k0].status = "UNDEFINED" /\ status = "OPEN"
      /\ UNCHANGED <<status, delivered>>
      /\ phases'[k0].status = "STAGING" /\ phases'[k0].dependsOn = d.dependsOn
      /\ phases'[k0].required = d.required
      /\ \A k \in Keys \ {k0} : phases'[k] = phases[k]
  BY KeysLemma DEF DefinePhase, Definable, Defined, IInv, TypeOK
<1>2. k0[1] = d.session
  BY DEF Key
<1>3. OpenedSlots' = OpenedSlots \cup {o}
  BY <1>1, <1>2 DEF OpenedSlots, Defined
<1>4. \A x \in OpenedSlots : x.slot # k0
  BY <1>1 DEF OpenedSlots, Defined
<1>5. DecidedVectors' = DecidedVectors
  BY <1>1 DEF DecidedVectors
<1>6. A!Open(k0, u.after, u.participants)
  BY <1>1, <1>3, <1>4, <1>5 DEF A!Open
<1>. QED
  BY <1>1, <1>6 DEF A!ANext

LEMMA SubmitStoreRefines ==
  ASSUME IInv, NEW r \in Requests, SubmitStore(r)
  PROVE  A!ANext \/ UNCHANGED A!absVars
<1> DEFINE k0 == Key(r)
           p == phases[k0]
           q == WithSubmission(p, r.trustee, r.payload)
           o == [slot |-> k0, after |-> SlotAfter(k0[1], p.dependsOn),
                 participants |-> p.required]
<1>1. /\ k0 \in Keys /\ p.status = "STAGING" /\ status = "OPEN"
      /\ p \in PhaseRecords
      /\ r.trustee \in Members(p.required) /\ r.payload \in Payloads
      /\ CanonicalParticipants(p.required) /\ Submitters(p) \subseteq Members(p.required)
      /\ DependencyReady(k0)
      /\ phases' = [phases EXCEPT ![k0] = q]
      /\ UNCHANGED <<status, delivered>>
  BY KeysLemma
     DEF SubmitStore, Writable, SlotAccepted, Authentic, Stored, Requests, IInv, TypeOK, PhaseInv
<1>2. /\ q \in PhaseRecords
      /\ q.required = p.required /\ q.dependsOn = p.dependsOn
      /\ q.status \in {"STAGING", "SEALED"}
  BY <1>1, StoreLemma, ZenonT(30)
<1> HIDE DEF q
<1>3. phases'[k0] = q /\ \A k \in Keys \ {k0} : phases'[k] = phases[k]
  BY <1>1 DEF IInv, TypeOK
<1>4. OpenedSlots' = OpenedSlots
  <2>1. \A k \in Keys : /\ phases'[k].status = "UNDEFINED" <=> phases[k].status = "UNDEFINED"
                        /\ phases'[k].dependsOn = phases[k].dependsOn
                        /\ phases'[k].required = phases[k].required
    BY <1>1, <1>2, <1>3
  <2>. QED
    BY <2>1 DEF OpenedSlots, Defined
<1>5. CASE q.status = "STAGING"
  <2>1. DecidedVectors' = DecidedVectors
    BY <1>1, <1>3, <1>5 DEF DecidedVectors
  <2>. QED
    BY <1>1, <1>4, <2>1 DEF A!absVars
<1>6. CASE q.status = "SEALED"
  <2>1. o \in OpenedSlots
    BY <1>1 DEF OpenedSlots, Defined
  <2>2. DecidedVectors[k0] = {} /\ DecidedVectors' = [DecidedVectors EXCEPT ![k0] = {q.sealedVector}]
    BY <1>1, <1>3, <1>6 DEF DecidedVectors
  <2>3. o.after # NoPhase => DecidedVectors[o.after] # {}
    <3>1. SUFFICES ASSUME p.dependsOn # NoPhase
                   PROVE  DecidedVectors[<<k0[1], p.dependsOn>>] # {}
      BY DEF SlotAfter
    <3>2. <<k0[1], p.dependsOn>> \in Keys
      BY <1>1, <3>1, KeysLemma DEF PhaseRecords
    <3>. QED
      BY <1>1, <3>1, <3>2 DEF DependencyReady, HasPrerequisite, Prerequisite, DecidedVectors
  <2>4. q.sealedVector \in A!VectorsFor(k0, p.required)
    <3>1. PhaseInv(k0)'
      BY SubmitStoreIInv, <1>1 DEF IInv
    <3>2. /\ q.sealedVector = VectorOf(q) /\ Submitters(q) = Members(q.required)
          /\ \A t \in Submitters(q) : q.submissions[t] \in Signs[t][k0]
          /\ CanonicalParticipants(q.required)
      BY <1>3, <1>6, <3>1 DEF PhaseInv
    <3>3. \A i \in DOMAIN p.required :
            /\ p.required[i] \in Submitters(q)
            /\ p.required[i] \in TrusteeSet /\ q.submissions[p.required[i]] \in Payloads
      BY <1>2, <3>2 DEF Members, Submitters, PhaseRecords
    <3>4. q.required = p.required
      BY <1>2
    <3>5. q.sealedVector = [i \in DOMAIN p.required |->
                              [trustee |-> p.required[i], payload |-> q.submissions[p.required[i]]]]
      BY <3>2, <3>4 DEF VectorOf
    <3>6. q.sealedVector \in [DOMAIN p.required -> [trustee : TrusteeSet, payload : Payloads]]
      <4> HIDE DEF p, q
      <4>. QED
        BY <3>3, <3>5
    <3>7. \A i \in DOMAIN p.required :
            /\ q.sealedVector[i].trustee = p.required[i]
            /\ q.sealedVector[i].payload \in Signs[p.required[i]][k0]
      <4> HIDE DEF p, q
      <4>. QED
        BY <3>2, <3>3, <3>5
    <3>. QED
      BY <3>6, <3>7 DEF A!VectorsFor
  <2>5. A!Decide(o)
    <3> HIDE DEF p
    <3>. QED
      BY <1>1, <1>4, <2>1, <2>2, <2>3, <2>4 DEF A!Decide
  <2>. QED
    BY <2>1, <2>5 DEF A!ANext
<1>. QED
  BY <1>2, <1>5, <1>6

LEMMA NextRefines == IInv /\ [Next]_vars => [A!ANext]_A!absVars
<1> SUFFICES ASSUME IInv, [Next]_vars PROVE A!ANext \/ UNCHANGED A!absVars
  OBVIOUS
<1>1. ASSUME UNCHANGED <<status, phases, delivered>> PROVE UNCHANGED A!absVars
  BY <1>1 DEF A!absVars, OpenedSlots, DecidedVectors, Defined
<1>2. ASSUME NEW d \in Definitions, DefinePhase(d) PROVE A!ANext
  BY <1>2, DefinePhaseRefines
<1>3. ASSUME NEW r \in Requests, SubmitStore(r) PROVE A!ANext \/ UNCHANGED A!absVars
  BY <1>3, SubmitStoreRefines
<1>4. ASSUME NEW r \in Requests, SubmitConflict(r) PROVE A!ANext
  <2>1. /\ status = "OPEN" /\ status' = "ABORTED" /\ UNCHANGED <<phases, delivered>>
        /\ r.trustee \in TrusteeSet
    BY <1>4 DEF SubmitConflict, Writable, SlotAccepted
  <2>2. r.trustee \notin Honest
    <3>1. AbortOnlyOnEquivocation'
      BY <1>4, SubmitConflictIInv DEF IInv
    <3>2. \E a \in abortRecord' : a.trustee = r.trustee
      BY <1>4 DEF SubmitConflict
    <3>. QED
      BY <3>1, <3>2 DEF AbortOnlyOnEquivocation, Honest
  <2>3. A!Equivocator(r.trustee)
    BY <2>1, <2>2 DEF Honest, A!Equivocator
  <2>4. A!Stop
    BY <2>1, <2>3 DEF A!Stop, OpenedSlots, DecidedVectors, Defined
  <2>. QED
    BY <2>4 DEF A!ANext
<1>5. ASSUME NEW k \in Keys, ReadSealed(k) PROVE A!ANext
  <2>1. /\ status = "OPEN" /\ phases[k].status = "SEALED"
        /\ delivered' = delivered \cup {[key |-> k, vector |-> phases[k].sealedVector]}
        /\ UNCHANGED <<status, phases>>
    BY <1>5 DEF ReadSealed
  <2>2. phases[k].sealedVector \in DecidedVectors[k]
    BY <2>1 DEF DecidedVectors
  <2>3. A!Tell(k)
    BY <2>1, <2>2 DEF A!Tell, OpenedSlots, DecidedVectors, Defined
  <2>. QED
    BY <2>3 DEF A!ANext
<1>6. ASSUME NEW r \in Requests, Submit(r), ~SubmitStore(r), ~SubmitConflict(r)
      PROVE  UNCHANGED A!absVars
  BY <1>1, <1>6 DEF Submit, SubmitWait, SubmitRetry, SubmitRejected
<1>7. ASSUME NEW k \in Keys, ReadNothing(k) PROVE UNCHANGED A!absVars
  BY <1>1, <1>7 DEF ReadNothing
<1>8. ASSUME NEW d \in Definitions, DefinePhaseRejected(d) PROVE UNCHANGED A!absVars
  BY <1>1, <1>8 DEF DefinePhaseRejected
<1>9. CASE UNCHANGED vars
  BY <1>1, <1>9 DEF vars
<1>. QED
  BY <1>2, <1>3, <1>4, <1>5, <1>6, <1>7, <1>8, <1>9 DEF Next, ReadPhase

\* Every behaviour of the board, seen through the mapping, is a behaviour of
\* the abstract broadcast.
THEOREM Implementation == Spec => ImplementsAtomicBroadcast
BY InitRefines, NextRefines, Inductive, PTL DEF Spec, ImplementsAtomicBroadcast, A!ASpec

-----------------------------------------------------------------------------
(* The exported transcript verifies                                        *)

\* A list of all the members of a set, as long as the set is large, orders it.
LEMMA ListOrders ==
  ASSUME NEW S, NEW o \in Seq(S), Members(o) = S, Len(o) = Cardinality(S)
  PROVE  /\ IsFiniteSet(S)
         /\ \A x \in S : ~Precedes(o, x, x)
         /\ \A x, y, z \in S : Precedes(o, x, y) /\ Precedes(o, y, z) => Precedes(o, x, z)
         /\ \A x, y \in S : x # y => Precedes(o, x, y) \/ Precedes(o, y, x)
<1>1. o \in [1..Len(o) -> S] /\ Len(o) \in Nat /\ DOMAIN o = 1..Len(o)
  OBVIOUS
<1>2. \A x \in S : \E i \in DOMAIN o : o[i] = x
  BY DEF Members
<1>3. o \in Surjection(1..Len(o), S)
  BY <1>1, <1>2 DEF Surjection
<1>4. IsFiniteSet(1..Len(o)) /\ Cardinality(1..Len(o)) = Len(o)
  BY <1>1, FS_Interval
<1>5. IsFiniteSet(S) /\ o \in Injection(1..Len(o), S)
  BY <1>3, <1>4, FS_Surjection
<1>6. \A i, j \in DOMAIN o : o[i] = o[j] => i = j
  BY <1>1, <1>5 DEF Injection, IsInjective
<1>7. \A x \in S : ~Precedes(o, x, x)
  BY <1>1, <1>6 DEF Precedes
<1>8. ASSUME NEW x \in S, NEW y \in S, NEW z \in S, Precedes(o, x, y), Precedes(o, y, z)
      PROVE  Precedes(o, x, z)
  <2>1. PICK i \in DOMAIN o, j \in DOMAIN o : i < j /\ o[i] = x /\ o[j] = y
    BY <1>8 DEF Precedes
  <2>2. PICK k \in DOMAIN o, l \in DOMAIN o : k < l /\ o[k] = y /\ o[l] = z
    BY <1>8 DEF Precedes
  <2>3. j = k
    BY <1>6, <2>1, <2>2
  <2>4. i < l
    BY <1>1, <2>1, <2>2, <2>3
  <2> QED
    BY <2>1, <2>2, <2>4 DEF Precedes
<1>9. ASSUME NEW x \in S, NEW y \in S, x # y
      PROVE  Precedes(o, x, y) \/ Precedes(o, y, x)
  <2>1. PICK i \in DOMAIN o, j \in DOMAIN o : o[i] = x /\ o[j] = y
    BY <1>2
  <2>2. i < j \/ j < i
    BY <1>1, <1>9, <2>1
  <2> QED
    BY <2>1, <2>2 DEF Precedes
<1> QED
  BY <1>5, <1>7, <1>8, <1>9

\* The keys are finitely many, and either order of the names orders them.
LEMMA KeysAreOrdered ==
  ASSUME NEW ks \in SUBSET Keys
  PROVE  /\ IsFiniteSet(ks)
         /\ StrictOrder(ks, {p \in ks \X ks : KeyBefore(LocaleOrder, p[1], p[2])})
<1> DEFINE B(x, y) == Precedes(LocaleOrder, x, y)
           C(x, y) == Precedes(SessionOrder, x, y)
<1>1. /\ LocaleOrder \in Seq(PhaseNames) /\ SessionOrder \in Seq(Sessions)
      /\ Members(LocaleOrder) = PhaseNames /\ Len(LocaleOrder) = Cardinality(PhaseNames)
      /\ Members(SessionOrder) = Sessions /\ Len(SessionOrder) = Cardinality(Sessions)
  BY OrderAssumption
<1>2. /\ IsFiniteSet(PhaseNames)
      /\ \A x \in PhaseNames : ~B(x, x)
      /\ \A x, y, z \in PhaseNames : B(x, y) /\ B(y, z) => B(x, z)
      /\ \A x, y \in PhaseNames : x # y => B(x, y) \/ B(y, x)
  BY <1>1, ListOrders
<1>3. /\ IsFiniteSet(Sessions)
      /\ \A x \in Sessions : ~C(x, x)
      /\ \A x, y, z \in Sessions : C(x, y) /\ C(y, z) => C(x, z)
      /\ \A x, y \in Sessions : x # y => C(x, y) \/ C(y, x)
  BY <1>1, ListOrders
<1>4. IsFiniteSet(ks)
  <2>1. IsFiniteSet(Keys)
    BY <1>2, <1>3, FS_Product DEF Keys
  <2> QED
    BY <2>1, FS_Subset
<1> DEFINE K(k, l) == KeyBefore(LocaleOrder, k, l)
<1>5. \A k, l : K(k, l) <=> (C(k[1], l[1]) \/ (k[1] = l[1] /\ B(k[2], l[2])))
  BY DEF KeyBefore
<1> HIDE DEF B, C, K
<1>6. \A k \in ks : k[1] \in Sessions /\ k[2] \in PhaseNames
  BY DEF Keys
<1>7. \A k, l \in ks : k[1] = l[1] /\ k[2] = l[2] => k = l
  BY DEF Keys
<1>8. \A k \in ks : ~K(k, k)
  BY <1>2, <1>3, <1>5, <1>6
<1>9. ASSUME NEW k \in ks, NEW l \in ks, NEW m \in ks, K(k, l), K(l, m) PROVE K(k, m)
  <2>1. CASE k[1] = l[1] /\ l[1] = m[1]
    <3>1. B(k[2], l[2]) /\ B(l[2], m[2])
      BY <1>3, <1>5, <1>6, <1>9, <2>1
    <3> QED
      BY <1>2, <1>5, <1>6, <2>1, <3>1
  <2>2. CASE ~(k[1] = l[1] /\ l[1] = m[1])
    <3>1. C(k[1], m[1])
      BY <1>3, <1>5, <1>6, <1>9, <2>2
    <3> QED
      BY <1>5, <3>1
  <2> QED
    BY <2>1, <2>2
<1>10. \A k, l \in ks : k # l => K(k, l) \/ K(l, k)
  BY <1>2, <1>3, <1>5, <1>6, <1>7
<1> DEFINE R == {p \in ks \X ks : K(p[1], p[2])}
<1>11. \A k, l \in ks : <<k, l>> \in R <=> K(k, l)
  OBVIOUS
<1> HIDE DEF R
<1>12. StrictOrder(ks, R)
  BY <1>8, <1>9, <1>10, <1>11 DEF StrictOrder
<1> QED
  BY <1>4, <1>12 DEF R, K

\* What the export lists of a phase passes the verifier's check of a phase.
LEMMA SubmissionsVerify ==
  ASSUME NEW p \in PhaseRecords, CanonicalParticipants(p.required),
         Submitters(p) \subseteq Members(p.required)
  PROVE  LET l == SubmissionList(p)
         IN /\ Len(l) = Cardinality(Submitters(p))
            /\ \A i \in DOMAIN l : /\ l[i].trustee \in Submitters(p)
                                   /\ l[i].payload = p.submissions[l[i].trustee]
            /\ {l[i].trustee : i \in DOMAIN l} = Submitters(p)
            /\ [i \in DOMAIN l |-> l[i].trustee] =
                 AtPlaces(p.required, {i \in DOMAIN p.required : p.required[i] \in Submitters(p)})
<1> DEFINE S == Submitters(p)
           n == Cardinality(S)
           order == InOrder(S, Ascending(S))
           l == SubmissionList(p)
           s == p.required
<1>1. s \in Seq(Int) /\ s \in [1..Len(s) -> Int] /\ Len(s) \in Nat /\ DOMAIN s = 1..Len(s)
  BY DEF PhaseRecords
<1>2. IsFiniteSet(S) /\ S \in SUBSET Int
  <2>1. IsFiniteSet(TrusteeSet) /\ S \in SUBSET TrusteeSet /\ TrusteeSet \in SUBSET Int
    BY FS_Interval, BoardAssumption DEF TrusteeSet, Submitters
  <2> QED
    BY <2>1, FS_Subset
<1>3. l = [i \in DOMAIN order |-> [trustee |-> order[i], payload |-> p.submissions[order[i]]]]
  BY DEF SubmissionList
<1> HIDE DEF S, order, l
<1>4. /\ order \in [1..n -> S] /\ n \in Nat
      /\ \A x \in S : \E i \in 1..n : order[i] = x
  <2>1. /\ Sorts(order, S, Ascending(S))
        /\ \A x \in S : \E i \in 1..n : order[i] = x
    BY <1>2, AscendingIsStrict, InOrderSorts DEF order
  <2> QED
    BY <1>2, <2>1, FS_CardinalityType DEF Sorts
<1> HIDE DEF n
<1>5. DOMAIN l = 1..n /\ \A i \in 1..n : l[i] = [trustee |-> order[i], payload |-> p.submissions[order[i]]]
  BY <1>3, <1>4
<1>6. Len(l) = n
  BY <1>3, <1>4, LenProperties
<1>7. \A i, j \in 1..Len(s) : i < j => s[i] < s[j]
  <2>1. \A i \in 2..Len(s) : s[i - 1] < s[i]
    BY DEF CanonicalParticipants
  <2> HIDE DEF s
  <2> QED
    BY <1>1, <2>1, NeighboursAscend
<1>8. \A x \in S : \E i \in 1..Len(s) : s[i] = x
  BY <1>1 DEF Members, S
<1>9. AtPlaces(s, {i \in 1..Len(s) : s[i] \in S}) = order
  <2> HIDE DEF s
  <2> QED
    BY <1>1, <1>7, <1>8, PlacesSort DEF order
<1>10. [i \in DOMAIN l |-> l[i].trustee] = order
  <2>1. order = [i \in 1..n |-> order[i]]
    BY <1>4
  <2> QED
    BY <1>5, <2>1
<1>11. {l[i].trustee : i \in DOMAIN l} = S
  BY <1>4, <1>5
<1>12. \A i \in DOMAIN l : l[i].trustee \in S /\ l[i].payload = p.submissions[l[i].trustee]
  BY <1>4, <1>5
<1> QED
  BY <1>1, <1>6, <1>9, <1>10, <1>11, <1>12 DEF S, n, l

\* A board's own export verifies at every moment, if the two orders of the
\* phase names agree; a run shows that it need not when they differ.
THEOREM ExportIsAccepted ==
  ASSUME LocaleOrder = CodeUnitOrder
  PROVE  Spec => []ExportVerifies
<1>1. ASSUME IInv PROVE ExportVerifies
  <2> DEFINE ks == {k \in Keys : Defined(k)}
             n == Cardinality(ks)
             order == ExportOrder(ks)
             t == ExportTranscript
             entry(k) == [key |-> k, dependsOn |-> phases[k].dependsOn,
                          required |-> phases[k].required, status |-> phases[k].status,
                          submissions |-> SubmissionList(phases[k])]
  <2>1. /\ IsFiniteSet(ks)
        /\ StrictOrder(ks, {p \in ks \X ks : KeyBefore(LocaleOrder, p[1], p[2])})
    <3> HIDE DEF ks
    <3>1. ks \in SUBSET Keys
      BY DEF ks
    <3> QED
      BY <3>1, KeysAreOrdered
  <2>2. /\ order \in [1..n -> ks] /\ n \in Nat
        /\ \A i, j \in 1..n : i < j => KeyBefore(LocaleOrder, order[i], order[j])
        /\ \A k \in ks : \E i \in 1..n : order[i] = k
    <3> DEFINE R == {p \in ks \X ks : KeyBefore(LocaleOrder, p[1], p[2])}
    <3>1. order = InOrder(ks, R)
      BY DEF ExportOrder
    <3>2. \A p \in R : KeyBefore(LocaleOrder, p[1], p[2])
      OBVIOUS
    <3>3. StrictOrder(ks, R)
      BY <2>1
    <3> HIDE DEF R, order, ks
    <3>4. Sorts(order, ks, R) /\ \A k \in ks : \E i \in 1..n : order[i] = k
      BY <2>1, <3>1, <3>3, InOrderSorts
    <3> QED
      BY <2>1, <3>2, <3>4, FS_CardinalityType DEF Sorts
  <2>3. t = [status |-> status, abortRecord |-> abortRecord,
             phases |-> [i \in DOMAIN order |-> entry(order[i])]]
    BY DEF ExportTranscript
  <2>4. \A k \in ks : k \in Keys /\ Defined(k)
    OBVIOUS
  <2> HIDE DEF ks, n, order, t
  <2>5. /\ t.status = status /\ t.abortRecord = abortRecord
        /\ DOMAIN t.phases = 1..n
        /\ \A i \in 1..n : /\ t.phases[i].key = order[i]
                            /\ t.phases[i].dependsOn = phases[order[i]].dependsOn
                            /\ t.phases[i].required = phases[order[i]].required
                            /\ t.phases[i].status = phases[order[i]].status
                            /\ t.phases[i].submissions = SubmissionList(phases[order[i]])
    <3>1. DOMAIN order = 1..n
      BY <2>2
    <3>2. /\ t.status = status /\ t.abortRecord = abortRecord
          /\ t.phases = [i \in 1..n |-> entry(order[i])]
      <4> HIDE DEF entry
      <4> QED
        BY <2>3, <3>1
    <3>3. ASSUME NEW i \in 1..n PROVE t.phases[i] = entry(order[i])
      <4> HIDE DEF entry
      <4> QED
        BY <3>2
    <3>4. DOMAIN t.phases = 1..n
      <4> HIDE DEF entry
      <4> QED
        BY <3>2
    <3> QED
      BY <3>2, <3>3, <3>4
  <2>6. Len(t.phases) = n
    <3>1. t.phases = [i \in 1..n |-> entry(order[i])]
      BY <2>2, <2>3
    <3> HIDE DEF entry
    <3> QED
      BY <2>2, <3>1, LenProperties
  <2>7. VerifyPhaseOrder(t)
    <3> SUFFICES ASSUME NEW i \in 2..n
                 PROVE  KeyBefore(CodeUnitOrder, t.phases[i - 1].key, t.phases[i].key)
      BY <2>6 DEF VerifyPhaseOrder
    <3>1. i - 1 \in 1..n /\ i \in 1..n /\ i - 1 < i
      BY <2>2
    <3>2. t.phases[i - 1].key = order[i - 1] /\ t.phases[i].key = order[i]
      BY <2>5, <3>1
    <3> QED
      BY <2>2, <3>1, <3>2
  <2>8. ASSUME NEW i \in 1..n
        PROVE  LET x == t.phases[i]
               IN /\ CanonicalParticipants(x.required)
                  /\ VerifyBarrier(x)
                  /\ VerifySubmissions(x)
                  /\ VerifyDependency(t, x)
    <3> DEFINE k == order[i]
               p == phases[k]
               l == SubmissionList(p)
               x == t.phases[i]
    <3>1. k \in ks /\ k \in Keys /\ Defined(k)
      BY <2>2, <2>4
    <3>2. /\ p \in PhaseRecords /\ p.status \in {"STAGING", "SEALED"}
          /\ CanonicalParticipants(p.required)
          /\ Submitters(p) \subseteq Members(p.required)
          /\ p.status = "SEALED" <=> Submitters(p) = Members(p.required)
          /\ \A u \in Submitters(p) : p.submissions[u] \in Signs[u][k]
          /\ (HasPrerequisite(k) /\ Submitters(p) # {}) =>
               phases[Prerequisite(k)].status = "SEALED"
      BY <1>1, <3>1 DEF IInv, TypeOK, PhaseInv, Defined, PhaseRecords
    <3>3. /\ x.key = k /\ x.dependsOn = p.dependsOn /\ x.required = p.required
          /\ x.status = p.status /\ x.submissions = l
      BY <2>5
    <3> HIDE DEF x
    <3>4. /\ Len(l) = Cardinality(Submitters(p))
          /\ \A j \in DOMAIN l : /\ l[j].trustee \in Submitters(p)
                                 /\ l[j].payload = p.submissions[l[j].trustee]
          /\ {l[j].trustee : j \in DOMAIN l} = Submitters(p)
          /\ [j \in DOMAIN l |-> l[j].trustee] =
               AtPlaces(p.required, {j \in DOMAIN p.required : p.required[j] \in Submitters(p)})
      BY <3>2, SubmissionsVerify
    <3> HIDE DEF l, p, k
    <3>5. VerifyBarrier(x)
      <4>1. Cardinality(Submitters(p)) = Len(p.required) <=> Submitters(p) = Members(p.required)
        BY <3>2, BarrierIsCompleteness DEF PhaseRecords
      <4>2. /\ IsFiniteSet(Members(p.required))
            /\ Cardinality(Members(p.required)) = Len(p.required)
        <5>1. IsFiniteSet(TrusteeSet) /\ Members(p.required) \in SUBSET TrusteeSet
          BY <3>2, FS_Interval, BoardAssumption DEF TrusteeSet, CanonicalParticipants
        <5> QED
          BY <3>2, <5>1, FS_Subset DEF CanonicalParticipants
      <4>3. /\ Cardinality(Submitters(p)) <= Len(p.required)
            /\ Cardinality(Submitters(p)) \in Nat /\ Len(p.required) \in Nat
        BY <3>2, <4>2, FS_Subset, FS_CardinalityType
      <4> QED
        BY <3>2, <3>3, <3>4, <4>1, <4>3 DEF VerifyBarrier
    <3>6. VerifySubmissions(x)
      <4>1. \A j \in DOMAIN l : /\ l[j].trustee \in Members(p.required)
                                /\ l[j].payload \in Signs[l[j].trustee][k]
        BY <3>2, <3>4
      <4> DEFINE submitted == {x.submissions[j].trustee : j \in DOMAIN x.submissions}
                 places == {j \in DOMAIN x.required : x.required[j] \in submitted}
      <4>2. submitted = Submitters(p)
        BY <3>3, <3>4
      <4>3. [j \in DOMAIN x.submissions |-> x.submissions[j].trustee] = AtPlaces(x.required, places)
        <5> HIDE DEF submitted
        <5> QED
          BY <3>3, <3>4, <4>2
      <4>4. \A j \in DOMAIN x.submissions :
              /\ x.submissions[j].trustee \in Members(x.required)
              /\ x.submissions[j].payload \in Signs[x.submissions[j].trustee][x.key]
        BY <3>3, <4>1
      <4> QED
        BY <4>3, <4>4 DEF VerifySubmissions
    <3>7. VerifyDependency(t, x)
      <4> SUFFICES ASSUME p.dependsOn # NoPhase, l # <<>>
                   PROVE  \E j \in DOMAIN t.phases :
                            /\ t.phases[j].key = <<k[1], p.dependsOn>>
                            /\ t.phases[j].status = "SEALED"
        BY <3>3 DEF VerifyDependency
      <4> DEFINE m == <<k[1], p.dependsOn>>
      <4>1. Submitters(p) # {}
        <5>1. ASSUME Submitters(p) = {} PROVE l = <<>>
          <6>1. DOMAIN l = {}
            BY <3>4, <5>1
          <6>2. l = [j \in DOMAIN l |-> [trustee |-> InOrder(Submitters(p), Ascending(Submitters(p)))[j],
                       payload |-> p.submissions[InOrder(Submitters(p), Ascending(Submitters(p)))[j]]]]
            BY DEF l, SubmissionList
          <6> QED
            BY <6>1, <6>2
        <5> QED
          BY <5>1
      <4>2. p.dependsOn \in PhaseNames /\ m \in Keys
        BY <3>1, <3>2, KeysLemma DEF PhaseRecords
      <4>3. phases[m].status = "SEALED"
        BY <3>2, <4>1 DEF HasPrerequisite, Prerequisite, p
      <4>4. m \in ks
        BY <4>2, <4>3 DEF ks, Defined
      <4>5. PICK j \in 1..n : order[j] = m
        BY <2>2, <4>4
      <4>6. t.phases[j].key = m /\ t.phases[j].status = "SEALED"
        BY <2>5, <4>3, <4>5
      <4> QED
        BY <2>5, <4>6
    <3> QED
      BY <3>2, <3>3, <3>5, <3>6, <3>7 DEF x
  <2>9. t.status = "ABORTED" <=> t.abortRecord # {}
    BY <1>1, <2>5 DEF IInv, AbortOnlyOnEquivocation
  <2>10. VerifyBroadcastTranscript(t)
    <3> HIDE DEF entry
    <3>1. \A i \in DOMAIN t.phases :
            /\ CanonicalParticipants(t.phases[i].required)
            /\ VerifyBarrier(t.phases[i])
            /\ VerifySubmissions(t.phases[i])
            /\ VerifyDependency(t, t.phases[i])
      BY <2>5, <2>8
    <3> QED
      BY <2>7, <2>9, <3>1 DEF VerifyBroadcastTranscript
  <2> QED
    BY <2>10 DEF ExportVerifies, t
<1> QED
  BY <1>1, Inductive, PTL
=============================================================================
