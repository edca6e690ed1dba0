--------------------------- MODULE BroadcastBoard ---------------------------
(***************************************************************************)
(* The canonical atomic broadcast board through which the trustees of one  *)
(* execution publish their contributions                                   *)
(* (backend/js_protocol/src/broadcast_board.js).                           *)
(*                                                                         *)
(* A phase collects one signed payload from every trustee it requires,     *)
(* keeps them staged, and seals them as one vector when the last arrives.  *)
(* A phase that depends on another takes nothing before that one is        *)
(* sealed.  A trustee that signs two payloads for one slot aborts the      *)
(* whole board.                                                            *)
(*                                                                         *)
(* Abstractions:                                                           *)
(*  - gateId and invocation are one Session: the code only ever uses them  *)
(*    together, and a dependency is resolved within the pair;              *)
(*  - a payload is a member of a small set, and EmptyPayload both stands   *)
(*    for the zero-length buffer the code refuses and marks a slot nobody  *)
(*    has filled (the Map has no entry);                                   *)
(*  - a signature is the fact that the trustee signed this slot and        *)
(*    payload; Signs says what each trustee ever signs.  Callers may       *)
(*    deliver a signed request at any time, in any order, any number of    *)
(*    times, or never;                                                     *)
(*  - the four field checks of a slot's context are one Boolean.           *)
(***************************************************************************)
EXTENDS Integers, Sequences, FiniteSets

CONSTANTS
  NumTrustees,   \* size of the authentication registry, identities 1..a
  Sessions,      \* (gateId, invocation) pairs
  PhaseNames,    \* canonical phase names
  NoPhase,       \* dependsOnPhase = null
  Payloads,      \* nonempty payloads
  EmptyPayload,  \* the zero-length payload; also "no submission yet"
  Definitions,   \* the arguments callers pass to definePhase
  Signs          \* Signs[t][k]: the payloads trustee t signs for slot (k, t)

TrusteeSet == 1..NumTrustees
Keys == Sessions \X PhaseNames

ASSUME BoardAssumption ==
  /\ NumTrustees \in Nat \ {0}
  /\ NoPhase \notin PhaseNames
  /\ EmptyPayload \notin Payloads
  /\ Definitions \subseteq [session   : Sessions,
                            phase     : PhaseNames,
                            dependsOn : PhaseNames \cup {NoPhase},
                            required  : Seq(Int)]
  /\ Signs \in [TrusteeSet -> [Keys -> SUBSET Payloads]]

Key(x) == <<x.session, x.phase>>

\* What reaches submit(): any slot, registered or not, in this execution's
\* context or not, signed only if its trustee did sign it.
Requests ==
  {r \in [session : Sessions, phase : PhaseNames, trustee : 1..(NumTrustees + 1),
          payload : Payloads \cup {EmptyPayload}, current : BOOLEAN, signed : BOOLEAN] :
     r.signed => /\ r.trustee \in TrusteeSet
                 /\ r.payload \in Signs[r.trustee][Key(r)]}

\* A trustee that never signs two payloads for one slot.
Honest == {t \in TrusteeSet : \A k \in Keys : \A p, q \in Signs[t][k] : p = q}

VARIABLES
  status,      \* board.status
  abortRecord, \* the set holding the abort record, empty while it is null
  phases,      \* board.phases, total: a phase not defined yet is UNDEFINED
  delivered,   \* history: what readPhase has returned, as (key, vector) pairs
  reply        \* what the last call returned, or the code it threw

vars == <<status, abortRecord, phases, delivered, reply>>

NoSubmissions == [t \in TrusteeSet |-> EmptyPayload]

UndefinedPhase ==
  [status |-> "UNDEFINED", dependsOn |-> NoPhase, required |-> <<>>,
   submissions |-> NoSubmissions, sealedVector |-> <<>>]

Init ==
  /\ status = "OPEN"
  /\ abortRecord = {}
  /\ phases = [k \in Keys |-> UndefinedPhase]
  /\ delivered = {}
  /\ reply = "NONE"

-----------------------------------------------------------------------------
(* Helpers                                                                 *)

Members(required) == {required[i] : i \in DOMAIN required}

\* Nonempty, without duplicates (the code counts them in a Set), registered and
\* strictly ascending.
CanonicalParticipants(required) ==
  /\ required # <<>>
  /\ Cardinality(Members(required)) = Len(required)
  /\ Members(required) \subseteq TrusteeSet
  /\ \A i \in 2..Len(required) : required[i - 1] < required[i]

Defined(k) == phases[k].status # "UNDEFINED"

Submitters(p) == {t \in TrusteeSet : p.submissions[t] # EmptyPayload}

Prerequisite(k) == <<k[1], phases[k].dependsOn>>

HasPrerequisite(k) == phases[k].dependsOn # NoPhase

\* #dependencyStatus = READY.  (Faulty: a prerequisite that is only defined.)
DependencyReady_Defined(k) ==
  HasPrerequisite(k) => phases[Prerequisite(k)].status # "UNDEFINED"
DependencyReady(k) ==
  HasPrerequisite(k) => phases[Prerequisite(k)].status = "SEALED"

\* The barrier: as many submissions as required trustees.  (Faulty: as
\* many as there are trustees.)
BarrierReached_AllTrustees(p) == Cardinality(Submitters(p)) = NumTrustees
BarrierReached(p) == Cardinality(Submitters(p)) = Len(p.required)

\* The submissions in the order of requiredTrusteeIds.
VectorOf(p) ==
  [i \in DOMAIN p.required |->
     [trustee |-> p.required[i], payload |-> p.submissions[p.required[i]]]]

\* The phase after one more submission: sealed if that was the last one.
\* (Faulty: the last submission does not seal it.)
WithSubmission_NeverSeals(p, t, payload) == [p EXCEPT !.submissions[t] = payload]
WithSubmission(p, t, payload) ==
  LET q == [p EXCEPT !.submissions[t] = payload]
  IN IF BarrierReached(q)
     THEN [q EXCEPT !.status = "SEALED", !.sealedVector = VectorOf(q)]
     ELSE q

-----------------------------------------------------------------------------
(* definePhase                                                             *)

\* (Faulty: a phase can be defined again.)
Definable_Again(d) == status = "OPEN" /\ CanonicalParticipants(d.required)
Definable(d) ==
  /\ status = "OPEN"
  /\ CanonicalParticipants(d.required)
  /\ ~Defined(Key(d))

DefinePhase(d) ==
  /\ Definable(d)
  /\ phases' = [phases EXCEPT ![Key(d)] =
                  [status |-> "STAGING", dependsOn |-> d.dependsOn,
                   required |-> d.required, submissions |-> NoSubmissions,
                   sealedVector |-> <<>>]]
  /\ reply' = "DEFINED"
  /\ UNCHANGED <<status, abortRecord, delivered>>

\* The participant-list errors are one code here: each throws before any change.
DefinePhaseRejected(d) ==
  /\ \/ status # "OPEN" /\ reply' = "E_BOARD_ABORTED"
     \/ /\ status = "OPEN"
        /\ ~CanonicalParticipants(d.required)
        /\ reply' = "E_PHASE_PARTICIPANTS"
     \/ /\ status = "OPEN"
        /\ CanonicalParticipants(d.required)
        /\ Defined(Key(d))
        /\ reply' = "E_PHASE_DUPLICATE"
  /\ UNCHANGED <<status, abortRecord, phases, delivered>>

-----------------------------------------------------------------------------
(* submit: the checks in the order the code makes them                     *)

\* The board is open; #checkBoardSlot, #getPhase and the participant check have
\* passed.
SlotAccepted(r) ==
  /\ status = "OPEN"
  /\ r.current
  /\ r.trustee \in TrusteeSet
  /\ Defined(Key(r))
  /\ r.trustee \in Members(phases[Key(r)].required)

\* The payload is not empty and the trustee's signature over the slot and the
\* payload verifies.  (Faulty: the signature is not looked at.)
Authentic_Unchecked(r) == r.payload # EmptyPayload
Authentic(r) == r.payload # EmptyPayload /\ r.signed

Writable(r) ==
  /\ SlotAccepted(r)
  /\ DependencyReady(Key(r))
  /\ phases[Key(r)].status = "STAGING"
  /\ Authentic(r)

Stored(r) == phases[Key(r)].submissions[r.trustee]

\* The barrier of the prerequisite is not reached: nothing is stored.
SubmitWait(r) ==
  /\ SlotAccepted(r)
  /\ HasPrerequisite(Key(r))
  /\ phases[Prerequisite(Key(r))].status = "STAGING"
  /\ reply' = "WAIT"
  /\ UNCHANGED <<status, abortRecord, phases, delivered>>

\* An identical retry of a staged submission.
SubmitRetry(r) ==
  /\ Writable(r)
  /\ Stored(r) = r.payload
  /\ reply' = "STAGED_IDEMPOTENT"
  /\ UNCHANGED <<status, abortRecord, phases, delivered>>

\* A second, different payload in a slot that is already filled.  (Faulty:
\* any retry counts as a conflict.)
SubmitConflict_AnyRetry(r) ==
  /\ Writable(r)
  /\ Stored(r) # EmptyPayload
  /\ status' = "ABORTED"
  /\ abortRecord' = {[key |-> Key(r), trustee |-> r.trustee,
                      first |-> Stored(r), second |-> r.payload]}
  /\ reply' = "ABORT_EQUIVOCATION"
  /\ UNCHANGED <<phases, delivered>>
SubmitConflict(r) ==
  /\ Writable(r)
  /\ Stored(r) \notin {EmptyPayload, r.payload}
  /\ status' = "ABORTED"
  /\ abortRecord' = {[key |-> Key(r), trustee |-> r.trustee,
                      first |-> Stored(r), second |-> r.payload]}
  /\ reply' = "ABORT_EQUIVOCATION"
  /\ UNCHANGED <<phases, delivered>>

\* The first submission of a slot; the last one of a phase seals it.
SubmitStore(r) ==
  /\ Writable(r)
  /\ Stored(r) = EmptyPayload
  /\ phases' = [phases EXCEPT ![Key(r)] = WithSubmission(@, r.trustee, r.payload)]
  /\ reply' = IF phases'[Key(r)].status = "SEALED" THEN "SEALED" ELSE "STAGED"
  /\ UNCHANGED <<status, abortRecord, delivered>>

\* Every other path throws without a change of state.
SubmitRejected(r) ==
  /\ \/ status # "OPEN" /\ reply' = "E_BOARD_ABORTED"
     \/ status = "OPEN" /\ ~r.current /\ reply' = "E_BOARD_CONTEXT"
     \/ /\ status = "OPEN" /\ r.current
        /\ \/ r.trustee \notin TrusteeSet /\ reply' = "E_TRUSTEE_ID"
           \/ /\ r.trustee \in TrusteeSet
              /\ ~Defined(Key(r))
              /\ reply' = "E_PHASE_UNKNOWN"
           \/ /\ r.trustee \in TrusteeSet
              /\ Defined(Key(r))
              /\ r.trustee \notin Members(phases[Key(r)].required)
              /\ reply' = "E_PHASE_TRUSTEE"
     \/ /\ SlotAccepted(r)
        /\ HasPrerequisite(Key(r))
        /\ ~Defined(Prerequisite(Key(r)))
        /\ reply' = "E_PHASE_DEPENDENCY"
     \/ /\ SlotAccepted(r)
        /\ DependencyReady(Key(r))
        /\ \/ phases[Key(r)].status = "SEALED" /\ reply' = "E_PHASE_SEALED"
           \/ /\ phases[Key(r)].status = "STAGING"
              /\ r.payload = EmptyPayload
              /\ reply' = "E_PAYLOAD_EMPTY"
           \/ /\ phases[Key(r)].status = "STAGING"
              /\ r.payload # EmptyPayload
              /\ ~Authentic(r)
              /\ reply' = "E_TRUSTEE_AUTH"
  /\ UNCHANGED <<status, abortRecord, phases, delivered>>

Submit(r) ==
  \/ SubmitWait(r)
  \/ SubmitRetry(r)
  \/ SubmitConflict(r)
  \/ SubmitStore(r)
  \/ SubmitRejected(r)

-----------------------------------------------------------------------------
(* readPhase                                                               *)

\* Staged submissions stay hidden: only a sealed vector is handed out.  (Faulty:
\* what has arrived so far is.)
ReadSealed_Staged(k) ==
  /\ status = "OPEN"
  /\ Defined(k)
  /\ delivered' = delivered \cup {[key |-> k, vector |-> VectorOf(phases[k])]}
  /\ reply' = "SEALED"
  /\ UNCHANGED <<status, abortRecord, phases>>
ReadSealed(k) ==
  /\ status = "OPEN"
  /\ phases[k].status = "SEALED"
  /\ delivered' = delivered \cup {[key |-> k, vector |-> phases[k].sealedVector]}
  /\ reply' = "SEALED"
  /\ UNCHANGED <<status, abortRecord, phases>>

ReadNothing(k) ==
  /\ \/ status = "ABORTED" /\ reply' = "ABORT"
     \/ status = "OPEN" /\ ~Defined(k) /\ reply' = "E_PHASE_UNKNOWN"
     \/ status = "OPEN" /\ phases[k].status = "STAGING" /\ reply' = "WAIT"
  /\ UNCHANGED <<status, abortRecord, phases, delivered>>

ReadPhase(k) == ReadSealed(k) \/ ReadNothing(k)

-----------------------------------------------------------------------------
Next ==
  \/ \E d \in Definitions : DefinePhase(d) \/ DefinePhaseRejected(d)
  \/ \E r \in Requests : Submit(r)
  \/ \E k \in Keys : ReadPhase(k)

Spec == Init /\ [][Next]_vars

\* An honest trustee keeps submitting what it signed until the board takes it.
\* Nothing is assumed of the others, nor of anyone's reads or definitions.
HonestStore(t, k) ==
  \E r \in Requests : r.trustee = t /\ Key(r) = k /\ SubmitStore(r)

Fairness == \A t \in Honest, k \in Keys : WF_vars(HonestStore(t, k))

FairSpec == Spec /\ Fairness

-----------------------------------------------------------------------------
(* Properties                                                              *)

Entries == [trustee : TrusteeSet, payload : Payloads]

PhaseRecords ==
  [status       : {"UNDEFINED", "STAGING", "SEALED"},
   dependsOn    : PhaseNames \cup {NoPhase},
   required     : Seq(Int),
   submissions  : [TrusteeSet -> Payloads \cup {EmptyPayload}],
   sealedVector : Seq(Entries)]

AbortRecords ==
  [key : Keys, trustee : TrusteeSet, first : Payloads, second : Payloads]

Replies ==
  {"NONE", "DEFINED", "WAIT", "STAGED", "STAGED_IDEMPOTENT", "SEALED", "ABORT",
   "ABORT_EQUIVOCATION", "E_BOARD_ABORTED", "E_PHASE_PARTICIPANTS",
   "E_PHASE_DUPLICATE", "E_BOARD_CONTEXT", "E_TRUSTEE_ID", "E_PHASE_UNKNOWN",
   "E_PHASE_TRUSTEE", "E_PHASE_DEPENDENCY", "E_PHASE_SEALED", "E_PAYLOAD_EMPTY",
   "E_TRUSTEE_AUTH"}

\* The shape of the board's fields.
TypeOK ==
  /\ status \in {"OPEN", "ABORTED"}
  /\ abortRecord \subseteq AbortRecords
  /\ phases \in [Keys -> PhaseRecords]
  /\ delivered \subseteq [key : Keys, vector : Seq(Entries)]
  /\ reply \in Replies

\* A phase is sealed exactly when every required trustee, and nobody else, has
\* a submission in it, although submit() only compares two sizes.
SealedIffComplete ==
  \A k \in Keys :
    Defined(k) =>
      (phases[k].status = "SEALED" <=>
         Submitters(phases[k]) = Members(phases[k].required))

\* The sealed vector lists the required trustees in their order, each once,
\* with the payload that trustee signed for this very slot.
SealedVectorAuthentic ==
  \A k \in Keys :
    phases[k].status = "SEALED" =>
      /\ Len(phases[k].sealedVector) = Len(phases[k].required)
      /\ \A i \in DOMAIN phases[k].required :
           LET t == phases[k].required[i]
           IN /\ phases[k].sealedVector[i] =
                   [trustee |-> t, payload |-> phases[k].submissions[t]]
              /\ phases[k].submissions[t] \in Signs[t][k]

\* Commit before reveal: a phase holds a submission only once the phase it
\* depends on has been sealed.
CommitBeforeReveal ==
  \A k \in Keys :
    (HasPrerequisite(k) /\ Submitters(phases[k]) # {}) =>
      phases[Prerequisite(k)].status = "SEALED"

\* All readers of a phase see the same vector, and it is the sealed one: no
\* read ever returned staged or superseded contributions.
CommonView ==
  \A e \in delivered :
    /\ phases[e.key].status = "SEALED"
    /\ e.vector = phases[e.key].sealedVector

\* The board aborts only with evidence against a trustee that signed two
\* payloads for one unsealed slot: an honest trustee that retries, or whose
\* requests are duplicated and reordered, is never blamed.
AbortOnlyOnEquivocation ==
  /\ status = "ABORTED" <=> abortRecord # {}
  /\ \A a \in abortRecord :
       /\ a.trustee \notin Honest
       /\ a.first # a.second
       /\ {a.first, a.second} \subseteq Signs[a.trustee][a.key]
       /\ phases[a.key].status = "STAGING"
       /\ phases[a.key].submissions[a.trustee] = a.first

\* What a trustee has submitted is never replaced or withdrawn, and a sealed
\* phase never changes again.
FirstWriteWins ==
  [][\A k \in Keys :
       /\ phases[k].status = "SEALED" => phases'[k] = phases[k]
       /\ \A t \in Submitters(phases[k]) :
            phases'[k].submissions[t] = phases[k].submissions[t]]_vars

\* An abort is final: nothing is stored, sealed, defined or read after it.
AbortIsFinal ==
  [][status = "ABORTED" => UNCHANGED <<status, abortRecord, phases, delivered>>]_vars

\* A phase whose required trustees are all honest and whose prerequisite is
\* sealed is itself sealed in the end, unless the board aborts.
OpenBarrierSettles ==
  \A k \in Keys :
    (/\ phases[k].status = "STAGING"
     /\ DependencyReady(k)
     /\ \A t \in Members(phases[k].required) : t \in Honest /\ Signs[t][k] # {})
      ~> (phases[k].status = "SEALED" \/ status = "ABORTED")

\* What broadcast_board.test.js says of a retry, whenever it comes: "identical
\* retry is idempotent and conflicting retry deterministically aborts".
RetryIsIdempotent ==
  [][\A r \in Requests :
       (/\ SlotAccepted(r) /\ Authentic(r)
        /\ Stored(r) = r.payload
        /\ Submit(r)) => reply' = "STAGED_IDEMPOTENT"]_vars

-----------------------------------------------------------------------------
(* The abstract broadcast this board implements                            *)

SlotAfter(session, dependsOn) ==
  IF dependsOn = NoPhase THEN NoPhase ELSE <<session, dependsOn>>

OpenedSlots ==
  {[slot |-> k, after |-> SlotAfter(k[1], phases[k].dependsOn),
    participants |-> phases[k].required] : k \in {l \in Keys : Defined(l)}}

DecidedVectors ==
  [k \in Keys |-> IF phases[k].status = "SEALED" THEN {phases[k].sealedVector} ELSE {}]

A == INSTANCE AtomicBroadcast WITH
       Slots   <- Keys,
       Authors <- TrusteeSet,
       Values  <- Payloads,
       NoSlot  <- NoPhase,
       Signed  <- Signs,
       Setups  <- {[after |-> SlotAfter(d.session, d.dependsOn),
                    participants |-> d.required] : d \in Definitions},
       opened  <- OpenedSlots,
       decided <- DecidedVectors,
       told    <- delivered,
       stopped <- (status = "ABORTED")

\* The board implements the abstract broadcast: collecting, retrying, waiting
\* and refusing are invisible, and each visible step is one of its steps.
ImplementsAtomicBroadcast == A!ASpec
=============================================================================
