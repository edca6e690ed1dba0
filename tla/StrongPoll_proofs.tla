-------------------------- MODULE StrongPoll_proofs -------------------------
(***************************************************************************)
(* Proofs about the on-chain poll, for every number of deployments and     *)
(* voters, every size, field order and word size.                          *)
(*                                                                         *)
(* SealedBoard and LocalAdmission are the two ways ballots reach the tally *)
(* from here; what they accept follows from the same invariant.            *)
(*                                                                         *)
(* The inductive invariant ties each deployment's storage to its events:   *)
(* the counter is their number, the used nullifiers are theirs, the        *)
(* accumulator is the chain over them, and every word in them is a         *)
(* canonical field element.  The last is what makes "no duplicate word"    *)
(* mean "no second ballot of a voter".                                     *)
(***************************************************************************)
EXTENDS LocalAdmission, SequenceTheorems, TLAPS

Full(p) == poll[p].phase \in {"Sealed", "Claimed"}

\* What holds of the events of deployment p.
LogInv(p) ==
  /\ \A i \in DOMAIN log[p] :
       /\ log[p][i].ballotIndex = i - 1
       /\ log[p][i].nullifier \in FieldElements
       /\ log[p][i].ciphertext \in FieldElements \ {IdentityWord}
  /\ \A i, j \in DOMAIN log[p] : log[p][i].nullifier = log[p][j].nullifier => i = j
  /\ \A i \in DOMAIN log[p] : \E v \in Voters : NullifierOf[v] = log[p][i].nullifier

\* How its storage follows from them.
StorageInv(p) ==
  /\ poll[p].acceptedBallotCount = Len(log[p])
  /\ poll[p].usedNullifiers = {log[p][i].nullifier : i \in DOMAIN log[p]}
  /\ ~Deployed(p) => poll[p] = NotDeployed
  /\ Deployed(p) =>
       /\ poll[p].config \in Configs
       /\ poll[p].config.deadline # 0
       /\ poll[p].accumulator = AccumulatorFromLog(p)
       /\ poll[p].ballotSetCommitment =
            IF Full(p) THEN Final(AccumulatorFromLog(p)) ELSE ZeroHash
       /\ Len(log[p]) = N <=> Full(p)

\* The inductive invariant.
IInv ==
  /\ TypeOK
  /\ \A p \in Deployments : LogInv(p) /\ StorageInv(p)

-----------------------------------------------------------------------------
\* A field element is its own residue.
LEMMA Residue ==
  ASSUME NEW w \in FieldElements
  PROVE  w % FieldOrder = w
BY PollAssumption DEF FieldElements

\* The leaves of a log with one more event.
LEMMA LeavesAppend ==
  ASSUME NEW domain, NEW entries \in Seq(Events), NEW e \in Events
  PROVE  LeavesOf(domain, Append(entries, e)) =
           Append(LeavesOf(domain, entries), Leaf(domain, e.ballotIndex, e))
<1>. DEFINE L == LeavesOf(domain, Append(entries, e))
            R == Append(LeavesOf(domain, entries), Leaf(domain, e.ballotIndex, e))
            All == {Leaf(domain, x.ballotIndex, x) : x \in Events}
<1>1. LeavesOf(domain, entries) \in Seq(All)
  <2>1. LeavesOf(domain, entries) \in [1..Len(entries) -> All]
    BY DEF LeavesOf
  <2>. QED
    BY <2>1, SeqDef
<1>2. L \in [1..(Len(entries) + 1) -> All]
  BY DEF LeavesOf
<1>3. L \in Seq(All) /\ Len(L) = Len(entries) + 1
  BY <1>2, SeqDef
<1>4. R \in Seq(All) /\ Len(R) = Len(entries) + 1
  BY <1>1 DEF LeavesOf
<1>5. \A i \in 1..Len(L) : L[i] = R[i]
  <2>1. \A i \in 1..Len(entries) :
          L[i] = Leaf(domain, entries[i].ballotIndex, entries[i])
    BY DEF LeavesOf
  <2>2. \A i \in 1..Len(entries) :
          R[i] = Leaf(domain, entries[i].ballotIndex, entries[i])
    BY <1>1 DEF LeavesOf
  <2>3. L[Len(entries) + 1] = Leaf(domain, e.ballotIndex, e)
    BY DEF LeavesOf
  <2>4. R[Len(entries) + 1] = Leaf(domain, e.ballotIndex, e)
    BY <1>1 DEF LeavesOf
  <2>5. Len(entries) \in Nat
    OBVIOUS
  <2>. HIDE DEF L, R
  <2>. QED
    BY <1>3, <2>1, <2>2, <2>3, <2>4, <2>5
<1>. HIDE DEF L, R
<1>6. L = R
  BY <1>3, <1>4, <1>5, SeqEqual
<1>. QED
  BY <1>6 DEF L, R

\* Leaves have their type.
LEMMA LeavesType ==
  ASSUME NEW domain \in Domains, NEW entries \in Seq(Events)
  PROVE  LeavesOf(domain, entries) \in Seq(Leaves)
<1>1. \A x \in Events : Leaf(domain, x.ballotIndex, x) \in Leaves
  BY DEF Leaf, Leaves, Events
<1>2. LeavesOf(domain, entries) \in [1..Len(entries) -> Leaves]
  BY <1>1 DEF LeavesOf
<1>. QED
  BY <1>2, SeqDef

LEMMA NotDeployedType == NotDeployed \in PollRecords
BY PollAssumption DEF NotDeployed, PollRecords, Phases

-----------------------------------------------------------------------------
LEMMA InitIInv == Init => IInv
<1> SUFFICES ASSUME Init PROVE IInv
  OBVIOUS
<1>2. TypeOK
  BY NotDeployedType, PollAssumption DEF Init, TypeOK
<1>3. ASSUME NEW p \in Deployments PROVE LogInv(p) /\ StorageInv(p)
  BY PollAssumption DEF Init, LogInv, StorageInv, Deployed, NotDeployed, Full
<1>. QED
  BY <1>2, <1>3 DEF IInv

\* A deployment whose storage and events a step leaves alone keeps its part.
LEMMA Untouched ==
  ASSUME NEW p \in Deployments, LogInv(p), StorageInv(p),
         poll'[p] = poll[p], log'[p] = log[p]
  PROVE  LogInv(p)' /\ StorageInv(p)'
BY DEF LogInv, StorageInv, Deployed, Full, AccumulatorFromLog

LEMMA TickIInv ==
  ASSUME IInv, Tick PROVE IInv'
<1>1. TypeOK'
  BY PollAssumption DEF IInv, TypeOK, Tick
<1>2. ASSUME NEW p \in Deployments PROVE LogInv(p)' /\ StorageInv(p)'
  BY <1>2, Untouched DEF IInv, Tick
<1>. QED
  BY <1>1, <1>2 DEF IInv

LEMMA ConstructorIInv ==
  ASSUME IInv, NEW p \in Deployments, NEW c \in Configs, Constructor(p, c)
  PROVE  IInv'
<1>. DEFINE d == PollDomain(p, c)
<1>1. poll \in [Deployments -> PollRecords] /\ log \in [Deployments -> Seq(Events)]
  BY DEF IInv, TypeOK
<1>2. poll[p] = NotDeployed /\ Len(log[p]) = 0 /\ log[p] = <<>>
  <2>1. poll[p] = NotDeployed
    BY DEF IInv, StorageInv, Deployed, Constructor
  <2>2. Len(log[p]) = 0
    BY <2>1 DEF IInv, StorageInv, NotDeployed
  <2>. QED
    BY <1>1, <2>1, <2>2, EmptySeq
<1>3. poll'[p] = [NotDeployed EXCEPT !.phase = "Open", !.config = c,
                                     !.accumulator = Seed(d)]
  BY <1>1, <1>2 DEF Constructor
<1>4. Seed(d) \in Accumulators
  BY DEF Seed, Accumulators, Domains
<1>5. poll'[p] \in PollRecords
  BY <1>3, <1>4, NotDeployedType DEF PollRecords, Phases
<1>6. TypeOK'
  BY <1>1, <1>5 DEF IInv, TypeOK, Constructor
<1>7. ASSUME NEW q \in Deployments PROVE LogInv(q)' /\ StorageInv(q)'
  <2>1. CASE q # p
    BY <1>1, <2>1, Untouched DEF IInv, Constructor
  <2>2. CASE q = p
    <3>1. log'[p] = <<>>
      BY <1>2 DEF Constructor
    <3>2. LogInv(p)'
      BY <3>1 DEF LogInv
    <3>3. AccumulatorFromLog(p)' = Seed(d)
      BY <1>3, <3>1 DEF AccumulatorFromLog, LeavesOf, Seed, NotDeployed
    <3>4. c.deadline # 0
      BY PollAssumption DEF Constructor, IInv, TypeOK
    <3>5. StorageInv(p)'
      BY <1>3, <3>1, <3>3, <3>4, PollAssumption DEF StorageInv, Deployed, Full, NotDeployed
    <3>. QED
      BY <2>2, <3>2, <3>5
  <2>. QED
    BY <2>1, <2>2
<1>. QED
  BY <1>6, <1>7 DEF IInv

LEMMA AbandonIInv ==
  ASSUME IInv, NEW p \in Deployments, Abandon(p)
  PROVE  IInv'
<1>1. poll \in [Deployments -> PollRecords] /\ log \in [Deployments -> Seq(Events)]
  BY DEF IInv, TypeOK
<1>2. poll'[p] = [poll[p] EXCEPT !.phase = "Abandoned"] /\ log' = log
  BY <1>1 DEF Abandon
<1>3. poll'[p] \in PollRecords
  BY <1>1, <1>2 DEF PollRecords, Phases
<1>4. TypeOK'
  BY <1>1, <1>3 DEF IInv, TypeOK, Abandon
<1>5. ASSUME NEW q \in Deployments PROVE LogInv(q)' /\ StorageInv(q)'
  <2>1. CASE q # p
    BY <1>1, <1>2, <2>1, Untouched DEF IInv, Abandon
  <2>2. CASE q = p
    <3>1. LogInv(p)'
      BY <1>2 DEF IInv, LogInv
    <3>2. poll[p] \in PollRecords
      BY <1>1
    <3>3. AccumulatorFromLog(p)' = AccumulatorFromLog(p)
      BY <1>2, <3>2 DEF AccumulatorFromLog, PollRecords
    <3>4. /\ Deployed(p) /\ Deployed(p)'
          /\ ~Full(p) /\ ~Full(p)'
      BY <1>2, <3>2 DEF Deployed, Full, Abandon, PollRecords
    <3>5. StorageInv(p)
      BY DEF IInv
    <3>6. StorageInv(p)'
      BY <1>2, <3>2, <3>3, <3>4, <3>5 DEF StorageInv, PollRecords
    <3>. QED
      BY <2>2, <3>1, <3>6
  <2>. QED
    BY <2>1, <2>2
<1>. QED
  BY <1>4, <1>5 DEF IInv

LEMMA ClaimIInv ==
  ASSUME IInv, NEW p \in Deployments, NEW a, NEW h,
         NEW t \in Transcripts \cup {ZeroHash}, NEW b \in 0..2,
         PublishOutcomeClaim(p, a, h, t, b)
  PROVE  IInv'
<1>1. poll \in [Deployments -> PollRecords] /\ log \in [Deployments -> Seq(Events)]
  BY DEF IInv, TypeOK
<1>2. /\ poll'[p] = [poll[p] EXCEPT !.backendTranscriptHash = t, !.outcomeBit = b,
                                    !.phase = "Claimed"]
      /\ log' = log
  BY <1>1 DEF PublishOutcomeClaim
<1>3. poll'[p] \in PollRecords
  BY <1>1, <1>2, SMTT(30) DEF PollRecords, Phases, PublishOutcomeClaim
<1>4. TypeOK'
  BY <1>1, <1>3 DEF IInv, TypeOK, PublishOutcomeClaim
<1>5. ASSUME NEW q \in Deployments PROVE LogInv(q)' /\ StorageInv(q)'
  <2>1. CASE q # p
    BY <1>1, <1>2, <2>1, Untouched DEF IInv, PublishOutcomeClaim
  <2>2. CASE q = p
    <3>1. LogInv(p)'
      BY <1>2 DEF IInv, LogInv
    <3>2. poll[p] \in PollRecords
      BY <1>1
    <3>3. AccumulatorFromLog(p)' = AccumulatorFromLog(p)
      BY <1>2, <3>2 DEF AccumulatorFromLog, PollRecords
    <3>4. /\ Deployed(p) /\ Deployed(p)'
          /\ Full(p) /\ Full(p)'
      <4>1. poll[p].phase = "Sealed"
        BY DEF PublishOutcomeClaim
      <4>2. poll'[p].phase = "Claimed"
        BY <1>2, <3>2 DEF PollRecords
      <4>. QED
        BY <4>1, <4>2 DEF Deployed, Full
    <3>5. StorageInv(p)
      BY DEF IInv
    <3>6. StorageInv(p)'
      BY <1>2, <3>2, <3>3, <3>4, <3>5 DEF StorageInv, PollRecords
    <3>. QED
      BY <2>2, <3>1, <3>6
  <2>. QED
    BY <2>1, <2>2
<1>. QED
  BY <1>4, <1>5 DEF IInv

LEMMA SubmitIInv ==
  ASSUME IInv, NEW p \in Deployments, NEW s \in Signals, SubmitBallot(p, s)
  PROVE  IInv'
<1>. DEFINE n == Len(log[p])
            d == PollDomain(p, poll[p].config)
            e == BallotAccepted(p, s)
            acc == Node(poll[p].accumulator, Leaf(d, n, s))
<1>1. poll \in [Deployments -> PollRecords] /\ log \in [Deployments -> Seq(Events)]
  BY DEF IInv, TypeOK
<1>2. poll[p] \in PollRecords /\ log[p] \in Seq(Events) /\ n \in Nat
  BY <1>1
<1>3. StorageInv(p) /\ LogInv(p)
  BY DEF IInv
<1>4. /\ poll[p].phase = "Open" /\ n < N /\ poll[p].acceptedBallotCount = n
      /\ s.nullifier \notin poll[p].usedNullifiers
      /\ s.nullifier \in FieldElements
      /\ s.ciphertext \in FieldElements \ {IdentityWord}
      /\ \E v \in Voters : NullifierOf[v] = s.nullifier
  <2>1. /\ s.nullifier \in Int /\ s.nullifier >= 0
        /\ s.ciphertext \in Int /\ s.ciphertext >= 0
    BY PollAssumption DEF Signals, Words
  <2>2. s.nullifier \in FieldElements /\ s.ciphertext \in FieldElements
    BY <2>1, PollAssumption
    DEF SubmitBallot, Acceptable, VerifyProof, CheckField, FieldElements
  <2>3. s.nullifier % FieldOrder = s.nullifier
    BY <2>2, Residue
  <2>4. poll[p].acceptedBallotCount = n
    BY <1>3 DEF StorageInv
  <2>. QED
    BY <2>2, <2>3, <2>4 DEF SubmitBallot, Acceptable, VerifyProof, Relation
<1>5. /\ e = [ballotIndex |-> n, nullifier |-> s.nullifier, ciphertext |-> s.ciphertext]
      /\ e \in Events
  BY <1>2, <1>4 DEF BallotAccepted, Events, Signals
<1>6. log' = [log EXCEPT ![p] = Append(log[p], e)] /\ log'[p] = Append(log[p], e)
  BY <1>1 DEF SubmitBallot
<1>7. /\ log'[p] \in Seq(Events) /\ Len(log'[p]) = n + 1
      /\ \A i \in 1..n : log'[p][i] = log[p][i]
      /\ log'[p][n + 1] = e
      /\ DOMAIN log'[p] = 1..(n + 1) /\ DOMAIN log[p] = 1..n
  BY <1>2, <1>5, <1>6
<1>8. poll[p].config \in Configs /\ d \in Domains /\ Deployed(p)
  BY <1>3, <1>4 DEF StorageInv, Deployed, Domains
<1>9. /\ acc = [domain |-> d, leaves |-> LeavesOf(d, log'[p])]
      /\ acc \in Accumulators
  <2>1. poll[p].accumulator = [domain |-> d, leaves |-> LeavesOf(d, log[p])]
    BY <1>3, <1>8 DEF StorageInv, AccumulatorFromLog
  <2>2. acc = [domain |-> d, leaves |-> Append(LeavesOf(d, log[p]), Leaf(d, n, s))]
    BY <2>1 DEF Node
  <2>3. Leaf(d, n, s) = Leaf(d, e.ballotIndex, e)
    BY <1>5 DEF Leaf
  <2>4. LeavesOf(d, log'[p]) = Append(LeavesOf(d, log[p]), Leaf(d, n, s))
    BY <1>2, <1>5, <1>6, <2>3, LeavesAppend
  <2>5. LeavesOf(d, log'[p]) \in Seq(Leaves)
    BY <1>7, <1>8, LeavesType
  <2>. QED
    BY <1>8, <2>2, <2>4, <2>5 DEF Accumulators
<1>10. /\ poll' = [poll EXCEPT ![p] = WithBallot(p, s)]
       /\ poll'[p] = WithBallot(p, s)
  BY <1>1 DEF SubmitBallot
<1>11. LogInv(p)'
  <2>1. \A i \in 1..(n + 1) : i \in 1..n \/ i = n + 1
    BY <1>2
  <2>2. \A i \in 1..n : log[p][i].nullifier # s.nullifier
    BY <1>3, <1>4, <1>7 DEF StorageInv
  <2>3. ASSUME NEW i \in DOMAIN log'[p]
        PROVE  /\ log'[p][i].ballotIndex = i - 1
               /\ log'[p][i].nullifier \in FieldElements
               /\ log'[p][i].ciphertext \in FieldElements \ {IdentityWord}
               /\ \E v \in Voters : NullifierOf[v] = log'[p][i].nullifier
    <3>1. CASE i \in 1..n
      BY <1>3, <1>7, <3>1 DEF LogInv
    <3>2. CASE i = n + 1
      BY <1>2, <1>4, <1>5, <1>7, <3>2
    <3>. QED
      BY <1>7, <2>1, <3>1, <3>2
  <2>4. ASSUME NEW i \in DOMAIN log'[p], NEW j \in DOMAIN log'[p],
               log'[p][i].nullifier = log'[p][j].nullifier
        PROVE  i = j
    <3>1. CASE i \in 1..n /\ j \in 1..n
      BY <1>3, <1>7, <2>4, <3>1 DEF LogInv
    <3>2. CASE i = n + 1 /\ j \in 1..n
      BY <1>5, <1>7, <2>2, <2>4, <3>2
    <3>3. CASE i \in 1..n /\ j = n + 1
      BY <1>5, <1>7, <2>2, <2>4, <3>3
    <3>. QED
      BY <1>7, <2>1, <3>1, <3>2, <3>3
  <2>. QED
    BY <2>3, <2>4 DEF LogInv
<1>12. {log'[p][i].nullifier : i \in DOMAIN log'[p]} =
         {log[p][i].nullifier : i \in DOMAIN log[p]} \cup {s.nullifier}
  <2>1. \A i \in 1..(n + 1) : i \in 1..n \/ i = n + 1
    BY <1>2
  <2>2. \A i \in 1..n : log'[p][i].nullifier = log[p][i].nullifier
    BY <1>7
  <2>3. log'[p][n + 1].nullifier = s.nullifier /\ n + 1 \in 1..(n + 1)
    BY <1>2, <1>5, <1>7
  <2>4. 1..n \subseteq 1..(n + 1)
    BY <1>2
  <2>. QED
    BY <1>7, <2>1, <2>2, <2>3, <2>4
<1>. DEFINE used == poll[p].usedNullifiers \cup {s.nullifier}
            next == [poll[p] EXCEPT !.usedNullifiers = used, !.accumulator = acc,
                                    !.acceptedBallotCount = n + 1]
<1>13. WithBallot(p, s) =
         IF n + 1 = N
         THEN [next EXCEPT !.ballotSetCommitment = Final(acc), !.phase = "Sealed"]
         ELSE next
  BY <1>2, <1>4 DEF WithBallot, PollRecords
<1>14. used \in SUBSET Words /\ n + 1 \in 0..N /\ Final(acc) \in Commitments
  BY <1>2, <1>4, <1>9, PollAssumption
  DEF PollRecords, Signals, Final, Commitments
<1>. HIDE DEF acc, used, d, e
<1>15. /\ poll'[p] \in PollRecords
       /\ poll'[p].config = poll[p].config
       /\ poll'[p].acceptedBallotCount = n + 1
       /\ poll'[p].usedNullifiers = used
       /\ poll'[p].accumulator = acc
       /\ n + 1 = N => poll'[p].phase = "Sealed" /\ poll'[p].ballotSetCommitment = Final(acc)
       /\ n + 1 # N => /\ poll'[p].phase = "Open"
                       /\ poll'[p].ballotSetCommitment = poll[p].ballotSetCommitment
  <2>1. /\ next \in PollRecords
        /\ next.config = poll[p].config
        /\ next.acceptedBallotCount = n + 1
        /\ next.usedNullifiers = used
        /\ next.accumulator = acc
        /\ next.phase = "Open"
        /\ next.ballotSetCommitment = poll[p].ballotSetCommitment
    BY <1>2, <1>4, <1>9, <1>14 DEF PollRecords
  <2>. HIDE DEF next
  <2>2. CASE n + 1 = N
    <3>1. poll'[p] = [next EXCEPT !.ballotSetCommitment = Final(acc), !.phase = "Sealed"]
      BY <1>10, <1>13, <2>2
    <3>. QED
      BY <1>14, <2>1, <2>2, <3>1 DEF PollRecords, Phases
  <2>3. CASE n + 1 # N
    BY <1>10, <1>13, <2>1, <2>3
  <2>. QED
    BY <2>2, <2>3
<1>16. TypeOK'
  BY <1>1, <1>6, <1>7, <1>10, <1>15 DEF IInv, TypeOK, SubmitBallot
<1>17. StorageInv(p)'
  <2>1. AccumulatorFromLog(p)' = acc
    BY <1>9, <1>15 DEF AccumulatorFromLog, d
  <2>2. Deployed(p)' /\ (Full(p)' <=> n + 1 = N)
    BY <1>15 DEF Deployed, Full
  <2>3. poll[p].ballotSetCommitment = ZeroHash
    BY <1>3, <1>4, <1>8 DEF StorageInv, Full
  <2>4. used = {log'[p][i].nullifier : i \in DOMAIN log'[p]}
    BY <1>3, <1>12 DEF StorageInv, used
  <2>5. poll[p].config.deadline # 0
    BY <1>3, <1>8 DEF StorageInv
  <2>. QED
    BY <1>7, <1>8, <1>15, <2>1, <2>2, <2>3, <2>4, <2>5 DEF StorageInv
<1>18. ASSUME NEW q \in Deployments PROVE LogInv(q)' /\ StorageInv(q)'
  <2>1. CASE q # p
    BY <1>1, <1>6, <1>10, <2>1, Untouched DEF IInv
  <2>2. CASE q = p
    BY <1>11, <1>17, <2>2
  <2>. QED
    BY <2>1, <2>2
<1>. QED
  BY <1>16, <1>18 DEF IInv

LEMMA NextIInv == IInv /\ [Next]_vars => IInv'
<1> SUFFICES ASSUME IInv, [Next]_vars PROVE IInv'
  OBVIOUS
<1>1. CASE UNCHANGED vars
  <2>1. clock' = clock /\ poll' = poll /\ log' = log
    BY <1>1 DEF vars
  <2>2. TypeOK'
    BY <2>1 DEF IInv, TypeOK
  <2>3. ASSUME NEW p \in Deployments PROVE LogInv(p)' /\ StorageInv(p)'
    BY <2>1, Untouched DEF IInv
  <2>. QED
    BY <2>2, <2>3 DEF IInv
<1>2. CASE Tick
  BY <1>2, TickIInv
<1>3. ASSUME NEW p \in Deployments, NEW c \in Configs, Constructor(p, c) PROVE IInv'
  BY <1>3, ConstructorIInv
<1>4. ASSUME NEW p \in Deployments, NEW s \in Signals, SubmitBallot(p, s) PROVE IInv'
  BY <1>4, SubmitIInv
<1>5. ASSUME NEW p \in Deployments, Abandon(p) PROVE IInv'
  BY <1>5, AbandonIInv
<1>6. ASSUME NEW p \in Deployments, NEW a \in Accounts, NEW h \in VisibleCommitments,
             NEW t \in Transcripts \cup {ZeroHash}, NEW b \in 0..2,
             PublishOutcomeClaim(p, a, h, t, b)
      PROVE  IInv'
  BY <1>6, ClaimIInv
<1>. QED
  BY <1>1, <1>2, <1>3, <1>4, <1>5, <1>6 DEF Next

-----------------------------------------------------------------------------
\* IInv is an inductive invariant of the poll.
THEOREM Inductive == Spec => []IInv
<1>1. Init => IInv
  BY InitIInv
<1>2. IInv /\ [Next]_vars => IInv'
  BY NextIInv
<1>. QED
  BY <1>1, <1>2, PTL DEF Spec

\* Storage and logs keep their types.
THEOREM TypeCorrect == Spec => []TypeOK
<1>1. IInv => TypeOK
  BY DEF IInv
<1>. QED
  BY <1>1, Inductive, PTL

\* No voter has two ballots in one poll, whatever words callers write their
\* nullifiers in.
THEOREM OneVote == Spec => []OneBallotPerVoter
<1>1. IInv => OneBallotPerVoter
  <2> SUFFICES ASSUME IInv, NEW p \in Deployments,
                      NEW i \in DOMAIN log[p], NEW j \in DOMAIN log[p],
                      log[p][i].nullifier % FieldOrder = log[p][j].nullifier % FieldOrder
               PROVE  i = j
    BY DEF OneBallotPerVoter
  <2>1. LogInv(p)
    BY DEF IInv
  <2>2. log[p][i].nullifier = log[p][j].nullifier
    BY <2>1, Residue DEF LogInv
  <2>. QED
    BY <2>1, <2>2 DEF LogInv
<1>. QED
  BY <1>1, Inductive, PTL

\* No accepted ballot is encrypted with zero randomness.
THEOREM Hidden == Spec => []BallotsAreHidden
<1>1. IInv => BallotsAreHidden
  <2> SUFFICES ASSUME IInv, NEW p \in Deployments, NEW i \in DOMAIN log[p]
               PROVE  log[p][i].ciphertext % FieldOrder # IdentityWord
    BY DEF BallotsAreHidden
  <2>1. log[p][i].ciphertext \in FieldElements \ {IdentityWord}
    BY DEF IInv, LogInv
  <2>. QED
    BY <2>1, Residue
<1>. QED
  BY <1>1, Inductive, PTL

\* The accumulator and the commitment are functions of the events.
THEOREM Recomputable == Spec => []CommitmentFromLog
<1>1. IInv => CommitmentFromLog
  BY DEF IInv, LogInv, StorageInv, CommitmentFromLog, Full
<1>. QED
  BY <1>1, Inductive, PTL

\* Two deployments never have the same commitment.
THEOREM Distinct == Spec => []CommitmentsAreDistinct
<1>1. IInv => CommitmentsAreDistinct
  <2> SUFFICES ASSUME IInv, NEW p \in Deployments, NEW q \in Deployments, p # q,
                      poll[p].ballotSetCommitment = poll[q].ballotSetCommitment
               PROVE  poll[p].ballotSetCommitment = ZeroHash
    BY DEF CommitmentsAreDistinct
  <2>1. \A r \in Deployments :
          \/ poll[r].ballotSetCommitment = ZeroHash
          \/ poll[r].ballotSetCommitment = Final(AccumulatorFromLog(r))
    BY DEF IInv, StorageInv, NotDeployed
  <2>2. Final(AccumulatorFromLog(p)) # Final(AccumulatorFromLog(q))
    <3>1. \A r \in Deployments :
            Final(AccumulatorFromLog(r)).accumulator.domain.address = r
      BY DEF Final, AccumulatorFromLog, PollDomain
    <3>. QED
      BY <3>1
  <2>. QED
    BY <2>1, <2>2
<1>. QED
  BY <1>1, Inductive, PTL

\* Every sealed poll's snapshot passes the off-chain admission unchanged.
THEOREM Admission == Spec => []SealedPollIsAdmitted
<1>1. IInv => SealedPollIsAdmitted
  <2> SUFFICES ASSUME IInv, NEW p \in Deployments, Full(p)
               PROVE  LET board == ChainSnapshot(p)
                          leaves == board.ballotSetCommitment.accumulator.leaves
                      IN /\ Admissible(board, poll[p].config.setupHash)
                         /\ BackendInputs(board) =
                              [i \in DOMAIN leaves |-> leaves[i].ciphertext]
                         /\ Len(BackendInputs(board)) = N
    BY DEF SealedPollIsAdmitted, Full
  <2>. DEFINE board == ChainSnapshot(p)
  <2>1. LogInv(p) /\ StorageInv(p) /\ log[p] \in Seq(Events)
    BY DEF IInv, TypeOK
  <2>2. /\ Len(log[p]) = N
        /\ poll[p].ballotSetCommitment = Final(AccumulatorFromLog(p))
    BY <2>1 DEF StorageInv, Deployed, Full
  <2>3. /\ DOMAIN board.ballots = 1..N
        /\ DOMAIN log[p] = 1..N
        /\ \A i \in 1..N : /\ board.ballots[i].position = log[p][i].ballotIndex
                          /\ board.ballots[i].nullifier = log[p][i].nullifier
                          /\ board.ballots[i].ciphertext = log[p][i].ciphertext
    BY <2>1, <2>2 DEF ChainSnapshot
  <2>. HIDE DEF board
  <2>4. ValidSealedBoard(board)
    <3>1. board.ballots # <<>>
      BY <2>3, PollAssumption
    <3>2. ASSUME NEW i \in DOMAIN board.ballots
          PROVE  /\ board.ballots[i].position = i - 1
                 /\ CanonicalField(board.ballots[i].nullifier)
                 /\ CanonicalField(board.ballots[i].ciphertext)
      <4>1. i \in 1..N /\ i \in DOMAIN log[p]
        BY <2>3
      <4>2. \A w \in FieldElements : CanonicalField(w)
        BY PollAssumption DEF CanonicalField, FieldElements
      <4>. QED
        BY <2>1, <2>3, <4>1, <4>2 DEF LogInv
    <3>3. ASSUME NEW i \in DOMAIN board.ballots, NEW j \in DOMAIN board.ballots,
                 board.ballots[i].nullifier = board.ballots[j].nullifier
          PROVE  i = j
      BY <2>1, <2>3, <3>3 DEF LogInv
    <3>. QED
      BY <3>1, <3>2, <3>3 DEF ValidSealedBoard
  <2>5. Admissible(board, poll[p].config.setupHash)
    <3>1. board.setupHash = poll[p].config.setupHash
      BY DEF ChainSnapshot, board
    <3>2. \A i \in DOMAIN board.ballots :
            ValidAcceptedCiphertext(board.ballots[i].ciphertext)
      BY <2>1, <2>3 DEF LogInv, ValidAcceptedCiphertext
    <3>. QED
      BY <2>4, <3>1, <3>2 DEF Admissible
  <2>6. board.ballotSetCommitment.accumulator.leaves =
          LeavesOf(PollDomain(p, poll[p].config), log[p])
    BY <2>2 DEF board, ChainSnapshot, Final, AccumulatorFromLog
  <2>7. BackendInputs(board) =
          [i \in DOMAIN log[p] |-> log[p][i].ciphertext]
    BY <2>3 DEF BackendInputs
  <2>8. LET leaves == LeavesOf(PollDomain(p, poll[p].config), log[p])
        IN  [i \in DOMAIN leaves |-> leaves[i].ciphertext] =
              [i \in DOMAIN log[p] |-> log[p][i].ciphertext]
    BY DEF LeavesOf, Leaf
  <2>9. Len(BackendInputs(board)) = N
    BY <2>3, <2>7, PollAssumption
  <2>. QED
    BY <2>5, <2>6, <2>7, <2>8, <2>9 DEF board
<1>. QED
  BY <1>1, Inductive, PTL

-----------------------------------------------------------------------------
(* The local profile                                                       *)

\* The proofs of accepted ballots would all be accepted locally.
LEMMA AcceptedProofsVerify ==
  ASSUME IInv, NEW p \in Deployments, NEW i \in DOMAIN log[p]
  PROVE  /\ ProofsOf(p)[i].index = i - 1
         /\ VerifyProof(ProofsOf(p)[i].signals)
         /\ ProofsOf(p)[i].signals.context
         /\ ValidAcceptedCiphertext(ProofsOf(p)[i].signals.ciphertext)
         /\ ProofsOf(p)[i].signals.nullifier = log[p][i].nullifier
<1>. DEFINE e == log[p][i]
<1>1. /\ e.nullifier \in FieldElements
      /\ e.ciphertext \in FieldElements \ {IdentityWord}
  BY DEF IInv, LogInv
<1>2. PICK v \in Voters : NullifierOf[v] = e.nullifier
  BY DEF IInv, LogInv
<1>3. e.nullifier % FieldOrder = e.nullifier
  BY <1>1, Residue
<1>4. ProofsOf(p)[i] =
        [index |-> i - 1,
         signals |-> [nullifier |-> e.nullifier, ciphertext |-> e.ciphertext,
                      context |-> TRUE, proven |-> TRUE]]
  BY DEF ProofsOf
<1>5. e.nullifier < FieldOrder /\ e.ciphertext < FieldOrder
  BY <1>1, PollAssumption DEF FieldElements
<1>. HIDE DEF e
<1>6. VerifyProof(ProofsOf(p)[i].signals)
  BY <1>2, <1>3, <1>4, <1>5 DEF VerifyProof, CheckField, Relation
<1>. QED
  BY <1>1, <1>4, <1>6 DEF ValidAcceptedCiphertext, e

\* A local run takes the accepted ballots and one more exactly if the contract
\* would take that one, and computes with the same ciphertexts.
THEOREM LocalProfile == Spec => []LocalAdmissionAgrees
<1>1. IInv => LocalAdmissionAgrees
  <2>. SUFFICES ASSUME IInv, NEW p \in Deployments
                PROVE  /\ (poll[p].phase = "Open" /\ BeforeDeadline(p)) =>
                            \A s \in Signals :
                              Acceptable(p, s) <=>
                                AdmittedLocally(WithProof(p, s), Len(log[p]) + 1)
                       /\ poll[p].phase \in {"Sealed", "Claimed"} =>
                            BackendInputs(LocalBoard(ProofsOf(p)))
                              = BackendInputs(ChainSnapshot(p))
    BY DEF LocalAdmissionAgrees
  <2>1. log[p] \in Seq(Events) /\ LogInv(p) /\ StorageInv(p)
    BY DEF IInv, TypeOK
  <2>. DEFINE n == Len(log[p])
  <2>2. n \in Nat /\ DOMAIN log[p] = 1..n
    BY <2>1
  <2>3. ASSUME poll[p].phase = "Open", BeforeDeadline(p), NEW s \in Signals
        PROVE  Acceptable(p, s) <=> AdmittedLocally(WithProof(p, s), n + 1)
    <3>. DEFINE last == [index |-> n, signals |-> s]
                all == WithProof(p, s)
    <3>1. poll[p].acceptedBallotCount < N
      <4>1. poll[p].acceptedBallotCount = n /\ n # N
        BY <2>3, <2>1 DEF StorageInv, Deployed, Full
      <4>2. poll[p].acceptedBallotCount \in 0..N
        BY DEF IInv, TypeOK, PollRecords
      <4>. QED
        BY <4>1, <4>2, PollAssumption
    <3>2. ProofsOf(p) \in Seq({ProofsOf(p)[i] : i \in 1..n}) /\ Len(ProofsOf(p)) = n
      <4>1. ProofsOf(p) \in [1..n -> {ProofsOf(p)[i] : i \in 1..n}]
        BY <2>2 DEF ProofsOf
      <4>. QED
        BY <4>1, <2>2, SeqDef
    <3>3. /\ Len(all) = n + 1 /\ DOMAIN all = 1..(n + 1)
          /\ \A i \in 1..n : all[i] = ProofsOf(p)[i]
          /\ all[n + 1] = last
      BY <3>2, <2>2 DEF WithProof
    <3>. HIDE DEF all, n
    <3>4. \A i \in 1..n : /\ all[i].index = i - 1
                          /\ VerifyProof(all[i].signals)
                          /\ all[i].signals.context
                          /\ ValidAcceptedCiphertext(all[i].signals.ciphertext)
                          /\ all[i].signals.nullifier = log[p][i].nullifier
      BY <3>3, <2>2, AcceptedProofsVerify
    <3>5. NullifiersDiffer(all) <=> s.nullifier \notin poll[p].usedNullifiers
      <4>1. poll[p].usedNullifiers = {log[p][i].nullifier : i \in 1..n}
        BY <2>1, <2>2 DEF StorageInv
      <4>2. \A i, j \in 1..n : log[p][i].nullifier = log[p][j].nullifier => i = j
        BY <2>1, <2>2 DEF LogInv
      <4>3. all[n + 1].signals.nullifier = s.nullifier
        BY <3>3
      <4>4. 1..(n + 1) = (1..n) \cup {n + 1} /\ n + 1 \notin 1..n
        BY <2>2
      <4>5. ASSUME s.nullifier \notin poll[p].usedNullifiers,
                   NEW i \in 1..(n + 1), NEW j \in 1..(n + 1),
                   all[i].signals.nullifier = all[j].signals.nullifier
            PROVE  i = j
        BY <4>1, <4>2, <4>3, <4>4, <4>5, <3>4
      <4>6. ASSUME NullifiersDiffer(all), s.nullifier \in poll[p].usedNullifiers
            PROVE  FALSE
        <5>1. PICK i \in 1..n : log[p][i].nullifier = s.nullifier
          BY <4>1, <4>6
        <5>2. i \in DOMAIN all /\ n + 1 \in DOMAIN all
          BY <3>3, <4>4
        <5>3. i = n + 1
          BY <5>1, <5>2, <4>3, <4>6, <3>4 DEF NullifiersDiffer
        <5>. QED
          BY <5>3, <4>4
      <4>. QED
        BY <4>5, <4>6, <3>3 DEF NullifiersDiffer
    <3>6. AdmittedLocally(all, n + 1) <=>
            /\ VerifyProof(s)
            /\ s.context
            /\ s.ciphertext # IdentityWord
            /\ s.nullifier \notin poll[p].usedNullifiers
      <4>1. /\ all[n + 1].index = (n + 1) - 1
            /\ all[n + 1].signals = s
        BY <3>3, <2>2
      <4>2. \A i \in 1..(n + 1) : i \in 1..n \/ i = n + 1
        BY <2>2
      <4>3. n + 1 \in DOMAIN all
        BY <3>3, <2>2
      <4>4. (/\ VerifyProof(s) /\ s.context /\ ValidAcceptedCiphertext(s.ciphertext)) <=>
              \A i \in DOMAIN all :
                /\ all[i].index = i - 1
                /\ VerifyProof(all[i].signals)
                /\ all[i].signals.context
                /\ ValidAcceptedCiphertext(all[i].signals.ciphertext)
        BY <4>1, <4>2, <4>3, <3>3, <3>4
      <4>. QED
        BY <4>4, <3>3, <3>5 DEF AdmittedLocally, ValidAcceptedCiphertext
    <3>7. Acceptable(p, s) <=>
            /\ VerifyProof(s)
            /\ s.context
            /\ s.ciphertext # IdentityWord
            /\ s.nullifier \notin poll[p].usedNullifiers
      BY <2>3, <3>1 DEF Acceptable
    <3>. QED
      BY <3>6, <3>7 DEF all
  <2>4. BackendInputs(LocalBoard(ProofsOf(p))) = BackendInputs(ChainSnapshot(p))
    BY DEF BackendInputs, LocalBoard, ProofsOf, ChainSnapshot
  <2>. QED
    BY <2>3, <2>4
<1>. QED
  BY <1>1, Inductive, PTL

\* One step never undoes a decision.
LEMMA StepStands ==
  ASSUME IInv, [Next]_vars, NEW p \in Deployments
  PROVE  /\ (Deployed(p) /\ ~(poll[p].phase = "Open" /\ BeforeDeadline(p))) =>
               /\ log'[p] = log[p]
               /\ poll'[p].ballotSetCommitment = poll[p].ballotSetCommitment
         /\ poll[p].phase \in TerminalPhases => poll'[p] = poll[p]
         /\ (poll[p].phase = "Open" /\ BeforeDeadline(p)) =>
               poll'[p].phase \in {"Open", "Sealed"}
<1>. DEFINE Stands ==
       /\ (Deployed(p) /\ ~(poll[p].phase = "Open" /\ BeforeDeadline(p))) =>
            /\ log'[p] = log[p]
            /\ poll'[p].ballotSetCommitment = poll[p].ballotSetCommitment
       /\ poll[p].phase \in TerminalPhases => poll'[p] = poll[p]
       /\ (poll[p].phase = "Open" /\ BeforeDeadline(p)) =>
            poll'[p].phase \in {"Open", "Sealed"}
<1>1. poll \in [Deployments -> PollRecords] /\ log \in [Deployments -> Seq(Events)]
  BY DEF IInv, TypeOK
<1>2. ASSUME poll'[p] = poll[p], log'[p] = log[p] PROVE Stands
  BY <1>2
<1>3. ASSUME UNCHANGED vars \/ Tick PROVE Stands
  BY <1>2, <1>3 DEF vars, Tick
<1>4. ASSUME NEW q \in Deployments, NEW c \in Configs, Constructor(q, c) PROVE Stands
  <2>1. CASE q # p
    BY <1>1, <1>2, <1>4, <2>1 DEF Constructor
  <2>2. CASE q = p
    BY <1>4, <2>2 DEF Constructor, Deployed, TerminalPhases
  <2>. QED
    BY <2>1, <2>2
<1>5. ASSUME NEW q \in Deployments, NEW s \in Signals, SubmitBallot(q, s) PROVE Stands
  <2>1. CASE q # p
    BY <1>1, <1>2, <1>5, <2>1 DEF SubmitBallot
  <2>2. CASE q = p
    <3>1. poll[p].phase = "Open" /\ BeforeDeadline(p)
      BY <1>5, <2>2 DEF SubmitBallot, Acceptable
    <3>2. poll'[p] = WithBallot(p, s) /\ poll[p] \in PollRecords
      BY <1>1, <1>5, <2>2 DEF SubmitBallot
    <3>3. poll'[p].phase \in {"Open", "Sealed"}
      BY <3>1, <3>2 DEF WithBallot, PollRecords
    <3>. QED
      BY <3>1, <3>3 DEF TerminalPhases
  <2>. QED
    BY <2>1, <2>2
<1>6. ASSUME NEW q \in Deployments, Abandon(q) PROVE Stands
  <2>1. CASE q # p
    BY <1>1, <1>2, <1>6, <2>1 DEF Abandon
  <2>2. CASE q = p
    <3>1. poll[p].phase = "Open" /\ ~BeforeDeadline(p) /\ log' = log
      BY <1>6, <2>2 DEF Abandon
    <3>2. poll'[p].ballotSetCommitment = poll[p].ballotSetCommitment
      BY <1>1, <1>6, <2>2 DEF Abandon, PollRecords
    <3>. QED
      BY <3>1, <3>2 DEF TerminalPhases
  <2>. QED
    BY <2>1, <2>2
<1>7. ASSUME NEW q \in Deployments, NEW a \in Accounts, NEW h \in VisibleCommitments,
             NEW t \in Transcripts \cup {ZeroHash}, NEW b \in 0..2,
             PublishOutcomeClaim(q, a, h, t, b)
      PROVE  Stands
  <2>1. CASE q # p
    BY <1>1, <1>2, <1>7, <2>1 DEF PublishOutcomeClaim
  <2>2. CASE q = p
    <3>1. poll[p].phase = "Sealed" /\ log' = log
      BY <1>7, <2>2 DEF PublishOutcomeClaim
    <3>2. poll'[p].ballotSetCommitment = poll[p].ballotSetCommitment
      BY <1>1, <1>7, <2>2 DEF PublishOutcomeClaim, PollRecords
    <3>. QED
      BY <3>1, <3>2 DEF TerminalPhases
  <2>. QED
    BY <2>1, <2>2
<1>. HIDE DEF Stands
<1>8. Stands
  BY <1>3, <1>4, <1>5, <1>6, <1>7 DEF Next
<1>. QED
  BY <1>8 DEF Stands

\* Ballots freeze at the deadline and at sealing, a poll is not abandoned early,
\* and a claimed or abandoned poll stays as it is.
THEOREM Stand == Spec => DecisionsStand
<1>1. IInv /\ [Next]_vars =>
        [\A p \in Deployments :
           /\ (Deployed(p) /\ ~(poll[p].phase = "Open" /\ BeforeDeadline(p))) =>
                /\ log'[p] = log[p]
                /\ poll'[p].ballotSetCommitment = poll[p].ballotSetCommitment
           /\ poll[p].phase \in TerminalPhases => poll'[p] = poll[p]
           /\ (poll[p].phase = "Open" /\ BeforeDeadline(p)) =>
                poll'[p].phase \in {"Open", "Sealed"}]_vars
  BY StepStands
<1>. QED
  BY <1>1, Inductive, PTL DEF Spec, DecisionsStand

-----------------------------------------------------------------------------
(* The poll implements the ballot boxes                                    *)

LEMMA BVars ==
  UNCHANGED B!bvars <=> UNCHANGED <<clock, Closings, CastBallots, Expired, Declarations>>
BY DEF B!bvars

LEMMA InitRefines == Init => B!BInit
<1> SUFFICES ASSUME Init PROVE B!BInit
  OBVIOUS
<1>1. \A p \in Deployments : CastOf(log[p]) = <<>>
  BY DEF Init, CastOf
<1>2. Closings = [p \in Deployments |-> 0]
  BY DEF Init, Closings, NotDeployed, NoConfig
<1>3. Expired = {} /\ Declarations = [p \in Deployments |-> {}]
  BY DEF Init, Expired, Declarations, DeclarationOf, NotDeployed
<1>4. CastBallots = [p \in Deployments |-> <<>>]
  BY <1>1 DEF CastBallots
<1>. QED
  BY <1>2, <1>3, <1>4 DEF Init, B!BInit

LEMMA ConstructorRefines ==
  ASSUME IInv, NEW p \in Deployments, NEW c \in Configs, Constructor(p, c)
  PROVE  B!Open(p)
<1>1. poll \in [Deployments -> PollRecords] /\ log \in [Deployments -> Seq(Events)]
  BY DEF IInv, TypeOK
<1>2. poll[p] = NotDeployed
  BY DEF IInv, StorageInv, Deployed, Constructor
<1>3. /\ poll'[p].config = c /\ poll'[p].phase = "Open"
      /\ \A q \in Deployments : q # p => poll'[q] = poll[q]
      /\ log' = log /\ clock' = clock
  BY <1>1, <1>2 DEF Constructor, NotDeployed
<1>4. Closings[p] = 0 /\ Closings'[p] = c.deadline /\ c.deadline > clock
  BY <1>2, <1>3 DEF Closings, NotDeployed, NoConfig, Constructor
<1>5. Closings' = [Closings EXCEPT ![p] = Closings'[p]]
  BY <1>3, <1>4 DEF Closings
<1>6. CastBallots' = CastBallots
  BY <1>3 DEF CastBallots, CastOf, CasterOf
<1>7. Expired' = Expired
  BY <1>2, <1>3 DEF Expired, NotDeployed
<1>8. Declarations' = Declarations
  <2>1. \A q \in Deployments : DeclarationOf(q)' = DeclarationOf(q)
    <3>1. DeclarationOf(p) = {} /\ DeclarationOf(p)' = {}
      BY <1>2, <1>3 DEF DeclarationOf, NotDeployed
    <3>2. \A q \in Deployments : q # p => DeclarationOf(q)' = DeclarationOf(q)
      BY <1>3 DEF DeclarationOf
    <3>. QED
      BY <3>1, <3>2
  <2>. QED
    BY <2>1 DEF Declarations
<1>. QED
  BY <1>3, <1>4, <1>5, <1>6, <1>7, <1>8 DEF B!Open

\* A field element has one caster, if it has any.
LEMMA Caster ==
  ASSUME NEW w \in FieldElements, NEW v \in Voters, NullifierOf[v] = w
  PROVE  CasterOf(w) = v
<1>1. \A u \in Voters : NullifierOf[u] = w % FieldOrder <=> u = v
  BY Residue, NullifierAssumption
<1>. QED
  BY <1>1 DEF CasterOf

LEMMA SubmitRefines ==
  ASSUME IInv, NEW p \in Deployments, NEW s \in Signals, SubmitBallot(p, s)
  PROVE  \E v \in Voters, b \in FieldElements \ {IdentityWord} : B!Cast(p, v, b)
<1>. DEFINE n == Len(log[p])
            e == BallotAccepted(p, s)
<1>1. poll \in [Deployments -> PollRecords] /\ log \in [Deployments -> Seq(Events)]
  BY DEF IInv, TypeOK
<1>2. LogInv(p) /\ StorageInv(p) /\ LogInv(p)'
  BY SubmitIInv DEF IInv
<1>3. log' = [log EXCEPT ![p] = Append(log[p], e)] /\ clock' = clock
  BY <1>1 DEF SubmitBallot
<1>4. /\ n \in Nat /\ n < N
      /\ poll[p].phase = "Open" /\ clock < poll[p].config.deadline
      /\ poll[p].acceptedBallotCount = n
  BY <1>1, <1>2 DEF StorageInv, SubmitBallot, Acceptable, BeforeDeadline
<1>5. /\ log'[p] = Append(log[p], e)
      /\ DOMAIN log'[p] = 1..(n + 1) /\ DOMAIN log[p] = 1..n
      /\ log'[p][n + 1] = e
      /\ \A i \in 1..n : log'[p][i] = log[p][i]
  BY <1>1, <1>3, <1>4
<1>6. e.nullifier = s.nullifier /\ e.ciphertext = s.ciphertext
  BY DEF BallotAccepted
<1>7. /\ e.nullifier \in FieldElements
      /\ e.ciphertext \in FieldElements \ {IdentityWord}
      /\ \E v \in Voters : NullifierOf[v] = e.nullifier
  BY <1>2, <1>4, <1>5, SMTT(30) DEF LogInv
<1>8. PICK v \in Voters : NullifierOf[v] = e.nullifier
  BY <1>7
<1>9. CasterOf(e.nullifier) = v
  BY <1>7, <1>8, Caster
<1>10. ~B!HasVoted(p, v)
  <2> SUFFICES ASSUME NEW i \in 1..n, CasterOf(log[p][i].nullifier) = v
               PROVE  FALSE
    BY <1>5 DEF B!HasVoted, CastBallots, CastOf
  <2>1. PICK u \in Voters : NullifierOf[u] = log[p][i].nullifier
    BY <1>2, <1>5 DEF LogInv
  <2>2. log[p][i].nullifier \in FieldElements
    BY <1>2, <1>5 DEF LogInv
  <2>3. u = v
    BY <2>1, <2>2, Caster
  <2>4. log'[p][i].nullifier = log'[p][n + 1].nullifier
    BY <1>5, <1>8, <2>1, <2>3
  <2>5. i = n + 1
    BY <1>2, <1>4, <1>5, <2>4, SMTT(30) DEF LogInv
  <2>. QED
    BY <1>4, <2>5
<1>. DEFINE x == [voter |-> v, ballot |-> e.ciphertext]
            All == {[voter |-> CasterOf(y.nullifier), ballot |-> y.ciphertext] :
                      y \in Events \cup {e}}
<1>11. CastOf(log'[p]) = Append(CastOf(log[p]), x)
  <2>1. CastOf(log[p]) \in [1..n -> All]
    BY <1>1, <1>5 DEF CastOf
  <2>. HIDE DEF x, All
  <2>2. CastOf(log[p]) \in Seq(All) /\ Len(CastOf(log[p])) = n
    BY <1>4, <2>1, SeqDef
  <2>3. CastOf(log'[p]) \in [1..(n + 1) -> All]
    <3>1. \A i \in 1..(n + 1) : log'[p][i] \in Events \cup {e}
      BY <1>1, <1>4, <1>5
    <3>. QED
      BY <1>5, <3>1 DEF CastOf, All
  <2>4. CastOf(log'[p]) \in Seq(All) /\ Len(CastOf(log'[p])) = n + 1
    BY <1>4, <2>3, SeqDef
  <2>5. x \in All
    BY <1>9 DEF x, All
  <2>6. /\ Append(CastOf(log[p]), x) \in Seq(All)
        /\ Len(Append(CastOf(log[p]), x)) = n + 1
        /\ Append(CastOf(log[p]), x)[n + 1] = x
        /\ \A i \in 1..n : Append(CastOf(log[p]), x)[i] = CastOf(log[p])[i]
    BY <1>4, <2>2, <2>5
  <2>7. CastOf(log'[p])[n + 1] = x
    BY <1>4, <1>5, <1>9 DEF CastOf, x
  <2>8. \A i \in 1..n : CastOf(log'[p])[i] = CastOf(log[p])[i]
    BY <1>4, <1>5 DEF CastOf
  <2>9. \A i \in 1..(n + 1) : CastOf(log'[p])[i] = Append(CastOf(log[p]), x)[i]
    BY <1>4, <2>6, <2>7, <2>8
  <2>. QED
    BY <2>4, <2>6, <2>9, SeqEqual
<1>12. CastBallots' = [CastBallots EXCEPT ![p] = Append(@, x)]
  <2>1. \A q \in Deployments : q # p => log'[q] = log[q]
    BY <1>1, <1>3
  <2>2. CastBallots' = [q \in Deployments |-> CastOf(log'[q])]
    BY DEF CastBallots, CastOf, CasterOf
  <2>. HIDE DEF x
  <2>3. \A q \in Deployments : q # p => CastOf(log'[q]) = CastOf(log[q])
    BY <2>1
  <2>. QED
    BY <1>11, <2>2, <2>3 DEF CastBallots
<1>13. /\ poll'[p].config = poll[p].config
       /\ poll'[p].phase \in {"Open", "Sealed"}
       /\ \A q \in Deployments : q # p => poll'[q] = poll[q]
  <2>1. poll'[p] = WithBallot(p, s) /\ poll[p] \in PollRecords
    BY <1>1 DEF SubmitBallot
  <2>2. poll'[p].config = poll[p].config /\ poll'[p].phase \in {"Open", "Sealed"}
    BY <1>4, <2>1 DEF WithBallot, PollRecords
  <2>3. \A q \in Deployments : q # p => poll'[q] = poll[q]
    BY <1>1 DEF SubmitBallot
  <2>. QED
    BY <2>2, <2>3
<1>14. Closings' = Closings
  BY <1>13 DEF Closings
<1>15. Expired' = Expired
  BY <1>4, <1>13 DEF Expired
<1>16. Declarations' = Declarations
  BY <1>4, <1>13, ZenonT(30) DEF Declarations, DeclarationOf, CastOf, CasterOf
<1>17. p \notin Expired /\ clock < Closings[p]
  BY <1>4 DEF Expired, Closings
<1>18. Len(CastBallots[p]) < N
  <2>1. CastBallots[p] = CastOf(log[p]) /\ DOMAIN CastOf(log[p]) = 1..n
    BY <1>5 DEF CastBallots, CastOf
  <2>. QED
    BY <1>4, <2>1
<1>. HIDE DEF e
<1>19. B!Cast(p, v, e.ciphertext)
  BY <1>3, <1>10, <1>12, <1>14, <1>15, <1>16, <1>17, <1>18 DEF B!Cast
<1>. QED
  BY <1>7, <1>19

LEMMA AbandonRefines ==
  ASSUME IInv, NEW p \in Deployments, Abandon(p)
  PROVE  B!Expire(p)
<1>1. poll \in [Deployments -> PollRecords] /\ log \in [Deployments -> Seq(Events)]
  BY DEF IInv, TypeOK
<1>2. poll[p].phase = "Open" /\ StorageInv(p) /\ poll[p] \in PollRecords
  BY <1>1 DEF IInv, Abandon
<1>3. /\ poll'[p].config = poll[p].config /\ poll'[p].phase = "Abandoned"
      /\ \A q \in Deployments : q # p => poll'[q] = poll[q]
      /\ log' = log /\ clock' = clock
  BY <1>1, <1>2 DEF Abandon, PollRecords
<1>4. poll[p].config \in Configs /\ poll[p].config.deadline # 0
  BY <1>2 DEF StorageInv, Deployed
<1>5. Closings[p] # 0 /\ Closings[p] <= clock
  <2>1. poll[p].config.deadline \in Nat /\ clock \in Nat
    BY <1>4, PollAssumption DEF IInv, TypeOK
  <2>. QED
    BY <1>4, <2>1 DEF Closings, Abandon, BeforeDeadline
<1>6. Len(CastBallots[p]) < N
  <2>1. Len(log[p]) < N
    BY <1>2 DEF StorageInv, Abandon
  <2>2. CastBallots[p] = CastOf(log[p]) /\ DOMAIN CastOf(log[p]) = 1..Len(log[p])
    BY <1>1 DEF CastBallots, CastOf
  <2>. QED
    BY <1>1, <2>1, <2>2
<1>7. Expired' = Expired \cup {p}
  BY <1>3 DEF Expired
<1>8. Closings' = Closings /\ CastBallots' = CastBallots
  BY <1>3 DEF Closings, CastBallots, CastOf, CasterOf
<1>9. Declarations' = Declarations
  <2>1. \A q \in Deployments : DeclarationOf(q)' = DeclarationOf(q)
    <3>1. DeclarationOf(p) = {} /\ DeclarationOf(p)' = {}
      BY <1>2, <1>3 DEF DeclarationOf
    <3>2. \A q \in Deployments : q # p => DeclarationOf(q)' = DeclarationOf(q)
      BY <1>3 DEF DeclarationOf
    <3>. QED
      BY <3>1, <3>2
  <2>. QED
    BY <2>1 DEF Declarations
<1>. QED
  BY <1>3, <1>5, <1>6, <1>7, <1>8, <1>9 DEF B!Expire

\* A claim declares an outcome about exactly the ballots of its box.
LEMMA ClaimRefines ==
  ASSUME IInv, NEW p \in Deployments, NEW a \in Accounts, NEW h,
         NEW t \in Transcripts \cup {ZeroHash}, NEW b \in 0..2,
         PublishOutcomeClaim(p, a, h, t, b)
  PROVE  b \in {0, 1} /\ B!Declare(p, b)
<1>1. poll \in [Deployments -> PollRecords] /\ log \in [Deployments -> Seq(Events)]
  BY DEF IInv, TypeOK
<1>2. /\ poll[p].phase = "Sealed" /\ StorageInv(p) /\ poll[p] \in PollRecords
      /\ b \in {0, 1}
  BY <1>1 DEF IInv, PublishOutcomeClaim
<1>3. poll'[p] = [poll[p] EXCEPT !.backendTranscriptHash = t, !.outcomeBit = b,
                                 !.phase = "Claimed"]
  BY <1>1 DEF PublishOutcomeClaim
<1>4. /\ poll'[p].config = poll[p].config /\ poll'[p].phase = "Claimed"
      /\ poll'[p].outcomeBit = b
      /\ poll'[p].ballotSetCommitment = poll[p].ballotSetCommitment
      /\ \A q \in Deployments : q # p => poll'[q] = poll[q]
      /\ log' = log /\ clock' = clock
  <2>1. /\ \A q \in Deployments : q # p => poll'[q] = poll[q]
        /\ log' = log /\ clock' = clock
    BY <1>1 DEF PublishOutcomeClaim
  <2>. QED
    BY <1>2, <1>3, <2>1 DEF PollRecords
<1>5. /\ Len(log[p]) = N
      /\ poll[p].ballotSetCommitment = Final(AccumulatorFromLog(p))
  BY <1>2 DEF StorageInv, Deployed, Full
<1>6. CastBallots[p] = CastOf(log[p])
  BY DEF CastBallots
<1>7. Len(CastBallots[p]) = N
  <2>1. DOMAIN CastOf(log[p]) = 1..N
    BY <1>1, <1>5 DEF CastOf
  <2>. QED
    BY <1>6, <2>1, PollAssumption
<1>8. Declarations[p] = {}
  BY <1>2 DEF Declarations, DeclarationOf
<1>9. CastOf(poll[p].ballotSetCommitment.accumulator.leaves) = CastOf(log[p])
  <2>1. poll[p].ballotSetCommitment.accumulator.leaves =
          LeavesOf(PollDomain(p, poll[p].config), log[p])
    BY <1>5 DEF Final, AccumulatorFromLog
  <2>. QED
    BY <2>1 DEF CastOf, LeavesOf, Leaf
<1>10. Declarations' =
         [Declarations EXCEPT ![p] = {[outcome |-> b, ballots |-> CastBallots[p]]}]
  <2>1. DeclarationOf(p)' = {[outcome |-> b, ballots |-> CastBallots[p]]}
    <3>1. CastOf(poll[p].ballotSetCommitment.accumulator.leaves)' =
            CastOf(poll[p].ballotSetCommitment.accumulator.leaves)
      BY <1>4 DEF CastOf, CasterOf
    <3>2. DeclarationOf(p)' =
            {[outcome |-> poll'[p].outcomeBit,
              ballots |-> CastOf(poll[p].ballotSetCommitment.accumulator.leaves)']}
      BY <1>4 DEF DeclarationOf
    <3>. QED
      BY <1>4, <1>6, <1>9, <3>1, <3>2
  <2>2. \A q \in Deployments : q # p => DeclarationOf(q)' = DeclarationOf(q)
    BY <1>4 DEF DeclarationOf
  <2>. QED
    BY <2>1, <2>2 DEF Declarations
<1>11. Closings' = Closings /\ CastBallots' = CastBallots
  BY <1>4 DEF Closings, CastBallots, CastOf, CasterOf
<1>12. Expired' = Expired
  BY <1>2, <1>4 DEF Expired
<1>. QED
  BY <1>2, <1>4, <1>7, <1>8, <1>10, <1>11, <1>12 DEF B!Declare

LEMMA StutterRefines ==
  ASSUME poll' = poll, log' = log
  PROVE  UNCHANGED <<Closings, CastBallots, Expired, Declarations>>
BY DEF Closings, CastBallots, Expired, Declarations, DeclarationOf, CastOf, CasterOf

LEMMA NextRefines == IInv /\ [Next]_vars => [B!BNext]_(B!bvars)
<1> SUFFICES ASSUME IInv, [Next]_vars PROVE B!BNext \/ UNCHANGED B!bvars
  OBVIOUS
<1>1. CASE UNCHANGED vars
  BY <1>1, BVars, StutterRefines DEF vars
<1>2. ASSUME Tick PROVE B!BNext
  <2>1. clock' \in (clock + 1)..MaxTime
    BY <1>2, PollAssumption DEF Tick, IInv, TypeOK
  <2>2. B!TimePasses
    BY <1>2, <2>1, StutterRefines DEF Tick, B!TimePasses
  <2>. QED
    BY <2>2 DEF B!BNext
<1>3. ASSUME NEW p \in Deployments, NEW c \in Configs, Constructor(p, c) PROVE B!BNext
  BY <1>3, ConstructorRefines DEF B!BNext
<1>4. ASSUME NEW p \in Deployments, NEW s \in Signals, SubmitBallot(p, s) PROVE B!BNext
  BY <1>4, SubmitRefines DEF B!BNext
<1>5. ASSUME NEW p \in Deployments, Abandon(p) PROVE B!BNext
  BY <1>5, AbandonRefines DEF B!BNext
<1>6. ASSUME NEW p \in Deployments, NEW a \in Accounts, NEW h \in VisibleCommitments,
             NEW t \in Transcripts \cup {ZeroHash}, NEW b \in 0..2,
             PublishOutcomeClaim(p, a, h, t, b)
      PROVE  B!BNext
  BY <1>6, ClaimRefines DEF B!BNext
<1>. QED
  BY <1>1, <1>2, <1>3, <1>4, <1>5, <1>6 DEF Next

\* Every behaviour of the deployments, seen through the mapping, is a behaviour
\* of ballot boxes.
THEOREM Implementation == Spec => ImplementsBallotBox
BY InitRefines, NextRefines, Inductive, PTL DEF Spec, ImplementsBallotBox, B!BSpec
=============================================================================
