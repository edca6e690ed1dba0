-------------------------- MODULE TallyTranscript --------------------------
(* The properties of a tally, and its public replay: verify_dag_request,    *)
(* which holds the whole journal, and verify_dag_file_request, which reads  *)
(* it in batches.  A verifier walks the circuits of the request again with  *)
(* the outputs that the journal claims; every record must be a valid gate   *)
(* (verify_gate_json_with_setup) and be the gate that the walk calls next.  *)
EXTENDS TallyDag, SequenceSum, SequencesExt

CONSTANTS
  BatchSize,    \* records per batch of the streaming verifier, 256 in the code
  Replayed      \* the requests whose journals are replayed, as they are and altered

ASSUME BatchSizeAssumption == BatchSize \in Nat \ {0} /\ Replayed \subseteq Elections

-----------------------------------------------------------------------------
(* What a run may and may not do.                                           *)

TypeOK ==
  /\ election \in Elections
  /\ stage \in Stages
  /\ \A v \in 1..Len(frontier) : frontier[v] \in Seq(Field)
  /\ depth \in Nat
  /\ nextGateId \in Nat \ {0}
  /\ DOMAIN workers = 1..NodeCount \/ ~Running
  /\ \A p \in DOMAIN workers : workers[p].outs \in Seq(Field) /\ workers[p].failed \in BOOLEAN
  /\ \A i \in 1..Len(journal) :
       journal[i].x \in Field /\ journal[i].y \in Field /\ journal[i].out \in Field
  /\ result \in {<<>>} \cup { <<d>> : d \in Field }

(* Every selector that a gate is called with is a bit: halves and borrows   *)
(* computed modulo the subgroup order never leave {0,1}, so no gate fails   *)
(* at its opening for want of a sign.                                       *)
SelectorsAreBits ==
  Running => \A p \in 1..NodeCount :
    ~Done(p) => Circuit(p).calls[Len(workers[p].outs) + 1].y \in Bits

(* Through every level of the tree the vectors, those finished by a worker  *)
(* and those still waiting, sum to the weights of the ballots.              *)
Weights(vectors) == [v \in 1..Len(vectors) |-> ValueOf(vectors[v])]
TotalWeight == SumSeq(Weights(election.inputs))

AggregateConserved ==
  Running =>
    TotalWeight =
      IF stage = "compare" THEN ValueOf(frontier[1])
      ELSE SumSeq([p \in 1..NodeCount |->
             IF Done(p) THEN ValueOf(Circuit(p).output)
             ELSE ValueOf(frontier[2 * p - 1]) + ValueOf(frontier[2 * p])])

(* The run decides the weighted vote, or fails and decides nothing.         *)
Vote == INSTANCE WeightedVote WITH
  weights <- Weights(election.inputs),
  tau <- election.tau,
  status <- CASE stage = "done" -> "decided"
              [] stage = "failed" -> "failed"
              [] OTHER -> "pending",
  outcome <- result

ImplementsWeightedVote == Vote!Init /\ [][Vote!Next]_(Vote!vars)

(* Every run ends.                                                          *)
TallyEnds == <>(stage \in {"done", "failed"})

-----------------------------------------------------------------------------
(* The replay.                                                              *)

Outputs(entries) == [i \in DOMAIN entries |-> entries[i].out]
From(outs, k) == SubSeq(outs, k, Len(outs))

(* The walk: the calls of the request's circuits, labelled, in the order of *)
(* their numbers, and the decision, all with the outputs `outs`.            *)
ReplayLabel(atStage, level, node, call) ==
  [stage |-> atStage, level |-> level, node |-> node, bit |-> call.bit, kind |-> call.kind]

Expected(label, call) == [label |-> label, x |-> call.x, y |-> call.y]

(* One level: its nodes, given the walk before it, and the walk after it.   *)
ReplayNodes(before, outs) ==
  [p \in 1..(Len(before.frontier) \div 2) |->
     AddBits(before.frontier[2 * p - 1], before.frontier[2 * p],
             From(outs, Len(before.calls) + (p - 1) * GateCount(Len(before.frontier[1])) + 1))]

AfterLevel(before, nodes) ==
  [frontier |-> [p \in DOMAIN nodes |-> nodes[p].output],
   calls    |-> before.calls \o FlattenSeq(
                  [p \in DOMAIN nodes |->
                     [k \in DOMAIN nodes[p].calls |->
                        Expected(ReplayLabel("aggregate", before.depth, p, nodes[p].calls[k]),
                                 nodes[p].calls[k])]]),
   depth    |-> before.depth + 1]

ReplayLevel(before, outs) ==
  IF Len(before.frontier) = 1 THEN before
  ELSE AfterLevel(before, ReplayNodes(before, outs))

ReplayTree(request, outs) ==
  LET tree[d \in 0..Len(request.inputs)] ==
        IF d = 0 THEN [frontier |-> request.inputs, calls |-> <<>>, depth |-> 0]
        ELSE ReplayLevel(tree[d - 1], outs)
  IN tree[Len(request.inputs)]

AfterComparison(request, sum, last) ==
  [calls   |-> sum.calls \o
                 [k \in DOMAIN last.calls |->
                    Expected(ReplayLabel("compare", sum.depth, 1, last.calls[k]), last.calls[k])],
   widthOK |-> Len(sum.frontier[1]) = Len(request.inputs[1]) + sum.depth,
   result  |-> DecisionFromBorrow(last.borrow)]

ReplayComparison(request, sum, outs) ==
  AfterComparison(request, sum,
    SubLTBits(sum.frontier[1], PublicBits(request.tau, Len(sum.frontier[1])),
              From(outs, Len(sum.calls) + 1)))

Replay(request, outs) == ReplayComparison(request, ReplayTree(request, outs), outs)

(* The gate's own proof: with a selector that is a bit, the output is the   *)
(* product; no record of another selector verifies.                         *)
GateVerifies(entry) == entry.y \in Bits /\ entry.out = GateOutput(entry.x, entry.y)

GateMatches_LabelOnly(entry, index, expected) ==    \* Faulty: inputs not compared
  entry.gateIndex = index /\ entry.label = expected.label

GateMatches(entry, index, expected) ==
  /\ entry.gateIndex = index
  /\ entry.label = expected.label
  /\ entry.x = expected.x
  /\ entry.y = expected.y

WalkMatches(walk, entries) ==
  /\ Len(entries) >= Len(walk.calls)
  /\ \A i \in DOMAIN walk.calls : GateMatches(entries[i], i, walk.calls[i])
  /\ walk.widthOK

VerifyDag(walk, entries) ==
  /\ \A i \in DOMAIN entries : GateVerifies(entries[i])
  /\ WalkMatches(walk, entries)
  /\ Len(entries) = Len(walk.calls)

(* The stream verifies the records of the batches it had to load, and then  *)
(* finds neither a rest of the last batch nor another line.                 *)
Loaded(calls, lines) ==
  LET batches == (calls + BatchSize - 1) \div BatchSize IN
  IF batches * BatchSize < lines THEN batches * BatchSize ELSE lines

NothingTrails_LinesOnly(calls, lines) ==    \* Faulty: the rest of the last batch is not looked at
  lines <= Loaded(calls, lines)

NothingTrails(calls, lines) ==
  Loaded(calls, lines) <= calls /\ lines <= Loaded(calls, lines)

VerifyDagFile(walk, entries) ==
  /\ WalkMatches(walk, entries)
  /\ \A i \in 1..Loaded(Len(walk.calls), Len(entries)) : GateVerifies(entries[i])
  /\ NothingTrails(Len(walk.calls), Len(entries))

-----------------------------------------------------------------------------
(* Journals that a replay may be given: the run's own and ones that differ  *)
(* by a record lost, repeated, moved, replaced or added.                    *)
Without(entries, i) == SubSeq(entries, 1, i - 1) \o SubSeq(entries, i + 1, Len(entries))
Swapped(entries, i) == [entries EXCEPT ![i] = entries[i + 1], ![i + 1] = entries[i]]
Renumbered(entries) == [i \in DOMAIN entries |-> [entries[i] EXCEPT !.gateIndex = i]]

(* A record replaced by another valid gate, or by one with a wrong output;  *)
(* two values that are no bits stand for the others.                        *)
Values == Bits \cup {2, SubgroupOrder - 1}
Replacements(entry) ==
  { Record(entry.gateIndex, entry.label, [x |-> x, y |-> y], out) :
      x \in Values, y \in Values, out \in Values }

Altered(entries) ==
  LET moved ==
        { Without(entries, i) : i \in DOMAIN entries }
        \cup { InsertAt(entries, i, entries[i]) : i \in DOMAIN entries }
        \cup { Swapped(entries, i) : i \in 1..(Len(entries) - 1) }
        \cup { Append(entries, entries[i]) : i \in DOMAIN entries }
  IN moved
     \cup { Renumbered(e) : e \in moved }
     \cup UNION { { [entries EXCEPT ![i] = r] : r \in Replacements(entries[i]) } : i \in DOMAIN entries }

(* The journal of a parallel run is the one that the sequential walk        *)
(* expects, and the streaming verifier says of every journal what the       *)
(* other one says, also when it ends at a batch's end.                      *)
VerifiersAgree ==
  LET accepts(walk, entries) == VerifyDag(walk, entries) /\ VerifyDagFile(walk, entries)
      agree(walk, entries) == VerifyDag(walk, entries) <=> VerifyDagFile(walk, entries)
  IN stage = "done" /\ election \in Replayed =>
       /\ accepts(Replay(election, Outputs(journal)), journal)
       /\ \A other \in Altered(journal) : agree(Replay(election, Outputs(other)), other)

(* Whatever journal a verifier accepts, its result is the right decision.   *)
AcceptedJournalDecides ==
  LET decides(walk, entries) ==
        VerifyDag(walk, entries) \/ VerifyDagFile(walk, entries) =>
          walk.result = IF TotalWeight >= election.tau THEN 1 ELSE 0
  IN stage = "done" /\ election \in Replayed =>
       \A other \in {journal} \cup Altered(journal) :
         decides(Replay(election, Outputs(other)), other)
=============================================================================
