------------------------------ MODULE TallyDag ------------------------------
(* run_dag_request of backend/cgy_native/src/gate.rs: the weighted sum of   *)
(* the admitted vectors by a balanced tree of adders, one rayon worker per  *)
(* node of a level, and then the comparison with the threshold.  A worker   *)
(* numbers its gates from a start it computes itself, so that the numbers,  *)
(* which name the gates' board sessions, and the journal are those of a     *)
(* sequential run (run_sepolia_pipeline.js).                                *)
(* Abstracted: a ciphertext is its plaintext; a gate is one step that       *)
(* multiplies, or fails (its randomness hits the identity, a check fails).  *)
EXTENDS BitArithmetic

CONSTANT Elections    \* requests: [inputs: vectors of bits, tau: threshold]

(* No odd number but one divides it.                                        *)
IsPowerOfTwo(n) == \A d \in 1..n : n % d = 0 => d = 1 \/ d % 2 = 0

ASSUME ElectionsAreRequests ==
  \A e \in Elections :
    /\ e.inputs \in Seq(Seq(Bits))
    /\ Len(e.inputs) > 0 /\ IsPowerOfTwo(Len(e.inputs))
    /\ \A v \in 1..Len(e.inputs) : Len(e.inputs[v]) = Len(e.inputs[1])
    /\ Len(e.inputs[1]) > 0
    /\ e.tau \in Nat

(* The poll contract takes no threshold above the largest sum of weights    *)
(* (MAX_TAU, StrongN8Poll.sol): every voter's vector full of ones.          *)
LargestWeight(width) == ValueOf([b \in 1..width |-> 1])

ASSUME ThresholdsAreReachable ==
  \A e \in Elections : e.tau <= Len(e.inputs) * LargestWeight(Len(e.inputs[1]))

VARIABLES
  election,      \* the request
  stage,         \* "aggregate", "compare", "done" or "failed"
  frontier,      \* the vectors of the current level
  depth,         \* aggregate_depth
  nextGateId,    \* executor.next_gate_id, not advanced while workers run
  workers,       \* per node of the level: the answers of its gates, and whether one failed
  journal,       \* executor.gate_records
  result         \* the plaintext of the decision, <<>> before

vars == <<election, stage, frontier, depth, nextGateId, workers, journal, result>>

Stages == {"aggregate", "compare", "done", "failed"}
Idle == [outs |-> <<>>, failed |-> FALSE]

Running == stage \in {"aggregate", "compare"}
NodeCount == IF stage = "aggregate" THEN Len(frontier) \div 2 ELSE 1
NodeGates == GateCount(Len(frontier[1]))

(* What worker p computes, given the answers it has so far.                 *)
Circuit(p) ==
  IF stage = "aggregate"
  THEN AddBits(frontier[2 * p - 1], frontier[2 * p], workers[p].outs)
  ELSE SubLTBits(frontier[1], PublicBits(election.tau, Len(frontier[1])), workers[p].outs)

Label(p, call) == [stage |-> stage, level |-> depth, node |-> p, bit |-> call.bit, kind |-> call.kind]

Record(gateIndex, label, call, out) ==
  [gateIndex |-> gateIndex, label |-> label, x |-> call.x, y |-> call.y, out |-> out]

StartGateId_LevelStart(p) == nextGateId    \* Faulty: every worker starts at the level's start
StartGateId(p) == nextGateId + (p - 1) * NodeGates

Records(p) ==
  LET calls == Circuit(p).calls IN
  [k \in DOMAIN workers[p].outs |->
     Record(StartGateId(p) + k - 1, Label(p, calls[k]), calls[k], workers[p].outs[k])]

Done(p) == Len(workers[p].outs) = NodeGates
Joined_AllDone == \A p \in 1..NodeCount : Done(p)    \* Faulty: waits for successes only
Joined == \A p \in 1..NodeCount : Done(p) \/ workers[p].failed
WidthOK == Len(frontier[1]) = Len(election.inputs[1]) + depth
Succeeded == (\A p \in 1..NodeCount : Done(p)) /\ (stage = "compare" => WidthOK)

(* The records of the workers one after the other, `size` of each.          *)
InNodeOrder(records, size) ==
  [i \in 1..(Len(records) * size) |-> records[((i - 1) \div size) + 1][((i - 1) % size) + 1]]

-----------------------------------------------------------------------------
StageOf(vectors) == IF Len(vectors) > 1 THEN "aggregate" ELSE "compare"
Launch(vectors) == [p \in 1..(IF Len(vectors) > 1 THEN Len(vectors) \div 2 ELSE 1) |-> Idle]

Init ==
  /\ election \in Elections
  /\ frontier = election.inputs
  /\ stage = StageOf(frontier)
  /\ workers = Launch(frontier)
  /\ depth = 0
  /\ nextGateId = 1
  /\ journal = <<>>
  /\ result = <<>>

(* A worker runs its next gate.                                             *)
RunGate(p) ==
  LET call == Circuit(p).calls[Len(workers[p].outs) + 1] IN
  /\ ~Done(p)
  /\ ~workers[p].failed
  /\ call.y \in Bits
  /\ workers' = [workers EXCEPT ![p].outs = Append(@, GateOutput(call.x, call.y))]
  /\ UNCHANGED <<election, stage, frontier, depth, nextGateId, journal, result>>

(* A gate fails, and with it its worker; the other workers go on.           *)
GateFails(p) ==
  /\ ~Done(p)
  /\ ~workers[p].failed
  /\ workers' = [workers EXCEPT ![p].failed = TRUE]
  /\ UNCHANGED <<election, stage, frontier, depth, nextGateId, journal, result>>

(* All workers of a level joined: their records are concatenated in the     *)
(* order of the nodes, whatever the order they finished in.                 *)
CollectLevel ==
  LET next == [p \in 1..NodeCount |-> Circuit(p).output] IN
  /\ stage = "aggregate"
  /\ Succeeded
  /\ journal' = journal \o InNodeOrder([p \in 1..NodeCount |-> Records(p)], NodeGates)
  /\ nextGateId' = nextGateId + NodeCount * NodeGates
  /\ frontier' = next
  /\ depth' = depth + 1
  /\ stage' = StageOf(next)
  /\ workers' = Launch(next)
  /\ UNCHANGED <<election, result>>

(* The comparison is done: the decision is one minus its borrow.            *)
Conclude ==
  /\ stage = "compare"
  /\ Succeeded
  /\ journal' = journal \o Records(1)
  /\ nextGateId' = nextGateId + NodeGates
  /\ result' = <<DecisionFromBorrow(Circuit(1).borrow)>>
  /\ stage' = "done"
  /\ UNCHANGED <<election, frontier, depth, workers>>

(* A worker failed, or the width is not the expected one: the request       *)
(* fails as a whole, when all workers have joined, and drops its records.   *)
GiveUp ==
  /\ Running
  /\ Joined
  /\ ~Succeeded
  /\ stage' = "failed"
  /\ journal' = <<>>
  /\ UNCHANGED <<election, frontier, depth, nextGateId, workers, result>>

Next ==
  \/ Running /\ \E p \in 1..NodeCount : RunGate(p) \/ GateFails(p)
  \/ CollectLevel
  \/ Conclude
  \/ GiveUp

Spec == Init /\ [][Next]_vars

(* The thread pool runs every worker, and the main thread goes on.          *)
Fairness == WF_vars(Next)

FairSpec == Spec /\ Fairness

-----------------------------------------------------------------------------
(* Every gate number names one gate, also while the workers of a level run, *)
(* and the journal holds the gates in the order of their numbers from 1; so *)
(* no two gates share the sessions of their boards, and the number after    *)
(* the last is free for the final release (run_sepolia_pipeline.js).        *)
GateIdsUnique ==
  stage # "failed" =>
    /\ nextGateId = Len(journal) + 1
    /\ \A i \in 1..Len(journal) : journal[i].gateIndex = i
    /\ Running =>
         \A p, q \in 1..NodeCount :
           \A k \in DOMAIN Records(p), l \in DOMAIN Records(q) :
             LET id == Records(p)[k].gateIndex IN
             /\ id > Len(journal)
             /\ id = Records(q)[l].gateIndex => p = q /\ k = l
=============================================================================
