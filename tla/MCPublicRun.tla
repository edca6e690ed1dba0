----------------------------- MODULE MCPublicRun ----------------------------
(* Two processes that share a run directory, an oracle directory or nothing *)
(* but the clock; two ballots and two gates, the least for a process to be  *)
(* stopped between two of them.                                             *)
EXTENDS PublicReplay

CONSTANTS p1, p2, d1, d2, o1, o2

MCJob(kind, run, oracle) == [kind |-> kind, run |-> run, oracle |-> oracle]
MCPair(first, second) == [x \in Processes |-> IF x = p1 THEN first ELSE second]

\* The same directories, twice; another script in the same directories; the same
\* oracle directory; and two processes that never meet.
MCJobs ==
  { MCPair(MCJob("sepolia", d1, o1), MCJob("sepolia", d1, o1)),
    MCPair(MCJob("stream", d1, o1), MCJob("local", d1, o2)),
    MCPair(MCJob("reference", d1, o1), MCJob("sepolia", d1, o2)),
    MCPair(MCJob("sepolia", d1, o1), MCJob("local", d2, o1)),
    MCPair(MCJob("sepolia", d1, o1), MCJob("stream", d2, o2)) }

MCDecision == [x \in Processes |-> IF x = p1 THEN 1 ELSE 0]
MCProgressFile == <<"progress_001.json", "progress_002.json">>
=============================================================================
